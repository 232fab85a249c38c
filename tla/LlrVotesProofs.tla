--------------------------- MODULE LlrVotesProofs ---------------------------
(***************************************************************************)
(* Theorems about LLR voting for every set of validators, epochs, indexes  *)
(* and ballots, every cache size and every schedule of commits and crashes.*)
(***************************************************************************)
EXTENDS LlrVotes, FiniteSetTheorems, TLAPS

Weight == [weight : Nat, bits : SUBSET Nat, room : Nat]

CacheType == [Key -> [state : {"absent", "clean", "mutated"}, val : Weight]]

\* The creator of the ballot in progress and those of the stored ballots are validators
\* of the epochs that weigh them (the errValidatorNotExist return).
Eligible(d, j) ==
  /\ \A b \in d.stored : b.creator \in Members[b.group]
  /\ j # NoJob => j.ballot.creator \in Members[j.ballot.group]

TypeInv == TypeOK /\ Eligible(db, job) /\ Eligible(disk, NoJob)

----------------------------------------------------------------------------
(* Facts about the operators *)

\* bitmap.New has room for as many bits as there are validators.
LEMMA CapacityFits == ASSUME NEW n \in Nat PROVE Capacity(n) \in Nat /\ n <= Capacity(n)
<1> DEFINE q == (n + WordBits - 1) \div WordBits
           r == (n + WordBits - 1) % WordBits
<1>1. WordBits \in Nat /\ WordBits > 0
  BY NumbersAssumption
<1>2. q \in Nat /\ r \in 0 .. WordBits - 1 /\ n + WordBits - 1 = WordBits * q + r
  BY <1>1
<1> HIDE DEF q, r
<1>3. WordBits * q \in Nat
  BY <1>1, <1>2
<1>4. n <= WordBits * q
  BY <1>1, <1>2, <1>3
<1> QED BY <1>3, <1>4 DEF Capacity, q

\* What a ballot that passed the checks looks like.
LEMMA BallotFacts ==
  ASSUME NEW b \in Ballot
  PROVE  /\ b.kind \in Kind /\ b.creator \in Validator /\ b.group \in Epoch /\ b.epoch \in Epoch
         /\ b.start \in Nat /\ b.votes \in Seq(Hash)
         /\ Len(b.votes) \in Nat /\ Len(b.votes) >= 1
         /\ LastOf(b) \in Nat
         /\ \A i \in 1 .. Len(b.votes) :
              /\ b.votes[i] \in Hash
              /\ b.start + i - 1 \in Index
              /\ ItemOf(b, i) \in Item
              /\ KeyOf(b, i) \in Key
         /\ b # NoBallot
<1>1. BallotType(b) /\ b # NoBallot
  BY BallotAssumption
<1>2. Len(b.votes) \in Nat /\ Len(b.votes) >= 1
  BY <1>1 DEF BallotType
<1>3. b.start \in Nat /\ LastOf(b) \in Nat
  <2>1. b.start \in Nat
    BY <1>1, NumbersAssumption DEF BallotType
  <2> QED BY <2>1, <1>2 DEF LastOf
<1>4. ASSUME NEW i \in 1 .. Len(b.votes)
      PROVE  /\ b.votes[i] \in Hash
             /\ b.start + i - 1 \in Index
             /\ ItemOf(b, i) \in Item
             /\ KeyOf(b, i) \in Key
  <2>1. b.votes[i] \in Hash /\ b.start + i - 1 \in Index /\ b.kind \in Kind
    BY <1>1 DEF BallotType
  <2>2. KeyOf(b, i) \in Key
    BY DEF Key
  <2> QED BY <2>1, <2>2 DEF ItemOf, Item
<1> QED BY <1>1, <1>2, <1>3, <1>4 DEF BallotType

\* The shape of a key.
LEMMA KeyFacts ==
  ASSUME NEW k \in Key
  PROVE  /\ k = <<k[1], k[2], k[3], k[4]>>
         /\ <<k[1], k[2]>> \in Item /\ k[3] \in Epoch /\ k[4] \in Hash
<1>1. PICK b \in Ballot : \E i \in 1 .. Len(b.votes) : k = KeyOf(b, i)
  BY DEF Key
<1>2. PICK i \in 1 .. Len(b.votes) : k = KeyOf(b, i)
  BY <1>1
<1> QED BY <1>2, BallotFacts DEF KeyOf, ItemOf

\* Every group of validators has a finite number of members with bit indexes below it.
LEMMA GroupFacts ==
  ASSUME NEW e \in Epoch, NEW v \in Members[e]
  PROVE  /\ Cardinality(Members[e]) \in Nat
         /\ IdxOf[e][v] \in Nat /\ IdxOf[e][v] < Cardinality(Members[e])
         /\ Members[e] \subseteq Validator
         /\ WeightOf[e] \in [SUBSET Validator -> Nat]
         /\ WeightOf[e][{v}] \in Nat
<1>1. Cardinality(Members[e]) \in Nat
  BY ValidatorsAssumption, FS_CardinalityType
<1>2. WeightOf[e] \in [SUBSET Validator -> Nat] /\ Members[e] \subseteq Validator
  BY ValidatorsAssumption DEF IsMeasure
<1>3. IdxOf[e][v] \in 0 .. Cardinality(Members[e]) - 1
  BY ValidatorsAssumption
<1> QED BY <1>1, <1>2, <1>3

\* addLlrVoteWeight yields a vote weight.
LEMMA AddedType ==
  ASSUME NEW t \in Weight, NEW i \in Nat, NEW n \in Nat, NEW w \in Nat
  PROVE  Added(t, i, n, w) \in Weight
<1>1. Capacity(n) \in Nat
  BY CapacityFits
<1> QED BY <1>1 DEF Added, Weight

LEMMA TallyType ==
  ASSUME NEW d \in StoreType, NEW c \in CacheType, NEW k \in Key
  PROVE  Tally(d, c, k) \in Weight
BY DEF StoreType, CacheType, Tally, Weight

----------------------------------------------------------------------------
(* Type correctness *)

LEMMA InitType == Init => TypeInv
<1> SUFFICES ASSUME Init PROVE TypeInv
  OBVIOUS
<1>1. EmptyStore \in StoreType
  <2>1. [k \in Key |-> NoWeight] \in [Key -> Weight]
    BY DEF NoWeight, Weight
  <2>2. [i \in Item |-> NoHash] \in [Item -> Hash \cup {NoHash}]
    OBVIOUS
  <2>3. {0} \in SUBSET Epoch
    BY NumbersAssumption
  <2> QED BY <2>1, <2>2, <2>3 DEF EmptyStore, StoreType, Weight
<1>2. EmptyCache \in CacheType
  BY DEF EmptyCache, CacheType, NotCached, NoWeight, Weight
<1> QED BY <1>1, <1>2 DEF Init, TypeInv, TypeOK, CacheType, Weight, NoJob, Eligible, EmptyStore

\* The vote that CountVote counts, and what it does to the tally and to the results.
CurVote == job.ballot.votes[job.next]

CurItem == ItemOf(job.ballot, job.next)

CurKey == KeyOf(job.ballot, job.next)

CurIdx == IdxOf[job.ballot.group][job.ballot.creator]

CurWeight == WeightOf[job.ballot.group][{job.ballot.creator}]

OldTally == Tally(db, cache, CurKey)

NewTally == Added(OldTally, CurIdx, Cardinality(Members[job.ballot.group]), CurWeight)

Completes == Wins(db.results, CurItem, NewTally.weight, job.ballot.group)

NewResults == IF Completes THEN [db.results EXCEPT ![CurItem] = CurVote] ELSE db.results

NewLowest ==
  LET kind == job.ballot.kind
  IN IF Completes
       THEN Actualized(db.lowest[kind], job.ballot.start + job.next - 1, NewResults, kind)
       ELSE {db.lowest[kind]}

LEMMA CurVoteTypes ==
  ASSUME TypeInv, CountVote
  PROVE  /\ job.ballot \in Ballot /\ job.ballot # NoBallot /\ job.ballot.kind \in Kind
         /\ job.ballot.group \in Epoch /\ job.ballot.creator \in Members[job.ballot.group]
         /\ job.ballot.creator \in Validator
         /\ job.next \in 1 .. Len(job.ballot.votes) /\ Len(job.ballot.votes) \in Nat
         /\ CurKey \in Key /\ CurItem \in Item /\ CurVote \in Hash /\ CurIdx \in Nat
         /\ CurWeight \in Nat
         /\ OldTally \in Weight /\ NewTally \in Weight
<1> DEFINE b == job.ballot
<1>1. b \in Ballot /\ job.next \in 1 .. Len(b.votes) /\ b.creator \in Members[b.group]
  BY DEF TypeInv, TypeOK, Eligible, CountVote
<1>2. /\ b \in Ballot /\ b # NoBallot /\ b.kind \in Kind /\ b.group \in Epoch
      /\ b.creator \in Validator /\ Len(b.votes) \in Nat
      /\ CurKey \in Key /\ CurItem \in Item /\ CurVote \in Hash
  BY <1>1, BallotFacts DEF CurKey, CurItem, CurVote
<1>3. OldTally \in Weight
  BY <1>2, TallyType DEF TypeInv, TypeOK, CacheType, Weight, OldTally
<1>4. CurIdx \in Nat /\ CurWeight \in Nat /\ Cardinality(Members[b.group]) \in Nat
  BY <1>1, <1>2, GroupFacts DEF CurIdx, CurWeight
<1>5. NewTally \in Weight
  BY <1>3, <1>4, AddedType DEF NewTally
<1> QED BY <1>1, <1>2, <1>3, <1>4, <1>5

\* CountVote in terms of the above.
LEMMA CountVoteStep ==
  ASSUME TypeInv, CountVote
  PROVE  \E out \in Evictions(cache, CurKey), low \in NewLowest :
           /\ cache' = CacheAfter(cache, CurKey, OldTally, NewTally, out)
           /\ db' = [db EXCEPT !.table = TableAfter(db.table, cache, out),
                               !.results = NewResults,
                               !.lowest = [db.lowest EXCEPT ![job.ballot.kind] = low]]
           /\ job' = [job EXCEPT !.next = job.next + 1]
           /\ disk' = disk
<1>1. PICK out \in Evictions(cache, CurKey) :
        /\ cache' = CacheAfter(cache, CurKey, OldTally, NewTally, out)
        /\ \E low \in NewLowest :
             db' = [db EXCEPT !.table = TableAfter(@, cache, out),
                              !.results = NewResults,
                              !.lowest[job.ballot.kind] = low]
  BY DEF CountVote, CurKey, CurItem, CurVote, CurIdx, CurWeight, OldTally, NewTally, Completes,
         NewResults, NewLowest
<1>2. job' = [job EXCEPT !.next = job.next + 1] /\ disk' = disk
  BY DEF CountVote
<1>3. db \in StoreType
  BY DEF TypeInv, TypeOK
<1> QED BY <1>1, <1>2, <1>3 DEF StoreType

LEMMA CountVoteType == ASSUME TypeInv, CountVote PROVE TypeInv'
<1>1. PICK out \in Evictions(cache, CurKey), low \in NewLowest :
           /\ cache' = CacheAfter(cache, CurKey, OldTally, NewTally, out)
           /\ db' = [db EXCEPT !.table = TableAfter(db.table, cache, out),
                               !.results = NewResults,
                               !.lowest = [db.lowest EXCEPT ![job.ballot.kind] = low]]
           /\ job' = [job EXCEPT !.next = job.next + 1]
           /\ disk' = disk
  BY CountVoteStep
<1>2. low \in Nat
  <2>1. db.lowest[job.ballot.kind] \in Nat
    BY CurVoteTypes DEF TypeInv, TypeOK, StoreType
  <2> QED BY <2>1, NumbersAssumption DEF Actualized, NewLowest
<1>3. TableAfter(db.table, cache, out) \in [Key -> Weight]
  BY DEF TableAfter, TypeInv, TypeOK, StoreType, Weight
<1>4. NewResults \in [Item -> Hash \cup {NoHash}]
  BY CurVoteTypes DEF NewResults, TypeInv, TypeOK, StoreType
<1>5. db' \in StoreType /\ db'.stored = db.stored
  BY <1>1, <1>2, <1>3, <1>4 DEF TypeInv, TypeOK, StoreType, Weight
<1>6. cache' \in CacheType
  <2>1. NotCached.val \in Weight /\ NotCached.state = "absent"
    BY DEF NotCached, NoWeight, Weight
  <2>2. cache \in CacheType /\ NewTally \in Weight
    BY CurVoteTypes DEF CacheType, Weight, TypeInv, TypeOK
  <2>3. ASSUME NEW x \in Key
        PROVE  CacheAfter(cache, CurKey, OldTally, NewTally, out)[x]
                 \in [state : {"absent", "clean", "mutated"}, val : Weight]
    <3>1. cache[x] \in [state : {"absent", "clean", "mutated"}, val : Weight]
      BY <2>2 DEF CacheType
    <3>2. CASE x = CurKey
      BY <2>2, <3>1, <3>2 DEF CacheAfter
    <3>3. CASE x # CurKey /\ x \in out
      BY <3>3 DEF CacheAfter, NotCached, NoWeight, Weight
    <3>4. CASE x # CurKey /\ x \notin out
      BY <3>1, <3>4 DEF CacheAfter
    <3> QED BY <3>2, <3>3, <3>4
  <2>4. CacheAfter(cache, CurKey, OldTally, NewTally, out) \in CacheType
    BY <2>3 DEF CacheType, CacheAfter
  <2> QED BY <1>1, <2>4
<1>7. /\ job' \in [ballot : Ballot \cup {NoBallot}, next : Nat]
      /\ job'.ballot = job.ballot /\ job'.next \in 1 .. Len(job.ballot.votes) + 1
      /\ job'.ballot \in Ballot
  <2>1. job \in [ballot : Ballot \cup {NoBallot}, next : Nat]
    BY DEF TypeInv, TypeOK
  <2>2. job.next + 1 \in 1 .. Len(job.ballot.votes) + 1
    BY CurVoteTypes
  <2> QED BY <1>1, <2>1, <2>2, CurVoteTypes
<1>8. job # NoJob
  BY DEF CountVote
<1> QED BY <1>1, <1>5, <1>6, <1>7, <1>8, CurVoteTypes DEF TypeInv, TypeOK, CacheType, Weight, Eligible

LEMMA NextType == ASSUME TypeInv, [Next]_vars PROVE TypeInv'
<1>1. ASSUME NEW b \in Ballot, BeginBallot(b) PROVE TypeInv'
  <2>1. job' = [ballot |-> b, next |-> 1] /\ UNCHANGED <<db, disk, cache>>
    BY <1>1 DEF BeginBallot
  <2>2. b.creator \in Members[b.group] /\ Len(b.votes) \in Nat /\ Len(b.votes) >= 1
    BY <1>1, BallotFacts DEF BeginBallot
  <2> QED BY <2>1, <2>2 DEF TypeInv, TypeOK, Eligible
<1>2. CASE CountVote
  BY <1>2, CountVoteType
<1>3. CASE StoreBallot
  <2> DEFINE b == job.ballot
  <2>1. b \in Ballot /\ b.creator \in Members[b.group]
    BY <1>3 DEF StoreBallot, TypeInv, TypeOK, Eligible
  <2>2. b.kind \in Kind /\ b.creator \in Validator /\ LastOf(b) \in Nat
    BY <2>1, BallotFacts
  <2> DEFINE l == Later(LastOf(b), db.last[b.kind][b.creator])
  <2>3. l \in Nat /\ db' = [db EXCEPT !.stored = @ \cup {b}, !.last[b.kind][b.creator] = l]
    <3>1. db.last[b.kind][b.creator] \in Nat
      BY <2>2 DEF TypeInv, TypeOK, StoreType
    <3>2. l \in Nat
      BY <3>1, <2>2 DEF Later
    <3>3. db' = [db EXCEPT !.stored = @ \cup {b}, !.last[b.kind][b.creator] = l]
      BY <1>3, <2>2 DEF StoreBallot, TypeInv, TypeOK, StoreType
    <3> QED BY <3>2, <3>3
  <2> HIDE DEF l
  <2>4. db' \in StoreType /\ db'.stored = db.stored \cup {b}
    BY <2>1, <2>2, <2>3 DEF TypeInv, TypeOK, StoreType
  <2> QED BY <1>3, <2>1, <2>4 DEF StoreBallot, NoJob, TypeInv, TypeOK, Eligible
<1>4. ASSUME NEW e \in Epoch, LearnEpoch(e) PROVE TypeInv'
  <2>1. db' \in StoreType /\ db'.stored = db.stored
    BY <1>4 DEF LearnEpoch, TypeInv, TypeOK, StoreType
  <2> QED BY <1>4, <2>1 DEF LearnEpoch, TypeInv, TypeOK, Eligible
<1>5. ASSUME NEW kind \in Kind, PassPreLlr(kind) PROVE TypeInv'
  <2> DEFINE n == db.head[kind] + 1
             m == IF db.lowest[kind] = n THEN n + 1 ELSE db.lowest[kind]
  <2>1. n \in Nat /\ m \in Nat /\ db' = [db EXCEPT !.head[kind] = n, !.lowest[kind] = m]
    <3>1. db.head[kind] \in Nat /\ db.lowest[kind] \in Nat
      BY DEF TypeInv, TypeOK, StoreType
    <3>2. db' = [db EXCEPT !.head[kind] = n, !.lowest[kind] = m]
      BY <1>5 DEF PassPreLlr, TypeInv, TypeOK, StoreType
    <3> QED BY <3>1, <3>2
  <2> HIDE DEF n, m
  <2>2. db' \in StoreType /\ db'.stored = db.stored
    BY <2>1 DEF TypeInv, TypeOK, StoreType
  <2> QED BY <1>5, <2>2 DEF PassPreLlr, TypeInv, TypeOK, Eligible
<1>6. CASE Commit
  <2>1. FlushedTable(db.table, cache) \in [Key -> Weight]
    BY DEF FlushedTable, TypeInv, TypeOK, StoreType, Weight
  <2>2. db' \in StoreType /\ db'.stored = db.stored
    BY <1>6, <2>1 DEF Commit, TypeInv, TypeOK, StoreType, Weight
  <2>3. cache' \in CacheType
    BY <1>6 DEF Commit, FlushedCache, CacheType, Weight, TypeInv, TypeOK
  <2> QED BY <1>6, <2>2, <2>3 DEF Commit, TypeInv, TypeOK, CacheType, Weight, Eligible
<1>7. CASE Crash
  <2>1. EmptyCache \in CacheType
    BY DEF EmptyCache, CacheType, NotCached, NoWeight, Weight
  <2> QED BY <1>7, <2>1 DEF Crash, NoJob, CacheType, Weight, TypeInv, TypeOK, Eligible
<1>8. CASE UNCHANGED vars
  BY <1>8 DEF vars, TypeInv, TypeOK, Eligible
<1> QED BY <1>1, <1>2, <1>3, <1>4, <1>5, <1>6, <1>7, <1>8 DEF Next

LEMMA SpecTypeInv == Spec => []TypeInv
BY InitType, NextType, PTL DEF Spec

\* The variables of LLR voting keep the types of their Go counterparts.
THEOREM SpecTypeOK == Spec => []TypeOK
<1>1. TypeInv => TypeOK
  BY DEF TypeInv
<1> QED BY <1>1, SpecTypeInv, PTL

----------------------------------------------------------------------------
(* The tallies and the results *)

\* A cached entry that was not mutated since the last write agrees with the table.
CleanInv(d, c) == \A k \in Key : c[k].state = "clean" => c[k].val = d.table[k]

TallyInv(d, c, j) ==
  \A k \in Key : TallyIs(Tally(d, c, k), k[3], Voters(CountedVotes(d, j), k))

\* A bitmap that was allocated has room for all validators.
RoomInv(d, c) ==
  \A k \in Key : Tally(d, c, k).room \in {0, Capacity(Cardinality(Members[k[3]]))}

Full(d, c, k) == Tally(d, c, k).weight >= Quorum(k[3])

\* An item has a result exactly if some tally of it is full, and then that of a full one.
ResultInv(d, c) ==
  /\ \A k \in Key : Full(d, c, k) => d.results[<<k[1], k[2]>>] # NoHash
  /\ \A i \in Item : d.results[i] # NoHash =>
       \E k \in Key : <<k[1], k[2]>> = i /\ k[4] = d.results[i] /\ Full(d, c, k)

StoreInv(d, c, j) ==
  CleanInv(d, c) /\ TallyInv(d, c, j) /\ RoomInv(d, c) /\ ResultInv(d, c)

MemoryInv ==
  /\ disk.stored \subseteq db.stored
  /\ \A i \in Item : disk.results[i] # NoHash => db.results[i] = disk.results[i]

IInv ==
  /\ TypeInv
  /\ StoreInv(db, cache, job)
  /\ StoreInv(disk, EmptyCache, NoJob)
  /\ MemoryInv

\* VotesCache: a lookup sees the value added last, whatever the addition evicts.
LEMMA CacheView ==
  ASSUME NEW d \in StoreType, NEW c \in CacheType, NEW k \in Key, NEW new \in Weight,
         NEW out \in Evictions(c, k), CleanInv(d, c),
         NEW d2, d2.table = TableAfter(d.table, c, out),
         NEW c2, c2 = CacheAfter(c, k, Tally(d, c, k), new, out)
  PROVE  /\ \A x \in Key : Tally(d2, c2, x) = IF x = k THEN new ELSE Tally(d, c, x)
         /\ CleanInv(d2, c2)
<1>1. \A x \in out : x \in Key /\ c[x].state # "absent" /\ c[k].state = "absent" /\ x # k
  BY DEF Evictions
<1>2. ASSUME NEW x \in Key
      PROVE  /\ Tally(d2, c2, x) = IF x = k THEN new ELSE Tally(d, c, x)
             /\ c2[x].state = "clean" => c2[x].val = d2.table[x]
  <2>1. c[x].state \in {"absent", "clean", "mutated"} /\ d2.table[x] = TableAfter(d.table, c, out)[x]
    BY DEF CacheType
  <2>2. c[x].state = "clean" => c[x].val = d.table[x]
    BY DEF CleanInv
  <2>3. CASE x = k
    <3>1. k \notin out /\ d2.table[k] = d.table[k]
      BY <1>1, <2>1, <2>3 DEF TableAfter
    <3>2. c2[k] = [state |-> IF new # Tally(d, c, k) THEN "mutated"
                             ELSE IF c[k].state = "absent" THEN "clean" ELSE c[k].state,
                   val |-> new]
      BY DEF CacheAfter
    <3> QED BY <3>1, <3>2, <2>1, <2>2, <2>3 DEF Tally
  <2>4. CASE x # k /\ x \in out
    <3>1. c2[x] = NotCached
      BY <2>4 DEF CacheAfter
    <3>2. d2.table[x] = c[x].val
      BY <1>1, <2>1, <2>2, <2>4 DEF TableAfter
    <3> QED BY <1>1, <2>4, <3>1, <3>2 DEF Tally, NotCached
  <2>5. CASE x # k /\ x \notin out
    <3>1. c2[x] = c[x] /\ d2.table[x] = d.table[x]
      BY <2>1, <2>5 DEF CacheAfter, TableAfter
    <3> QED BY <2>2, <2>5, <3>1 DEF Tally
  <2> QED BY <2>3, <2>4, <2>5
<1> QED BY <1>2 DEF CleanInv

\* One more vote adds its validator to the voters of its key and to no others.
LEMMA VotersGrow ==
  ASSUME NEW vs, NEW k \in Key, NEW v \in Validator, NEW x \in Key
  PROVE  Voters(vs \cup {<<k, v>>}, x) = Voters(vs, x) \cup (IF x = k THEN {v} ELSE {})
BY DEF Voters

\* Whoever voted is a validator, of every epoch if the validators are stable.
LEMMA VotersEligible ==
  ASSUME StableValidators, NEW d \in StoreType, NEW j, Eligible(d, j),
         j = NoJob \/ j.ballot \in Ballot, NEW k \in Key
  PROVE  Voters(CountedVotes(d, j), k) \subseteq Members[k[3]]
<1> SUFFICES ASSUME NEW v \in Voters(CountedVotes(d, j), k) PROVE v \in Members[k[3]]
  OBVIOUS
<1>1. PICK b \in Ballot : v = b.creator /\ b.creator \in Members[b.group]
  <2>1. <<k, v>> \in CountedVotes(d, j)
    BY DEF Voters
  <2>2. ASSUME NEW b, NEW n, <<k, v>> \in VotesOf(b, n) PROVE v = b.creator
    BY <2>2 DEF VotesOf
  <2>3. CASE \E b \in d.stored : <<k, v>> \in VotesOf(b, Len(b.votes))
    <3>1. PICK b \in d.stored : <<k, v>> \in VotesOf(b, Len(b.votes))
      BY <2>3
    <3> QED BY <3>1, <2>2 DEF Eligible, StoreType
  <2>4. CASE j # NoJob /\ <<k, v>> \in VotesOf(j.ballot, j.next - 1)
    BY <2>4, <2>2 DEF Eligible
  <2> QED BY <2>1, <2>3, <2>4 DEF CountedVotes
<1>2. b.group \in Epoch /\ k[3] \in Epoch
  BY BallotFacts, KeyFacts
<1> QED BY <1>1, <1>2 DEF StableValidators

\* addLlrVoteWeight counts a validator once.
LEMMA AddedCounts ==
  ASSUME StableValidators, NEW e \in Epoch, NEW g \in Epoch,
         NEW V \in SUBSET Members[e], NEW v \in Members[g],
         NEW t \in Weight, TallyIs(t, e, V), NEW n \in Nat
  PROVE  TallyIs(Added(t, IdxOf[g][v], n, WeightOf[g][{v}]), e, V \cup {v})
<1>1. Members[g] = Members[e] /\ IdxOf[g] = IdxOf[e] /\ WeightOf[g] = WeightOf[e]
  BY DEF StableValidators
<1>2. v \in Members[e] /\ Members[e] \subseteq Validator
  BY <1>1, GroupFacts
<1>3. CASE IdxOf[e][v] \in t.bits
  <2>1. PICK w \in V : IdxOf[e][w] = IdxOf[e][v]
    BY <1>3 DEF TallyIs
  <2>2. w = v
    BY <2>1, <1>2, ValidatorsAssumption
  <2> QED BY <1>1, <1>3, <2>2 DEF Added, TallyIs
<1>4. CASE IdxOf[e][v] \notin t.bits
  <2>1. v \notin V
    BY <1>4 DEF TallyIs
  <2>2. WeightOf[e][V \cup {v}] = WeightOf[e][V] + WeightOf[e][{v}]
    BY <2>1, <1>2, ValidatorsAssumption DEF IsMeasure
  <2> QED BY <1>1, <1>4, <2>2 DEF Added, TallyIs
<1> QED BY <1>3, <1>4

\* The votes counted after CountVote.
LEMMA CountedAfterCountVote ==
  ASSUME TypeInv, CountVote
  PROVE  CountedVotes(db', job') = CountedVotes(db, job) \cup {<<CurKey, job.ballot.creator>>}
<1>1. /\ job # NoJob /\ job' = [job EXCEPT !.next = job.next + 1] /\ db'.stored = db.stored
      /\ job \in [ballot : Ballot \cup {NoBallot}, next : Nat]
  BY CountVoteStep DEF CountVote, TypeInv, TypeOK, StoreType
<1>2. job' # NoJob /\ job'.ballot = job.ballot /\ job'.next - 1 = job.next
  BY <1>1, CurVoteTypes DEF NoJob
<1>3. VotesOf(job.ballot, job.next)
        = VotesOf(job.ballot, job.next - 1) \cup {<<CurKey, job.ballot.creator>>}
  <2>1. job.next \in Nat /\ job.next >= 1
    BY CurVoteTypes
  <2>2. 1 .. job.next = (1 .. job.next - 1) \cup {job.next}
    BY <2>1
  <2> QED BY <2>2 DEF VotesOf, CurKey
<1> QED BY <1>1, <1>2, <1>3 DEF CountedVotes

\* With stable validators every epoch has the same third.
LEMMA QuorumStable ==
  ASSUME StableValidators, NEW e \in Epoch, NEW g \in Epoch
  PROVE  Quorum(e) \in Nat /\ Quorum(e) = Quorum(g)
<1>1. WeightOf[e][Members[e]] \in Nat
  BY ValidatorsAssumption DEF IsMeasure
<1> QED BY <1>1 DEF Quorum, StableValidators

\* The invariant of the store only looks at the counted votes, the tallies and the results.
LEMMA StoreFollows ==
  ASSUME NEW d, NEW c, NEW j, NEW d2, NEW c2, NEW j2, StoreInv(d, c, j),
         CountedVotes(d2, j2) = CountedVotes(d, j), d2.results = d.results,
         \A k \in Key : Tally(d2, c2, k) = Tally(d, c, k),
         CleanInv(d2, c2)
  PROVE  StoreInv(d2, c2, j2)
<1>1. TallyInv(d2, c2, j2) /\ RoomInv(d2, c2)
  BY DEF StoreInv, TallyInv, RoomInv
<1>2. \A k \in Key : Full(d2, c2, k) <=> Full(d, c, k)
  BY DEF Full
<1>3. ResultInv(d2, c2)
  BY <1>2 DEF StoreInv, ResultInv
<1> QED BY <1>1, <1>3 DEF StoreInv

LEMMA CountVoteStore ==
  ASSUME StableValidators, TypeInv, StoreInv(db, cache, job), CountVote
  PROVE  StoreInv(db', cache', job')
<1> DEFINE v == job.ballot.creator
           g == job.ballot.group
           e == job.ballot.epoch
<1>1. PICK out \in Evictions(cache, CurKey), low \in NewLowest :
           /\ cache' = CacheAfter(cache, CurKey, OldTally, NewTally, out)
           /\ db' = [db EXCEPT !.table = TableAfter(db.table, cache, out),
                               !.results = NewResults,
                               !.lowest = [db.lowest EXCEPT ![job.ballot.kind] = low]]
  BY CountVoteStep
<1>2. /\ db \in StoreType /\ cache \in CacheType /\ Eligible(db, job) /\ job.ballot \in Ballot
      /\ CurKey \in Key /\ CurItem \in Item /\ CurVote \in Hash /\ CurVote # NoHash
      /\ OldTally \in Weight /\ NewTally \in Weight /\ CurIdx \in Nat /\ CurWeight \in Nat
      /\ v \in Validator /\ g \in Epoch /\ e \in Epoch /\ v \in Members[g]
      /\ CurKey[3] = e /\ CurKey[4] = CurVote /\ <<CurKey[1], CurKey[2]>> = CurItem
  <2>1. job.ballot \in Ballot
    BY CurVoteTypes
  <2>2. e \in Epoch
    BY <2>1, BallotFacts
  <2> QED BY <2>1, <2>2, CurVoteTypes, HashAssumption
       DEF TypeInv, TypeOK, CacheType, Weight, CurKey, KeyOf, CurItem, ItemOf, CurVote
<1>3. db'.table = TableAfter(db.table, cache, out) /\ db'.results = NewResults
  BY <1>1, <1>2 DEF StoreType
<1>4. /\ \A x \in Key : Tally(db', cache', x) = IF x = CurKey THEN NewTally ELSE Tally(db, cache, x)
      /\ CleanInv(db', cache')
  <2>1. CleanInv(db, cache)
    BY DEF StoreInv
  <2>2. cache' = CacheAfter(cache, CurKey, Tally(db, cache, CurKey), NewTally, out)
    BY <1>1 DEF OldTally
  <2>3. db \in StoreType /\ cache \in CacheType /\ CurKey \in Key /\ NewTally \in Weight
    BY <1>2
  <2> QED BY <1>3, <2>1, <2>2, <2>3, CacheView
<1>5. /\ CountedVotes(db', job') = CountedVotes(db, job) \cup {<<CurKey, v>>}
      /\ \A x \in Key : Voters(CountedVotes(db', job'), x)
           = Voters(CountedVotes(db, job), x) \cup (IF x = CurKey THEN {v} ELSE {})
  <2>1. CountedVotes(db', job') = CountedVotes(db, job) \cup {<<CurKey, v>>}
    BY CountedAfterCountVote
  <2>2. \A x \in Key : Voters(CountedVotes(db, job) \cup {<<CurKey, v>>}, x)
           = Voters(CountedVotes(db, job), x) \cup (IF x = CurKey THEN {v} ELSE {})
    BY <1>2, VotersGrow
  <2> QED BY <2>1, <2>2
<1>6. TallyInv(db', cache', job')
  <2> SUFFICES ASSUME NEW x \in Key
               PROVE  TallyIs(Tally(db', cache', x), x[3], Voters(CountedVotes(db', job'), x))
    BY DEF TallyInv
  <2> DEFINE V == Voters(CountedVotes(db, job), x)
  <2>1. TallyIs(Tally(db, cache, x), x[3], V)
    BY DEF StoreInv, TallyInv
  <2>2. CASE x = CurKey
    <3>1. V \in SUBSET Members[e]
      BY <1>2, <2>2, VotersEligible
    <3>2. TallyIs(OldTally, e, V)
      BY <2>1, <2>2, <1>2 DEF OldTally
    <3>3. Cardinality(Members[g]) \in Nat
      BY <1>2, GroupFacts
    <3>4. TallyIs(NewTally, e, V \cup {v})
      BY <3>1, <3>2, <3>3, <1>2, AddedCounts DEF NewTally, CurIdx, CurWeight
    <3> QED BY <1>2, <1>4, <1>5, <2>2, <3>4
  <2>3. CASE x # CurKey
    BY <1>4, <1>5, <2>1, <2>3
  <2> QED BY <2>2, <2>3
<1>7. RoomInv(db', cache')
  <2>1. OldTally.room \in {0, Capacity(Cardinality(Members[e]))}
    BY <1>2 DEF StoreInv, RoomInv, OldTally
  <2>2. Members[g] = Members[e]
    BY <1>2 DEF StableValidators
  <2>3. NewTally.room \in {0, Capacity(Cardinality(Members[e]))}
    BY <2>1, <2>2, <1>2 DEF NewTally, Added, Weight
  <2> QED BY <1>2, <1>4, <2>3 DEF StoreInv, RoomInv
<1>8. ResultInv(db', cache')
  <2>1. Quorum(e) \in Nat /\ Quorum(g) = Quorum(e)
    BY <1>2, QuorumStable
  <2>2. NewTally.weight >= OldTally.weight
    BY <1>2 DEF NewTally, Added, Weight
  <2>3. \A x \in Key : x # CurKey => (Full(db', cache', x) <=> Full(db, cache, x))
    BY <1>4 DEF Full
  <2>4. Full(db, cache, CurKey) => Full(db', cache', CurKey)
    BY <1>2, <1>4, <2>1, <2>2 DEF Full, OldTally, Weight
  <2>5. /\ Completes <=> Full(db', cache', CurKey) /\ db.results[CurItem] = NoHash
        /\ db'.results = IF Completes THEN [db.results EXCEPT ![CurItem] = CurVote] ELSE db.results
        /\ db.results \in [Item -> Hash \cup {NoHash}]
    BY <1>2, <1>3, <1>4, <2>1 DEF Completes, Wins, Full, NewResults, StoreType
  <2>6. ASSUME NEW x \in Key, Full(db', cache', x) PROVE db'.results[<<x[1], x[2]>>] # NoHash
    <3>1. <<x[1], x[2]>> \in Item
      BY KeyFacts
    <3>2. CASE x = CurKey
      BY <1>2, <2>5, <2>6, <3>2
    <3>3. CASE x # CurKey
      <4>1. db.results[<<x[1], x[2]>>] # NoHash
        BY <2>3, <2>6, <3>3 DEF StoreInv, ResultInv
      <4> QED BY <1>2, <2>5, <3>1, <4>1
    <3> QED BY <3>2, <3>3
  <2>7. ASSUME NEW i \in Item, db'.results[i] # NoHash
        PROVE  \E k \in Key : <<k[1], k[2]>> = i /\ k[4] = db'.results[i] /\ Full(db', cache', k)
    <3>1. CASE Completes /\ i = CurItem
      <4>1. db'.results[i] = CurVote
        BY <1>2, <2>5, <3>1
      <4> QED BY <1>2, <2>5, <3>1, <4>1
    <3>2. CASE ~(Completes /\ i = CurItem)
      <4>1. db'.results[i] = db.results[i]
        BY <1>2, <2>5, <3>2
      <4>2. PICK k \in Key : <<k[1], k[2]>> = i /\ k[4] = db.results[i] /\ Full(db, cache, k)
        BY <2>7, <4>1 DEF StoreInv, ResultInv
      <4>3. Full(db', cache', k)
        BY <2>3, <2>4, <4>2
      <4> QED BY <4>1, <4>2, <4>3
    <3> QED BY <3>1, <3>2
  <2> QED BY <2>6, <2>7 DEF ResultInv
<1> QED BY <1>4, <1>6, <1>7, <1>8 DEF StoreInv

\* FlushMutated moves weights from the cache to the table and changes none.
LEMMA FlushView ==
  ASSUME NEW d \in StoreType, NEW c \in CacheType, CleanInv(d, c),
         NEW d2, d2.table = FlushedTable(d.table, c)
  PROVE  /\ \A k \in Key : Tally(d2, FlushedCache(c), k) = Tally(d, c, k)
         /\ \A k \in Key : Tally(d2, EmptyCache, k) = Tally(d, c, k)
         /\ CleanInv(d2, FlushedCache(c))
         /\ CleanInv(d2, EmptyCache)
<1> SUFFICES ASSUME NEW k \in Key
             PROVE  /\ Tally(d2, FlushedCache(c), k) = Tally(d, c, k)
                    /\ Tally(d2, EmptyCache, k) = Tally(d, c, k)
                    /\ FlushedCache(c)[k].state = "clean" => FlushedCache(c)[k].val = d2.table[k]
                    /\ EmptyCache[k].state = "absent"
  BY DEF CleanInv
<1>1. c[k] \in [state : {"absent", "clean", "mutated"}, val : Weight]
  BY DEF CacheType
<1>2. c[k].state = "clean" => c[k].val = d.table[k]
  BY DEF CleanInv
<1>3. d2.table[k] = IF c[k].state = "mutated" THEN c[k].val ELSE d.table[k]
  BY DEF FlushedTable
<1>4. FlushedCache(c)[k] = IF c[k].state = "mutated" THEN [c[k] EXCEPT !.state = "clean"] ELSE c[k]
  BY DEF FlushedCache
<1>5. EmptyCache[k].state = "absent"
  BY DEF EmptyCache, NotCached
<1> QED BY <1>1, <1>2, <1>3, <1>4, <1>5 DEF Tally

\* A ballot that was just begun has no counted votes.
LEMMA CountedAtBegin ==
  ASSUME NEW d, NEW b \in Ballot
  PROVE  CountedVotes(d, [ballot |-> b, next |-> 1]) = CountedVotes(d, NoJob)
<1>1. VotesOf(b, 1 - 1) = {}
  BY DEF VotesOf
<1> QED BY <1>1 DEF CountedVotes

\* Storing a ballot counts what was counted while it was in progress.
LEMMA CountedAtStore ==
  ASSUME TypeInv, StoreBallot
  PROVE  CountedVotes(db', job') = CountedVotes(db, job)
<1>1. /\ job # NoJob /\ job' = NoJob /\ db'.stored = db.stored \cup {job.ballot}
      /\ job.ballot \in Ballot
  BY DEF StoreBallot, TypeInv, TypeOK, StoreType
<1>2. job.next - 1 = Len(job.ballot.votes)
  <2>1. job.next \in 1 .. Len(job.ballot.votes) + 1 /\ job.next > Len(job.ballot.votes)
    BY DEF StoreBallot, TypeInv, TypeOK
  <2>2. Len(job.ballot.votes) \in Nat
    BY <1>1, BallotFacts
  <2> QED BY <2>1, <2>2
<1> QED BY <1>1, <1>2 DEF CountedVotes

LEMMA InitIInv == Init => IInv
<1> SUFFICES ASSUME Init PROVE IInv
  OBVIOUS
<1>1. TypeInv
  BY InitType
<1>2. ASSUME NEW k \in Key PROVE Tally(EmptyStore, EmptyCache, k) = NoWeight
  BY DEF EmptyStore, EmptyCache, NotCached, Tally
<1>3. CleanInv(EmptyStore, EmptyCache)
  BY DEF CleanInv, EmptyCache, NotCached
<1>4. TallyInv(EmptyStore, EmptyCache, NoJob)
  <2>1. CountedVotes(EmptyStore, NoJob) = {}
    BY DEF CountedVotes, EmptyStore
  <2>2. \A k \in Key : Voters({}, k) = {}
    BY DEF Voters
  <2>3. \A e \in Epoch : WeightOf[e][{}] = 0
    BY ValidatorsAssumption DEF IsMeasure
  <2>4. ASSUME NEW k \in Key PROVE TallyIs(NoWeight, k[3], {})
    <3>1. k[3] \in Epoch
      BY KeyFacts
    <3>2. NoWeight.bits = {} /\ NoWeight.weight = 0
      BY DEF NoWeight
    <3> QED BY <2>3, <3>1, <3>2 DEF TallyIs
  <2> QED BY <1>2, <2>1, <2>2, <2>4 DEF TallyInv
<1>5. RoomInv(EmptyStore, EmptyCache)
  BY <1>2 DEF RoomInv, NoWeight
<1>6. ResultInv(EmptyStore, EmptyCache)
  <2>1. ASSUME NEW k \in Key PROVE ~Full(EmptyStore, EmptyCache, k)
    <3>1. k[3] \in Epoch
      BY KeyFacts
    <3>2. WeightOf[k[3]][Members[k[3]]] \in Nat
      BY <3>1, ValidatorsAssumption DEF IsMeasure
    <3>3. Quorum(k[3]) > 0 /\ Quorum(k[3]) \in Nat
      BY <3>2 DEF Quorum
    <3>4. Tally(EmptyStore, EmptyCache, k).weight = 0
      BY <1>2 DEF NoWeight
    <3> QED BY <3>3, <3>4 DEF Full
  <2>2. \A i \in Item : EmptyStore.results[i] = NoHash
    BY DEF EmptyStore
  <2> QED BY <2>1, <2>2 DEF ResultInv
<1> QED BY <1>1, <1>3, <1>4, <1>5, <1>6 DEF Init, IInv, StoreInv, MemoryInv

LEMMA NextIInv == ASSUME StableValidators, IInv, [Next]_vars PROVE IInv'
<1>1. TypeInv'
  BY NextType DEF IInv
<1>2. /\ db \in StoreType /\ disk \in StoreType /\ cache \in CacheType
      /\ StoreInv(db, cache, job) /\ CleanInv(db, cache)
      /\ StoreInv(disk, EmptyCache, NoJob) /\ MemoryInv
  BY DEF IInv, StoreInv, TypeInv, TypeOK, CacheType, Weight
<1>3. ASSUME NEW b \in Ballot, BeginBallot(b) PROVE IInv'
  <2>1. job = NoJob /\ job' = [ballot |-> b, next |-> 1] /\ UNCHANGED <<db, disk, cache>>
    BY <1>3 DEF BeginBallot
  <2>2. CountedVotes(db', job') = CountedVotes(db, job)
    BY <2>1, CountedAtBegin
  <2>3. StoreInv(db', cache', job')
    BY <1>2, <2>1, <2>2, StoreFollows
  <2> QED BY <1>1, <1>2, <2>1, <2>3 DEF IInv, MemoryInv
<1>4. CASE CountVote
  <2>1. StoreInv(db', cache', job')
    BY <1>2, <1>4, CountVoteStore DEF IInv
  <2>2. disk' = disk /\ db'.stored = db.stored /\ db'.results = NewResults
    BY <1>2, <1>4, CountVoteStep DEF IInv, StoreType
  <2>3. \A i \in Item : db.results[i] # NoHash => NewResults[i] = db.results[i]
    BY <1>2 DEF NewResults, Completes, Wins, StoreType
  <2> QED BY <1>1, <1>2, <2>1, <2>2, <2>3 DEF IInv, MemoryInv
<1>5. CASE StoreBallot
  <2>1. /\ db'.stored = db.stored \cup {job.ballot} /\ db'.results = db.results
        /\ db'.table = db.table /\ disk' = disk /\ cache' = cache
    BY <1>2, <1>5 DEF StoreBallot, StoreType
  <2>2. CountedVotes(db', job') = CountedVotes(db, job)
    BY <1>5, CountedAtStore DEF IInv
  <2>3. CleanInv(db', cache') /\ \A k \in Key : Tally(db', cache', k) = Tally(db, cache, k)
    BY <1>2, <2>1 DEF CleanInv, Tally
  <2>4. StoreInv(db', cache', job')
    BY <1>2, <2>1, <2>2, <2>3, StoreFollows
  <2> QED BY <1>1, <1>2, <2>1, <2>4 DEF IInv, MemoryInv
<1>6. ASSUME db'.stored = db.stored, db'.results = db.results, db'.table = db.table,
             UNCHANGED <<disk, cache, job>>
      PROVE  IInv'
  <2>1. CountedVotes(db', job') = CountedVotes(db, job)
    BY <1>6 DEF CountedVotes
  <2>2. CleanInv(db', cache') /\ \A k \in Key : Tally(db', cache', k) = Tally(db, cache, k)
    BY <1>2, <1>6 DEF CleanInv, Tally
  <2>3. StoreInv(db', cache', job')
    BY <1>2, <1>6, <2>1, <2>2, StoreFollows
  <2> QED BY <1>1, <1>2, <1>6, <2>3 DEF IInv, MemoryInv
<1>7. ASSUME NEW e \in Epoch, LearnEpoch(e) PROVE IInv'
  BY <1>2, <1>6, <1>7 DEF LearnEpoch, StoreType
<1>8. ASSUME NEW kind \in Kind, PassPreLlr(kind) PROVE IInv'
  <2>1. /\ db'.stored = db.stored /\ db'.results = db.results /\ db'.table = db.table
        /\ UNCHANGED <<disk, cache, job>>
    BY <1>2, <1>8 DEF PassPreLlr, StoreType
  <2> QED BY <1>6, <2>1
<1>9. CASE Commit
  <2>1. /\ db'.stored = db.stored /\ db'.results = db.results /\ job = NoJob /\ job' = NoJob
        /\ db'.table = FlushedTable(db.table, cache)
        /\ cache' = FlushedCache(cache) /\ disk' = db'
    BY <1>2, <1>9 DEF Commit, StoreType
  <2>2. CountedVotes(db', NoJob) = CountedVotes(db, job)
    BY <2>1 DEF CountedVotes
  <2>3. /\ \A k \in Key : Tally(db', cache', k) = Tally(db, cache, k)
        /\ \A k \in Key : Tally(db', EmptyCache, k) = Tally(db, cache, k)
        /\ CleanInv(db', cache')
        /\ CleanInv(db', EmptyCache)
    BY <1>2, <2>1, FlushView
  <2>4. StoreInv(db', cache', NoJob) /\ StoreInv(db', EmptyCache, NoJob)
    BY <1>2, <2>1, <2>2, <2>3, StoreFollows
  <2> QED BY <1>1, <2>1, <2>4 DEF IInv, MemoryInv
<1>10. CASE Crash
  BY <1>1, <1>2, <1>10 DEF Crash, IInv, MemoryInv
<1>11. CASE UNCHANGED vars
  BY <1>1, <1>6, <1>11 DEF vars
<1> QED BY <1>3, <1>4, <1>5, <1>7, <1>8, <1>9, <1>10, <1>11 DEF Next

LEMMA SpecIInv == ASSUME StableValidators PROVE Spec => []IInv
<1>1. IInv /\ [Next]_vars => IInv'
  BY NextIInv
<1> QED BY <1>1, InitIInv, PTL DEF Spec

\* With stable validators the weight behind a hash, in memory and on disk, is that of the
\* different validators whose ballots are stored: no eviction, commit or crash loses one.
THEOREM SpecTallyMatchesBallots ==
  ASSUME StableValidators PROVE Spec => []TallyMatchesBallots
<1>1. IInv => TallyMatchesBallots
  <2> SUFFICES ASSUME IInv, NEW k \in Key
               PROVE  /\ TallyIs(Tally(db, cache, k), k[3], Voters(CountedVotes(db, job), k))
                      /\ TallyIs(disk.table[k], k[3], Voters(CountedVotes(disk, NoJob), k))
    BY DEF TallyMatchesBallots
  <2>1. Tally(disk, EmptyCache, k) = disk.table[k]
    BY DEF Tally, EmptyCache, NotCached
  <2> QED BY <2>1 DEF IInv, StoreInv, TallyInv
<1> QED BY <1>1, SpecIInv, PTL

\* With stable validators a decided record has different validators behind it that hold
\* more than a third of the weight.
THEOREM SpecDecidedByThird ==
  ASSUME StableValidators PROVE Spec => []DecidedByThird
<1>1. IInv => DecidedByThird
  <2> SUFFICES ASSUME IInv, NEW i \in Item, db.results[i] # NoHash
               PROVE  \E e, f \in Epoch :
                        Third(f, Voters(CountedVotes(db, job), <<i[1], i[2], e, db.results[i]>>))
    BY DEF DecidedByThird
  <2>1. PICK k \in Key : <<k[1], k[2]>> = i /\ k[4] = db.results[i] /\ Full(db, cache, k)
    BY DEF IInv, StoreInv, ResultInv
  <2> DEFINE V == Voters(CountedVotes(db, job), k)
             e == k[3]
  <2>2. k = <<i[1], i[2], e, db.results[i]>> /\ e \in Epoch
    BY <2>1, KeyFacts
  <2>3. Tally(db, cache, k).weight = WeightOf[e][V]
    BY DEF IInv, StoreInv, TallyInv, TallyIs
  <2>4. V \in SUBSET Validator
    BY DEF Voters
  <2>5. WeightOf[e][V] \in Nat /\ WeightOf[e][Members[e]] \in Nat
    BY <2>2, <2>4, ValidatorsAssumption DEF IsMeasure
  <2>6. WeightOf[e][V] >= WeightOf[e][Members[e]] \div 3 + 1
    BY <2>1, <2>3 DEF Full, Quorum
  <2>7. Third(e, V)
    BY <2>5, <2>6 DEF Third
  <2> QED BY <2>2, <2>7
<1> QED BY <1>1, SpecIInv, PTL

\* With stable validators no vote is counted beyond the end of its bitmap.
THEOREM SpecBitmapInRange ==
  ASSUME StableValidators PROVE Spec => []BitmapInRange
<1>1. IInv => BitmapInRange
  <2> SUFFICES ASSUME IInv, job # NoJob, job.next <= Len(job.ballot.votes)
               PROVE  InRoom(Tally(db, cache, CurKey), CurIdx)
    BY DEF BitmapInRange, CurKey, CurIdx
  <2>1. /\ job.ballot \in Ballot /\ job.next \in 1 .. Len(job.ballot.votes) + 1
        /\ job.ballot.creator \in Members[job.ballot.group]
    BY DEF IInv, TypeInv, TypeOK, Eligible
  <2> DEFINE g == job.ballot.group
             e == job.ballot.epoch
  <2>2. /\ g \in Epoch /\ e \in Epoch /\ CurKey \in Key /\ CurKey[3] = e
    BY <2>1, BallotFacts DEF CurKey, KeyOf
  <2>3. /\ CurIdx \in Nat /\ CurIdx < Cardinality(Members[g]) /\ Cardinality(Members[g]) \in Nat
        /\ Members[g] = Members[e]
    BY <2>1, <2>2, GroupFacts DEF CurIdx, StableValidators
  <2>4. Tally(db, cache, CurKey).room \in {0, Capacity(Cardinality(Members[g]))}
    BY <2>2, <2>3 DEF IInv, StoreInv, RoomInv
  <2> QED BY <2>3, <2>4, CapacityFits DEF InRoom
<1> QED BY <1>1, SpecIInv, PTL

\* Results only ever grow but by a crash, so that memory has every result that the disk has.
LEMMA NextMemory == ASSUME TypeInv, MemoryInv, [Next]_vars PROVE MemoryInv'
<1> USE DEF MemoryInv
<1>1. db \in StoreType /\ disk \in StoreType
  BY DEF TypeInv, TypeOK
<1>2. ASSUME disk' = disk, db'.stored = db.stored, db'.results = db.results PROVE MemoryInv'
  BY <1>2
<1>3. ASSUME NEW b \in Ballot, BeginBallot(b) PROVE MemoryInv'
  BY <1>2, <1>3 DEF BeginBallot
<1>4. CASE CountVote
  <2>1. disk' = disk /\ db'.stored = db.stored /\ db'.results = NewResults
    BY <1>1, <1>4, CountVoteStep DEF StoreType
  <2>2. \A i \in Item : db.results[i] # NoHash => NewResults[i] = db.results[i]
    BY <1>1 DEF NewResults, Completes, Wins, StoreType
  <2> QED BY <2>1, <2>2
<1>5. CASE StoreBallot
  BY <1>1, <1>5 DEF StoreBallot, StoreType
<1>6. ASSUME NEW e \in Epoch, LearnEpoch(e) PROVE MemoryInv'
  BY <1>1, <1>2, <1>6 DEF LearnEpoch, StoreType
<1>7. ASSUME NEW kind \in Kind, PassPreLlr(kind) PROVE MemoryInv'
  <2>1. disk' = disk /\ db'.stored = db.stored /\ db'.results = db.results
    BY <1>1, <1>7 DEF PassPreLlr, StoreType
  <2> QED BY <1>2, <2>1
<1>8. CASE Commit
  BY <1>8 DEF Commit
<1>9. CASE Crash
  BY <1>9 DEF Crash
<1>10. CASE UNCHANGED vars
  BY <1>2, <1>10 DEF vars
<1> QED BY <1>3, <1>4, <1>5, <1>6, <1>7, <1>8, <1>9, <1>10 DEF Next

\* A flushed result is never revised, whatever is voted, whenever the node restarts and
\* however validators change from one epoch to the next.
THEOREM SpecFlushedResultsFinal == Spec => FlushedResultsFinal
<1>1. Init => MemoryInv
  BY DEF Init, MemoryInv
<1>2. Spec => [](TypeInv /\ MemoryInv)
  BY <1>1, InitType, NextType, NextMemory, PTL DEF Spec
<1>3. ASSUME TypeInv, MemoryInv, MemoryInv', [Next]_vars
      PROVE  \A i \in Item : disk.results[i] # NoHash =>
               db'.results[i] = disk.results[i] /\ disk'.results[i] = disk.results[i]
  <2>1. CASE Commit
    <3>1. disk' = db' /\ db'.results = db.results
      BY <2>1, <1>3 DEF Commit, TypeInv, TypeOK, StoreType
    <3> QED BY <3>1, <1>3 DEF MemoryInv
  <2>2. CASE disk' = disk
    BY <2>2, <1>3 DEF MemoryInv
  <2>3. Commit \/ disk' = disk
    BY <1>3 DEF Next, vars, BeginBallot, CountVote, StoreBallot, LearnEpoch, PassPreLlr, Crash
  <2> QED BY <2>1, <2>2, <2>3
<1> QED BY <1>2, <1>3, PTL DEF Spec, FlushedResultsFinal

----------------------------------------------------------------------------
(* The indexes beside the tables *)

\* LowestIsLowest and LastIsHighestStored, of a store
LowestIs(kind, low, results, head) ==
  /\ low \in Index
  /\ \A n \in Index : 1 <= n /\ n < low => results[<<kind, n>>] # NoHash \/ n <= head
  /\ \/ results[<<kind, low>>] = NoHash
     \/ low = head + 1 /\ head > 0

LowestOf(d) == \A kind \in Kind : LowestIs(kind, d.lowest[kind], d.results, d.head[kind])

LastOfCreator(d, kind, v) ==
  /\ \A b \in d.stored : b.kind = kind /\ b.creator = v => LastOf(b) <= d.last[kind][v]
  /\ d.last[kind][v] # 0 =>
       \E b \in d.stored : b.kind = kind /\ b.creator = v /\ LastOf(b) = d.last[kind][v]

LastsOf(d) == \A kind \in Kind, v \in Validator : LastOfCreator(d, kind, v)

IndexInv == LowestOf(db) /\ LastsOf(db) /\ LowestOf(disk) /\ LastsOf(disk)

\* actualizeLowestIndex: when the lowest undecided item is decided, the next one that is not takes
\* its place; a decision elsewhere leaves it alone.
LEMMA CountVoteLowest ==
  ASSUME TypeInv, CountVote, LowestOf(db)
  PROVE  LowestOf(db')
<1>1. PICK low \in NewLowest :
        /\ db'.results = NewResults
        /\ db'.lowest = [db.lowest EXCEPT ![job.ballot.kind] = low]
        /\ db'.head = db.head
  <2>1. db \in StoreType
    BY DEF TypeInv, TypeOK
  <2> QED BY <2>1, CountVoteStep DEF StoreType
<1>2. /\ db.lowest \in [Kind -> Nat] /\ db.head \in [Kind -> Nat]
      /\ db.results \in [Item -> Hash \cup {NoHash}] /\ Index \subseteq Nat
  BY NumbersAssumption DEF TypeInv, TypeOK, StoreType
<1> DEFINE k == job.ballot.kind
           m == job.ballot.start + job.next - 1
<1>3. k \in Kind /\ CurItem = <<k, m>> /\ CurItem \in Item /\ CurVote \in Hash /\ m \in Index
  <2>1. job.ballot \in Ballot /\ job.next \in 1 .. Len(job.ballot.votes)
    BY CurVoteTypes
  <2> QED BY <2>1, CurVoteTypes, BallotFacts DEF CurItem, ItemOf
<1>4. CurVote # NoHash
  BY <1>3, HashAssumption
<1>5. \A i \in Item : /\ NewResults[i] # NoHash \/ db.results[i] = NoHash
                      /\ i # CurItem => NewResults[i] = db.results[i]
  BY <1>2, <1>3, <1>4 DEF NewResults
<1>6. \A kind \in Kind, n \in Index : <<kind, n>> \in Item
  BY DEF Item
<1>7. ASSUME NEW kind \in Kind
      PROVE  LowestIs(kind, db.lowest[kind], db.results, db.head[kind])
  BY DEF LowestOf
<1>8. ASSUME NEW kind \in Kind, kind # k
      PROVE  LowestIs(kind, db'.lowest[kind], db'.results, db'.head[kind])
  <2>1. db'.lowest[kind] = db.lowest[kind] /\ db'.head[kind] = db.head[kind]
    BY <1>1, <1>2, <1>8
  <2>2. \A n \in Index : db'.results[<<kind, n>>] = db.results[<<kind, n>>]
    <3>1. \A n \in Index : <<kind, n>> # CurItem
      BY <1>3, <1>8
    <3> QED BY <1>1, <1>5, <1>6, <3>1
  <2> QED BY <1>7, <2>1, <2>2 DEF LowestIs
<1>9. LowestIs(k, db'.lowest[k], db'.results, db'.head[k])
  <2> DEFINE old == db.lowest[k]
             h == db.head[k]
  <2>1. db'.lowest[k] = low /\ db'.head[k] = h /\ old \in Nat /\ h \in Nat
    BY <1>1, <1>2, <1>3
  <2>2. LowestIs(k, old, db.results, h)
    BY <1>3, <1>7
  <2>3. CASE ~Completes
    <3>1. low = old /\ NewResults = db.results
      BY <2>3 DEF NewLowest, NewResults
    <3> QED BY <1>1, <2>1, <2>2, <3>1
  <2>4. CASE Completes
    <3>1. low \in Actualized(old, m, NewResults, k)
      BY <2>4 DEF NewLowest
    <3>2. db.results[<<k, m>>] = NoHash /\ NewResults[<<k, m>>] # NoHash
      BY <1>2, <1>3, <1>4, <2>4 DEF Completes, Wins, NewResults
    <3> HIDE DEF old, h, k, m
    <3>3. CASE old # m
      <4>1. low = old
        BY <3>1, <3>3 DEF Actualized
      <4>2. old \in Index /\ NewResults[<<k, old>>] = db.results[<<k, old>>]
        <5>1. <<k, old>> # CurItem /\ old \in Index
          BY <1>3, <2>2, <3>3 DEF LowestIs
        <5> QED BY <1>3, <1>5, <1>6, <5>1
      <4>3. \A n \in Index : db.results[<<k, n>>] # NoHash => NewResults[<<k, n>>] # NoHash
        BY <1>3, <1>5, <1>6
      <4>4. LowestIs(k, old, NewResults, h)
        BY <2>2, <4>2, <4>3 DEF LowestIs
      <4> QED BY <1>1, <2>1, <4>1, <4>4
    <3>4. CASE old = m
      <4>1. /\ low \in Index /\ old < low /\ NewResults[<<k, low>>] = NoHash
            /\ \A n \in Index : old < n /\ n < low => NewResults[<<k, n>>] # NoHash
        BY <3>1, <3>4 DEF Actualized
      <4>2. ASSUME NEW n \in Index, 1 <= n, n < low
            PROVE  NewResults[<<k, n>>] # NoHash \/ n <= h
        <5>1. n \in Nat /\ old \in Nat
          BY <1>2, <2>1
        <5>2. CASE n < old
          <6>1. db.results[<<k, n>>] # NoHash \/ n <= h
            BY <2>2, <4>2, <5>2 DEF LowestIs
          <6> QED BY <1>3, <1>5, <1>6, <6>1
        <5>3. CASE n = old
          BY <3>2, <3>4, <5>3
        <5>4. CASE old < n
          BY <4>1, <4>2, <5>4
        <5> QED BY <5>1, <5>2, <5>3, <5>4
      <4>3. LowestIs(k, low, NewResults, h)
        BY <4>1, <4>2 DEF LowestIs
      <4> QED BY <1>1, <2>1, <4>3
    <3> QED BY <3>3, <3>4
  <2> QED BY <2>3, <2>4
<1> QED BY <1>8, <1>9 DEF LowestOf

\* The ballot that is stored is the last of its creator if it goes further than all before.
LEMMA StoreBallotLasts ==
  ASSUME TypeInv, StoreBallot, LastsOf(db)
  PROVE  LastsOf(db')
<1> DEFINE b == job.ballot
<1>1. /\ b.kind \in Kind /\ b.creator \in Validator /\ LastOf(b) \in Nat
  BY BallotFacts DEF StoreBallot, TypeInv, TypeOK
<1>2. db.last \in [Kind -> [Validator -> Nat]]
  BY DEF TypeInv, TypeOK, StoreType
<1>3. /\ db'.stored = db.stored \cup {b}
      /\ db'.last = [db.last EXCEPT ![b.kind][b.creator] = Later(LastOf(b), @)]
  BY DEF StoreBallot, TypeInv, TypeOK, StoreType
<1>4. ASSUME NEW kind \in Kind, NEW v \in Validator
      PROVE  LastOfCreator(db', kind, v)
  <2>1. LastOfCreator(db, kind, v) /\ db.last[kind][v] \in Nat
    BY <1>2 DEF LastsOf
  <2>2. CASE kind = b.kind /\ v = b.creator
    <3>1. db'.last[kind][v] = Later(LastOf(b), db.last[kind][v])
      BY <1>1, <1>2, <1>3, <2>2
    <3>2. \A c \in db.stored : LastOf(c) <= db.last[kind][v] => c \in Ballot /\ LastOf(c) \in Nat
      BY BallotFacts DEF TypeInv, TypeOK, StoreType
    <3>3. CASE LastOf(b) > db.last[kind][v]
      <4>1. db'.last[kind][v] = LastOf(b)
        BY <3>1, <3>3 DEF Later
      <4>2. ASSUME NEW c \in db'.stored, c.kind = kind, c.creator = v
            PROVE  LastOf(c) <= LastOf(b)
        <5>1. CASE c = b
          BY <1>1, <5>1
        <5>2. CASE c \in db.stored
          <6>1. LastOf(c) <= db.last[kind][v]
            BY <2>1, <4>2, <5>2 DEF LastOfCreator
          <6> QED BY <1>1, <2>1, <3>2, <3>3, <5>2, <6>1
        <5> QED BY <1>3, <5>1, <5>2
      <4> QED BY <1>3, <2>2, <4>1, <4>2 DEF LastOfCreator
    <3>4. CASE ~(LastOf(b) > db.last[kind][v])
      <4>1. db'.last[kind][v] = db.last[kind][v] /\ LastOf(b) <= db.last[kind][v]
        BY <1>1, <2>1, <3>1, <3>4 DEF Later
      <4> QED BY <1>3, <2>1, <4>1 DEF LastOfCreator
    <3> QED BY <3>3, <3>4
  <2>3. CASE ~(kind = b.kind /\ v = b.creator)
    <3>1. db'.last[kind][v] = db.last[kind][v]
      BY <1>1, <1>2, <1>3, <2>3
    <3> QED BY <1>3, <2>1, <2>3, <3>1 DEF LastOfCreator
  <2> QED BY <2>2, <2>3
<1> QED BY <1>4 DEF LastsOf

LEMMA InitIndexInv == Init => IndexInv
<1> SUFFICES ASSUME Init PROVE IndexInv
  OBVIOUS
<1>1. db = EmptyStore /\ disk = EmptyStore
  BY DEF Init
<1>2. 1 \in Index /\ Index \subseteq Nat
  <2>1. PreLlrTop["block"] + 1 \in Index /\ PreLlrTop["block"] \in Nat
    BY NumbersAssumption DEF Kind
  <2>2. 1 \in 0 .. PreLlrTop["block"] + 1
    BY <2>1
  <2> QED BY <2>1, <2>2, NumbersAssumption
<1>3. LowestOf(EmptyStore)
  BY <1>2 DEF LowestOf, LowestIs, EmptyStore, Item
<1>4. LastsOf(EmptyStore)
  BY DEF LastsOf, LastOfCreator, EmptyStore
<1> QED BY <1>1, <1>3, <1>4 DEF IndexInv

LEMMA NextIndexInv == ASSUME TypeInv, IndexInv, [Next]_vars PROVE IndexInv'
<1>1. db \in StoreType /\ disk \in StoreType /\ LowestOf(db) /\ LastsOf(db)
  BY DEF TypeInv, TypeOK, IndexInv
<1>2. ASSUME disk' = disk, db'.lowest = db.lowest, db'.results = db.results, db'.head = db.head,
             db'.stored = db.stored, db'.last = db.last
      PROVE  IndexInv'
  BY <1>2 DEF IndexInv, LowestOf, LastsOf, LastOfCreator
<1>3. ASSUME NEW b \in Ballot, BeginBallot(b) PROVE IndexInv'
  BY <1>2, <1>3 DEF BeginBallot
<1>4. CASE CountVote
  <2>1. disk' = disk /\ db'.stored = db.stored /\ db'.last = db.last
    BY <1>1, <1>4, CountVoteStep DEF StoreType
  <2>2. LowestOf(db')
    BY <1>1, <1>4, CountVoteLowest
  <2>3. LastsOf(db')
    BY <1>1, <2>1 DEF LastsOf, LastOfCreator
  <2> QED BY <2>1, <2>2, <2>3 DEF IndexInv
<1>5. CASE StoreBallot
  <2>1. disk' = disk /\ db'.lowest = db.lowest /\ db'.results = db.results /\ db'.head = db.head
    BY <1>1, <1>5 DEF StoreBallot, StoreType
  <2>2. LastsOf(db')
    BY <1>1, <1>5, StoreBallotLasts
  <2>3. LowestOf(db')
    BY <1>1, <2>1 DEF LowestOf
  <2> QED BY <2>1, <2>2, <2>3 DEF IndexInv
<1>6. ASSUME NEW e \in Epoch, LearnEpoch(e) PROVE IndexInv'
  BY <1>1, <1>2, <1>6 DEF LearnEpoch, StoreType
<1>7. ASSUME NEW kind \in Kind, PassPreLlr(kind) PROVE IndexInv'
  <2> DEFINE n == db.head[kind] + 1
             low == IF db.lowest[kind] = n THEN n + 1 ELSE db.lowest[kind]
  <2>1. /\ disk' = disk /\ db'.results = db.results /\ db'.stored = db.stored
        /\ db'.last = db.last
        /\ db'.head = [db.head EXCEPT ![kind] = n]
        /\ db'.lowest = [db.lowest EXCEPT ![kind] = low]
    BY <1>1, <1>7 DEF PassPreLlr, StoreType
  <2>2. db.head[kind] \in Nat /\ db.lowest[kind] \in Nat /\ Index \subseteq Nat
    BY <1>1, NumbersAssumption DEF StoreType
  <2>3. n + 1 \in Index
    <3>1. db.head[kind] < PreLlrTop[kind] /\ PreLlrTop[kind] \in Nat /\ PreLlrTop[kind] + 1 \in Index
      BY <1>7, NumbersAssumption DEF PassPreLlr
    <3>2. n + 1 \in 0 .. PreLlrTop[kind] + 1
      BY <2>2, <3>1
    <3> QED BY <3>1, <3>2, NumbersAssumption
  <2>4. LowestIs(kind, db.lowest[kind], db.results, db.head[kind])
    BY <1>1 DEF LowestOf
  <2>5. LowestIs(kind, low, db.results, n)
    <3>1. CASE db.lowest[kind] = n
      <4>1. \A i \in Index : 1 <= i /\ i < n + 1 => i <= n
        BY <2>2
      <4> QED BY <2>2, <2>3, <3>1, <4>1 DEF LowestIs
    <3>2. CASE db.lowest[kind] # n
      <4>1. \A i \in Index : i <= db.head[kind] => i <= n
        BY <2>2
      <4> QED BY <2>4, <3>2, <4>1 DEF LowestIs
    <3> QED BY <3>1, <3>2
  <2> HIDE DEF n, low
  <2>6. LowestOf(db')
    <3>1. ASSUME NEW k \in Kind
          PROVE  LowestIs(k, db'.lowest[k], db'.results, db'.head[k])
      <4>1. CASE k = kind
        <5>1. db'.lowest[k] = low /\ db'.head[k] = n
          BY <1>1, <2>1, <4>1 DEF StoreType
        <5> QED BY <2>1, <2>5, <4>1, <5>1
      <4>2. CASE k # kind
        <5>1. db'.lowest[k] = db.lowest[k] /\ db'.head[k] = db.head[k]
          BY <1>1, <2>1, <4>2 DEF StoreType
        <5> QED BY <1>1, <2>1, <5>1 DEF LowestOf
      <4> QED BY <4>1, <4>2
    <3> QED BY <3>1 DEF LowestOf
  <2>7. LastsOf(db')
    BY <1>1, <2>1 DEF LastsOf, LastOfCreator
  <2> QED BY <2>1, <2>6, <2>7 DEF IndexInv
<1>8. CASE Commit
  <2>1. /\ db'.lowest = db.lowest /\ db'.results = db.results /\ db'.head = db.head
        /\ db'.stored = db.stored /\ db'.last = db.last /\ disk' = db'
    BY <1>1, <1>8 DEF Commit, StoreType
  <2>2. LowestOf(db') /\ LastsOf(db')
    BY <1>1, <2>1 DEF LowestOf, LastsOf, LastOfCreator
  <2> QED BY <2>1, <2>2 DEF IndexInv
<1>9. CASE Crash
  BY <1>9 DEF Crash, IndexInv
<1>10. CASE UNCHANGED vars
  BY <1>2, <1>10 DEF vars
<1> QED BY <1>3, <1>4, <1>5, <1>6, <1>7, <1>8, <1>9, <1>10 DEF Next

\* In whatever order ballots arrive and items are decided, the lowest undecided index has only
\* decided or pre-LLR items below it, and each validator's last vote is the highest that is stored.
THEOREM SpecIndexesMatchStore == Spec => []IndexesMatchStore
<1>1. Spec => [](TypeInv /\ IndexInv)
  BY InitType, NextType, InitIndexInv, NextIndexInv, PTL DEF Spec
<1>2. IndexInv => LowestIsLowest
  BY DEF IndexInv, LowestOf, LowestIs, LowestIsLowest
<1>3. IndexInv => LastIsHighestStored
  BY DEF IndexInv, LastsOf, LastOfCreator, LastIsHighestStored
<1> QED BY <1>1, <1>2, <1>3, PTL DEF IndexesMatchStore

----------------------------------------------------------------------------
(* The refinement of LlrDecision *)

\* Counted votes are for keys, by validators.
LEMMA CountedShape ==
  ASSUME NEW d \in StoreType, NEW j, j = NoJob \/ j.ballot \in Ballot,
         j # NoJob => j.next \in 1 .. Len(j.ballot.votes) + 1
  PROVE  CountedVotes(d, j) \subseteq Key \X Validator
<1>1. ASSUME NEW b \in Ballot, NEW n \in Int, n <= Len(b.votes)
      PROVE  VotesOf(b, n) \subseteq Key \X Validator
  <2>1. \A i \in 1 .. n : i \in 1 .. Len(b.votes)
    BY <1>1, BallotFacts
  <2> QED BY <2>1, BallotFacts DEF VotesOf
<1>2. \A b \in d.stored : VotesOf(b, Len(b.votes)) \subseteq Key \X Validator
  <2>1. \A b \in d.stored : b \in Ballot /\ Len(b.votes) \in Int /\ Len(b.votes) <= Len(b.votes)
    BY BallotFacts DEF StoreType
  <2> QED BY <1>1, <2>1
<1>3. j # NoJob => VotesOf(j.ballot, j.next - 1) \subseteq Key \X Validator
  <2> SUFFICES ASSUME j # NoJob PROVE VotesOf(j.ballot, j.next - 1) \subseteq Key \X Validator
    OBVIOUS
  <2>1. j.ballot \in Ballot /\ Len(j.ballot.votes) \in Nat
    BY BallotFacts
  <2>2. j.next - 1 \in Int /\ j.next - 1 <= Len(j.ballot.votes)
    BY <2>1
  <2> QED BY <1>1, <2>1, <2>2
<1> QED BY <1>2, <1>3 DEF CountedVotes

\* Backers of a side of an item are the voters of the key that it is.
LEMMA BackersAreVoters ==
  ASSUME NEW vs \in SUBSET (Key \X Validator), NEW i \in Item, NEW s \in Epoch \X Hash
  PROVE  Decision!Backers(AsTriples(vs), i, s) = Voters(vs, <<i[1], i[2], s[1], s[2]>>)
<1> DEFINE k == <<i[1], i[2], s[1], s[2]>>
<1>1. i = <<i[1], i[2]>> /\ s = <<s[1], s[2]>>
  BY DEF Item
<1>2. ASSUME NEW v \in Validator
      PROVE  <<i, s, v>> \in AsTriples(vs) <=> <<k, v>> \in vs
  <2>1. ASSUME <<k, v>> \in vs PROVE <<i, s, v>> \in AsTriples(vs)
    BY <1>1, <2>1 DEF AsTriples
  <2>2. ASSUME <<i, s, v>> \in AsTriples(vs) PROVE <<k, v>> \in vs
    <3>1. PICK w \in vs : /\ i = <<w[1][1], w[1][2]>> /\ s = <<w[1][3], w[1][4]>>
                          /\ v = w[2]
      BY <2>2 DEF AsTriples
    <3>2. w[1] \in Key /\ w = <<w[1], w[2]>>
      OBVIOUS
    <3>3. w[1] = <<w[1][1], w[1][2], w[1][3], w[1][4]>>
      BY <3>2, KeyFacts
    <3>4. w[1] = k
      BY <3>1, <3>3
    <3> QED BY <3>1, <3>2, <3>4
  <2> QED BY <2>1, <2>2
<1> QED BY <1>2 DEF Decision!Backers, Voters

\* The hashes that are backed are those whose tally is full.
LEMMA BackedAreFull ==
  ASSUME NEW d \in StoreType, NEW c, NEW j, StoreInv(d, c, j),
         CountedVotes(d, j) \subseteq Key \X Validator, NEW i \in Item
  PROVE  Decision!Backed(AsTriples(CountedVotes(d, j)), i)
           = {k[4] : k \in {x \in Key : <<x[1], x[2]>> = i /\ Full(d, c, x)}}
<1> DEFINE vs == CountedVotes(d, j)
           B == Decision!Backed(AsTriples(vs), i)
           F == {k[4] : k \in {x \in Key : <<x[1], x[2]>> = i /\ Full(d, c, x)}}
<1>1. ASSUME NEW k \in Key
      PROVE  /\ Full(d, c, k) <=> Third(k[3], Voters(vs, k))
             /\ Full(d, c, k) => Voters(vs, k) # {}
  <2>1. k[3] \in Epoch /\ Voters(vs, k) \in SUBSET Validator
    BY KeyFacts DEF Voters
  <2>2. /\ WeightOf[k[3]][Voters(vs, k)] \in Nat /\ WeightOf[k[3]][Members[k[3]]] \in Nat
        /\ WeightOf[k[3]][{}] = 0
    BY <2>1, ValidatorsAssumption DEF IsMeasure
  <2>3. Tally(d, c, k).weight = WeightOf[k[3]][Voters(vs, k)]
    BY DEF StoreInv, TallyInv, TallyIs
  <2> DEFINE w == WeightOf[k[3]][Voters(vs, k)]
             all == WeightOf[k[3]][Members[k[3]]]
  <2>4. Full(d, c, k) <=> w >= all \div 3 + 1
    BY <2>3 DEF Full, Quorum
  <2>5. Third(k[3], Voters(vs, k)) <=> 3 * w > all
    BY DEF Third
  <2>6. w = 0 \/ Voters(vs, k) # {}
    BY <2>2
  <2>7. w \in Nat /\ all \in Nat
    BY <2>2
  <2> HIDE DEF w, all
  <2>8. (w >= all \div 3 + 1 <=> 3 * w > all) /\ (w >= all \div 3 + 1 => w # 0)
    BY <2>7
  <2> QED BY <2>4, <2>5, <2>6, <2>8
<1>2. \A s : s \in Decision!Sides(AsTriples(vs), i) <=> \E w \in AsTriples(vs) : w[1] = i /\ w[2] = s
  BY DEF Decision!Sides
<1>3. B = {s[2] : s \in {t \in Decision!Sides(AsTriples(vs), i) :
                           Third(t[1], Decision!Backers(AsTriples(vs), i, t))}}
  BY DEF Decision!Backed
<1>4. ASSUME NEW h \in B PROVE h \in F
  <2>1. PICK s \in Decision!Sides(AsTriples(vs), i) :
          h = s[2] /\ Third(s[1], Decision!Backers(AsTriples(vs), i, s))
    BY <1>3
  <2>2. PICK w \in AsTriples(vs) : w[1] = i /\ w[2] = s
    BY <1>2
  <2>3. PICK u \in vs : w = <<<<u[1][1], u[1][2]>>, <<u[1][3], u[1][4]>>, u[2]>>
    BY DEF AsTriples
  <2> DEFINE k == u[1]
  <2>4. k \in Key /\ i = <<k[1], k[2]>> /\ s = <<k[3], k[4]>>
    BY <2>2, <2>3
  <2>5. k[3] \in Epoch /\ k[4] \in Hash /\ k = <<k[1], k[2], k[3], k[4]>>
    BY <2>4, KeyFacts
  <2> HIDE DEF k
  <2>6. Decision!Backers(AsTriples(vs), i, s) = Voters(vs, k)
    <3>1. s \in Epoch \X Hash /\ <<i[1], i[2], s[1], s[2]>> = k
      BY <2>4, <2>5
    <3> HIDE DEF vs
    <3>2. vs \in SUBSET (Key \X Validator)
      BY DEF vs
    <3> QED BY <3>1, <3>2, BackersAreVoters
  <2>7. Full(d, c, k)
    BY <1>1, <2>1, <2>4, <2>6
  <2> QED BY <2>1, <2>4, <2>7
<1>5. ASSUME NEW h \in F PROVE h \in B
  <2>1. PICK k \in Key : h = k[4] /\ <<k[1], k[2]>> = i /\ Full(d, c, k)
    OBVIOUS
  <2>2. PICK v : v \in Voters(vs, k)
    BY <1>1, <2>1
  <2> DEFINE s == <<k[3], k[4]>>
  <2>3. k[3] \in Epoch /\ k[4] \in Hash /\ k = <<k[1], k[2], k[3], k[4]>>
    BY KeyFacts
  <2>4. <<i, s, v>> \in AsTriples(vs)
    BY <2>1, <2>2 DEF AsTriples, Voters
  <2>5. s \in Decision!Sides(AsTriples(vs), i)
    BY <1>2, <2>4
  <2>6. Decision!Backers(AsTriples(vs), i, s) = Voters(vs, k)
    <3>1. s \in Epoch \X Hash /\ <<i[1], i[2], s[1], s[2]>> = k
      BY <2>1, <2>3
    <3> HIDE DEF vs, s
    <3>2. vs \in SUBSET (Key \X Validator)
      BY DEF vs
    <3> QED BY <3>1, <3>2, BackersAreVoters
  <2>7. Third(s[1], Decision!Backers(AsTriples(vs), i, s))
    BY <1>1, <2>1, <2>6
  <2> QED BY <1>3, <2>1, <2>5, <2>7
<1> HIDE DEF B, F
<1>6. B = F
  BY <1>4, <1>5
<1> QED BY <1>6 DEF B, F

\* So each item is decided if it can be, and then for a backed hash.
LEMMA DecidedIfBacked ==
  ASSUME NEW d \in StoreType, NEW c, NEW j, StoreInv(d, c, j),
         CountedVotes(d, j) \subseteq Key \X Validator, NEW i \in Item
  PROVE  LET backed == Decision!Backed(AsTriples(CountedVotes(d, j)), i)
         IN d.results[i] \in IF backed = {} THEN {NoHash} ELSE backed
<1> DEFINE F == {k[4] : k \in {x \in Key : <<x[1], x[2]>> = i /\ Full(d, c, x)}}
<1>1. Decision!Backed(AsTriples(CountedVotes(d, j)), i) = F
  BY BackedAreFull
<1>2. CASE d.results[i] # NoHash
  <2>1. PICK k \in Key : <<k[1], k[2]>> = i /\ k[4] = d.results[i] /\ Full(d, c, k)
    BY <1>2 DEF StoreInv, ResultInv
  <2>2. d.results[i] \in F
    BY <2>1
  <2> HIDE DEF F
  <2> QED BY <1>1, <2>2
<1>3. CASE d.results[i] = NoHash
  <2>1. \A k \in Key : <<k[1], k[2]>> = i => ~Full(d, c, k)
    BY <1>3 DEF StoreInv, ResultInv
  <2>2. F = {}
    BY <2>1
  <2> HIDE DEF F
  <2> QED BY <1>1, <1>3, <2>2
<1> QED BY <1>2, <1>3

\* CountVote is a Count of LlrDecision: one more vote, and what it completes is decided.
LEMMA CountVoteCounts ==
  ASSUME StableValidators, IInv, IInv', CountVote
  PROVE  Decision!Count
<1> DEFINE now == AsTriples(CountedVotes(db', job'))
<1>1. /\ db \in StoreType /\ db' \in StoreType /\ disk' = disk
      /\ StoreInv(db', cache', job') /\ db'.results = NewResults
  <2>1. db \in StoreType /\ db' \in StoreType /\ StoreInv(db', cache', job')
    BY DEF IInv, TypeInv, TypeOK
  <2>2. disk' = disk /\ db'.results = NewResults
    BY <2>1, CountVoteStep DEF IInv, StoreType
  <2> QED BY <2>1, <2>2
<1>2. CountedVotes(db', job') \subseteq Key \X Validator
  <2>1. /\ job' = NoJob \/ job'.ballot \in Ballot
        /\ job' # NoJob => job'.next \in 1 .. Len(job'.ballot.votes) + 1
    BY DEF IInv, TypeInv, TypeOK
  <2> QED BY <1>1, <2>1, CountedShape
<1>3. AsTriples(CountedVotes(db, job)) \subseteq now
  <2>1. CountedVotes(db, job) \subseteq CountedVotes(db', job')
    BY CountedAfterCountVote DEF IInv
  <2> QED BY <2>1 DEF AsTriples
<1>4. now \subseteq Item \X (Epoch \X Hash) \X Validator
  <2>1. \A w \in Key \X Validator :
          <<<<w[1][1], w[1][2]>>, <<w[1][3], w[1][4]>>, w[2]>> \in Item \X (Epoch \X Hash) \X Validator
    BY KeyFacts
  <2> QED BY <1>2, <2>1 DEF AsTriples
<1>5. db'.results \in [Item -> Hash \cup {NoHash}]
  BY <1>1 DEF StoreType
<1>6. ASSUME NEW i \in Item
      PROVE  IF db.results[i] # NoHash
               THEN db'.results[i] = db.results[i]
               ELSE LET backed == Decision!Backed(now, i)
                    IN db'.results[i] \in IF backed = {} THEN {NoHash} ELSE backed
  <2>1. db.results[i] # NoHash => db'.results[i] = db.results[i]
    BY <1>1 DEF NewResults, Completes, Wins, StoreType
  <2>2. LET backed == Decision!Backed(now, i)
        IN db'.results[i] \in IF backed = {} THEN {NoHash} ELSE backed
    BY <1>1, <1>2, DecidedIfBacked
  <2> QED BY <2>1, <2>2
<1> QED BY <1>1, <1>3, <1>4, <1>5, <1>6 DEF Decision!Count

\* Every step is one of LlrDecision, or changes nothing that it sees.
LEMMA NextRefines ==
  ASSUME StableValidators, IInv, IInv', [Next]_vars
  PROVE  [Decision!Next]_(Decision!vars)
<1>1. db \in StoreType /\ disk \in StoreType
  BY DEF IInv, TypeInv, TypeOK
<1>2. ASSUME CountedVotes(db', job') = CountedVotes(db, job), db'.results = db.results, disk' = disk
      PROVE  UNCHANGED Decision!vars
  BY <1>2 DEF Decision!vars
<1>3. ASSUME NEW b \in Ballot, BeginBallot(b) PROVE UNCHANGED Decision!vars
  <2>1. job = NoJob /\ job' = [ballot |-> b, next |-> 1] /\ UNCHANGED <<db, disk, cache>>
    BY <1>3 DEF BeginBallot
  <2> QED BY <1>2, <2>1, CountedAtBegin
<1>4. CASE CountVote
  BY <1>4, CountVoteCounts DEF Decision!Next
<1>5. CASE StoreBallot
  <2>1. db'.results = db.results /\ disk' = disk
    BY <1>1, <1>5 DEF StoreBallot, StoreType
  <2>2. CountedVotes(db', job') = CountedVotes(db, job)
    BY <1>5, CountedAtStore DEF IInv
  <2> QED BY <1>2, <2>1, <2>2
<1>6. ASSUME NEW e \in Epoch, LearnEpoch(e) PROVE UNCHANGED Decision!vars
  <2>1. db'.results = db.results /\ db'.stored = db.stored /\ disk' = disk /\ job' = job
    BY <1>1, <1>6 DEF LearnEpoch, StoreType
  <2> QED BY <1>2, <2>1 DEF CountedVotes
<1>7. ASSUME NEW kind \in Kind, PassPreLlr(kind) PROVE UNCHANGED Decision!vars
  <2>1. db'.results = db.results /\ db'.stored = db.stored /\ disk' = disk /\ job' = job
    BY <1>1, <1>7 DEF PassPreLlr, StoreType
  <2> QED BY <1>2, <2>1 DEF CountedVotes
<1>8. CASE Commit
  <2>1. /\ db'.results = db.results /\ db'.stored = db.stored /\ disk' = db'
        /\ job = NoJob /\ job' = NoJob
    BY <1>1, <1>8 DEF Commit, StoreType
  <2>2. /\ CountedVotes(db', job') = CountedVotes(db, job)
        /\ CountedVotes(disk', NoJob) = CountedVotes(db, job)
    BY <2>1 DEF CountedVotes
  <2>3. Decision!Flush
    BY <2>1, <2>2 DEF Decision!Flush
  <2> QED BY <2>3 DEF Decision!Next
<1>9. CASE Crash
  <2>1. db' = disk /\ job' = NoJob /\ disk' = disk
    BY <1>9 DEF Crash
  <2>2. Decision!Restart
    BY <2>1 DEF Decision!Restart
  <2> QED BY <2>2 DEF Decision!Next
<1>10. CASE UNCHANGED vars
  BY <1>2, <1>10 DEF vars
<1> QED BY <1>3, <1>4, <1>5, <1>6, <1>7, <1>8, <1>9, <1>10 DEF Next

\* With stable validators LLR voting, with its bitmaps, its cache and its crashes, is what
\* LlrDecision promises: a record is decided as soon as a third stands behind it, and not before.
THEOREM SpecImplementsDecision ==
  ASSUME StableValidators PROVE Spec => ImplementsDecision
<1>1. Init => Decision!Init
  <2> SUFFICES ASSUME Init PROVE Decision!Init
    OBVIOUS
  <2>1. db = EmptyStore /\ disk = EmptyStore /\ job = NoJob
    BY DEF Init
  <2>2. EmptyStore.stored = {} /\ EmptyStore.results = [i \in Item |-> NoHash]
    BY DEF EmptyStore
  <2>3. AsTriples(CountedVotes(EmptyStore, NoJob)) = {}
    BY <2>2 DEF CountedVotes, AsTriples
  <2> QED BY <2>1, <2>2, <2>3 DEF Decision!Init
<1>2. IInv /\ IInv' /\ [Next]_vars => [Decision!Next]_(Decision!vars)
  BY NextRefines
<1>3. Spec => []IInv
  BY SpecIInv
<1> QED BY <1>1, <1>2, <1>3, PTL DEF Spec, ImplementsDecision, Decision!Spec

\* What LlrDecision's third and flush mean for LLR voting: in memory and on disk an item is decided
\* exactly when a third stands behind a hash, and then for such a hash; and memory has what the disk
\* has.
THEOREM SpecDecisionsRight ==
  ASSUME StableValidators
  PROVE  Spec => [](Decision!DecisionsRight /\ Decision!MemoryExtendsDisk)
<1>1. ASSUME NEW d \in StoreType, NEW c, NEW j, StoreInv(d, c, j),
             CountedVotes(d, j) \subseteq Key \X Validator
      PROVE  Decision!Right(AsTriples(CountedVotes(d, j)), d.results)
  <2> SUFFICES ASSUME NEW i \in Item
               PROVE  LET backed == Decision!Backed(AsTriples(CountedVotes(d, j)), i)
                      IN /\ d.results[i] # NoHash => d.results[i] \in backed
                         /\ d.results[i] = NoHash => backed = {}
    BY DEF Decision!Right
  <2> DEFINE backed == Decision!Backed(AsTriples(CountedVotes(d, j)), i)
  <2>1. d.results[i] \in IF backed = {} THEN {NoHash} ELSE backed
    BY <1>1, DecidedIfBacked
  <2>2. backed = {k[4] : k \in {x \in Key : <<x[1], x[2]>> = i /\ Full(d, c, x)}}
    BY <1>1, BackedAreFull
  <2>3. NoHash \notin backed
    BY <2>2, KeyFacts, HashAssumption
  <2> HIDE DEF backed
  <2>4. /\ d.results[i] # NoHash => d.results[i] \in backed
        /\ d.results[i] = NoHash => backed = {}
    BY <2>1, <2>3
  <2> QED BY <2>4 DEF backed
<1>2. IInv => Decision!DecisionsRight
  <2> SUFFICES ASSUME IInv PROVE Decision!DecisionsRight
    OBVIOUS
  <2>1. /\ db \in StoreType /\ disk \in StoreType
        /\ StoreInv(db, cache, job) /\ StoreInv(disk, EmptyCache, NoJob)
        /\ job = NoJob \/ job.ballot \in Ballot
        /\ job # NoJob => job.next \in 1 .. Len(job.ballot.votes) + 1
    BY DEF IInv, TypeInv, TypeOK
  <2>2. CountedVotes(db, job) \subseteq Key \X Validator
    BY <2>1, CountedShape
  <2>3. CountedVotes(disk, NoJob) \subseteq Key \X Validator
    BY <2>1, CountedShape
  <2> QED BY <1>1, <2>1, <2>2, <2>3 DEF Decision!DecisionsRight
<1>3. IInv => Decision!MemoryExtendsDisk
  <2> SUFFICES ASSUME IInv PROVE Decision!MemoryExtendsDisk
    OBVIOUS
  <2>1. CountedVotes(disk, NoJob) \subseteq CountedVotes(db, job)
    BY DEF IInv, MemoryInv, CountedVotes
  <2>2. AsTriples(CountedVotes(disk, NoJob)) \subseteq AsTriples(CountedVotes(db, job))
    BY <2>1 DEF AsTriples
  <2> QED BY <2>2 DEF IInv, MemoryInv, Decision!MemoryExtendsDisk
<1> QED BY <1>2, <1>3, SpecIInv, PTL
=============================================================================
