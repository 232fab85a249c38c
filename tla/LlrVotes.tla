------------------------------ MODULE LlrVotes ------------------------------
(***************************************************************************)
(* LLR voting as gossip/c_llr_callbacks.go does it: validators sign the    *)
(* hashes of block records and epoch records, and a node decides a record  *)
(* once a third of the weight (plus one) has signed the same hash.         *)
(*                                                                         *)
(* A ballot is an LlrSignedBlockVotes (kind "block": consecutive blocks of *)
(* one epoch) or an LlrSignedEpochVote (kind "epoch": a single epoch).     *)
(* The weight behind a hash and the bitmap of the validators that make it  *)
(* up live in a write-back LRU cache (VotesCache) over a table; everything *)
(* else in the store is flushed in one piece by Store.Commit, and a crash  *)
(* falls back to the last flush.                                           *)
(*                                                                         *)
(* processBlockVotes and processEpochVote run under Service.engineMu: one  *)
(* ballot at a time, one vote of it per step (ProcessFullBlockRecord reads *)
(* the results between those steps).                                       *)
(***************************************************************************)
EXTENDS Integers, Sequences, FiniteSets

CONSTANTS
  Validator,   \* idx.ValidatorID
  Epoch,       \* epochs whose validators may be known, 0 included
  Index,       \* block and epoch numbers voted on
  Hash,        \* record hashes
  NoHash,      \* no result yet
  Ballot,      \* the signed ballots that exist; several may carry equal votes
  NoBallot,    \* no ballot in progress
  Members,     \* Members[e]: the validators of epoch e
  IdxOf,       \* IdxOf[e][v]: pos.Validators.GetIdx, by weight and not by ID
  WeightOf,    \* WeightOf[e][V]: the weight of the set V in epoch e
  WordBits,    \* bits per bitmap word (8 in the code)
  CacheMax,    \* size of either VotesCache, LlrBlockVotesIndex and LlrEpochVoteIndex
  PreLlrTop    \* PreLlrTop[kind]: last block / epoch sealed under pre-LLR rules

Kind == {"block", "epoch"}

Item == Kind \X Index

IsMeasure(w) ==
  /\ w \in [SUBSET Validator -> Nat]
  /\ w[{}] = 0
  /\ \A V \in SUBSET Validator : \A v \in Validator \ V :
       w[V \cup {v}] = w[V] + w[{v}]

ASSUME NumbersAssumption ==
  /\ Epoch \subseteq Nat /\ 0 \in Epoch
  /\ Index \subseteq Nat /\ \A n \in Index : 0 .. n \subseteq Index
  /\ WordBits \in Nat \ {0}
  /\ CacheMax \in Nat \ {0}
  /\ PreLlrTop \in [Kind -> Index]
  /\ \A k \in Kind : PreLlrTop[k] + 1 \in Index

ASSUME HashAssumption == NoHash \notin Hash

ASSUME ValidatorsAssumption ==
  /\ Members \in [Epoch -> SUBSET Validator]
  /\ DOMAIN IdxOf = Epoch
  /\ DOMAIN WeightOf = Epoch
  /\ \A e \in Epoch :
       /\ IsFiniteSet(Members[e])
       /\ IdxOf[e] \in [Members[e] -> 0 .. Cardinality(Members[e]) - 1]
       /\ \A v, w \in Members[e] : IdxOf[e][v] = IdxOf[e][w] => v = w
       /\ IsMeasure(WeightOf[e])

\* LlrSignedBlockVotes and LlrSignedEpochVote that pass basiccheck and heavycheck.
BallotType(b) ==
  /\ b.kind \in Kind
  /\ b.creator \in Validator
  /\ b.group \in Epoch          \* the epoch whose validators weigh the ballot
  /\ b.epoch \in Epoch          \* Val.Epoch
  /\ b.start \in Index
  /\ b.votes \in Seq(Hash)
  /\ b.votes # <<>>
  /\ \A i \in 1 .. Len(b.votes) : b.start + i - 1 \in Index

ASSUME BallotAssumption == NoBallot \notin Ballot /\ \A b \in Ballot : BallotType(b)

LastOf(b) == b.start + Len(b.votes) - 1

ItemOf(b, i) == <<b.kind, b.start + i - 1>>

\* VotesCacheID: a hash for an item, in the epoch the item is claimed to belong to.
KeyOf(b, i) == <<b.kind, b.start + i - 1, b.epoch, b.votes[i]>>

\* The keys some ballot votes for.
Key == UNION {{KeyOf(b, i) : i \in 1 .. Len(b.votes)} : b \in Ballot}

VARIABLES
  db,      \* the store: database overlay and the caches Commit writes through
  disk,    \* the store as of the last flush
  cache,   \* the two VotesCaches: entries of one kind only evict each other
  job      \* the ballot being processed under engineMu and its next vote

vars == <<db, disk, cache, job>>

----------------------------------------------------------------------------
(* Vote weights: VotesCache, getLlrVoteWeight, addLlrVoteWeight *)

\* A mutant: the last, partial word is not allocated.
CapacityCut(n) == WordBits * (n \div WordBits)

\* bitmap.New: room for n validators, in whole words. No entry has no words.
Capacity(n) == WordBits * ((n + WordBits - 1) \div WordBits)

NoWeight == [weight |-> 0, bits |-> {}, room |-> 0]

NotCached == [state |-> "absent", val |-> NoWeight]

\* getLlrVoteWeight: the cached value if there is one, else the table's.
Tally(d, c, k) == IF c[k].state = "absent" THEN d.table[k] ELSE c[k].val

\* set.Has on an index past the end of the bitmap panics (index out of range).
InRoom(t, i) == t.room = 0 \/ i < t.room

\* A mutant: the bit is not looked at.
AddedAlways(t, i, n, diff) ==
  [weight |-> t.weight + diff,
   bits   |-> t.bits \cup {i},
   room   |-> IF t.room = 0 THEN Capacity(n) ELSE t.room]

\* addLlrVoteWeight: a validator whose bit is set is not counted again.
Added(t, i, n, diff) ==
  IF i \in t.bits
    THEN t
    ELSE [weight |-> t.weight + diff,
          bits   |-> t.bits \cup {i},
          room   |-> IF t.room = 0 THEN Capacity(n) ELSE t.room]

\* VotesCache.Add of key k, once with the value read (unchanged value, entry kept
\* clean) or with the new value; it evicts the key in out, if any.
CacheAfter(c, k, old, new, out) ==
  [x \in Key |->
     CASE x = k ->
            [state |-> IF new # old THEN "mutated"
                       ELSE IF c[k].state = "absent" THEN "clean" ELSE c[k].state,
             val |-> new]
       [] x \in out /\ x # k -> NotCached
       [] OTHER -> c[x]]

\* A mutant: an evicted entry is dropped even if it was mutated.
TableKept(t, c, out) == t

\* The evicted function of NewVotesCache: a mutated entry goes to the table.
TableAfter(t, c, out) ==
  [x \in Key |-> IF x \in out /\ c[x].state = "mutated" THEN c[x].val ELSE t[x]]

\* Which key a full cache may drop to make room for k (the LRU order is left open).
Evictions(c, k) ==
  LET cached == {x \in Key : x[1] = k[1] /\ c[x].state # "absent"}
  IN IF c[k].state # "absent" \/ Cardinality(cached) < CacheMax
       THEN {{}}
       ELSE {{x} : x \in cached}

\* A mutant: the commit leaves the cached weights in memory.
UnflushedTable(t, c) == t

\* FlushMutated
FlushedTable(t, c) ==
  [x \in Key |-> IF c[x].state = "mutated" THEN c[x].val ELSE t[x]]

FlushedCache(c) ==
  [x \in Key |-> IF c[x].state = "mutated" THEN [c[x] EXCEPT !.state = "clean"] ELSE c[x]]

Quorum(e) == WeightOf[e][Members[e]] \div 3 + 1

\* A mutant: a later quorum overrides the result.
WinsAgain(r, i, w, e) == w >= Quorum(e)

\* The weight w completes a third and the item has no result yet.
Wins(r, i, w, e) == w >= Quorum(e) /\ r[i] = NoHash

\* A mutant: the loop over decided indexes is missing.
ActualizedOnce(current, upd, r, kind) == IF current # upd THEN {current} ELSE {current + 1}

\* actualizeLowestIndex(current, upd, exists), as the set of its possible results.
Actualized(current, upd, r, kind) ==
  IF current # upd
    THEN {current}
    ELSE {u \in Index : /\ current < u
                        /\ r[<<kind, u>>] = NoHash
                        /\ \A n \in Index : current < n /\ n < u => r[<<kind, n>>] # NoHash}

----------------------------------------------------------------------------
(* Actions *)

EmptyStore ==
  [stored  |-> {},                                  \* LlrBlockVotes, LlrEpochVotes
   results |-> [i \in Item |-> NoHash],             \* LlrBlockResults, LlrEpochResults
   lowest  |-> [k \in Kind |-> 1],                  \* LlrState.Lowest*ToDecide
   last    |-> [k \in Kind |-> [v \in Validator |-> 0]],  \* LastBVs, LastEVs
   table   |-> [k \in Key |-> NoWeight],            \* Llr*VotesIndex
   history |-> {0},                                 \* epochs with a known state
   head    |-> [k \in Kind |-> 0]]                  \* pre-LLR blocks and epochs passed

EmptyCache == [k \in Key |-> NotCached]

NoJob == [ballot |-> NoBallot, next |-> 0]

Init ==
  /\ db = EmptyStore
  /\ disk = EmptyStore
  /\ cache = EmptyCache
  /\ job = NoJob

\* A mutant: an index that is off by one.
BeginBallotAtZero(b) ==
  /\ job = NoJob
  /\ b \notin db.stored
  /\ b.group \in db.history
  /\ b.creator \in Members[b.group]
  /\ job' = [ballot |-> b, next |-> 0]
  /\ UNCHANGED <<db, disk, cache>>

\* processBlockVotes, processEpochVote up to ModifyLlrState: the early returns.
\* They are reached from an event (processEvent) and from a vote stream.
BeginBallot(b) ==
  /\ job = NoJob
  /\ b \notin db.stored            \* ErrAlreadyProcessedBVs, ErrAlreadyProcessedEV
  /\ b.group \in db.history        \* ErrUnknownEpochBVs, ErrUnknownEpochEV
  /\ b.creator \in Members[b.group]  \* errValidatorNotExist
  /\ job' = [ballot |-> b, next |-> 1]
  /\ UNCHANGED <<db, disk, cache>>

\* processBlockVote, processRawEpochVote: count the next vote, decide if it completes
\* a third, and move the lowest undecided index.
CountVote ==
  /\ job # NoJob
  /\ LET b   == job.ballot
         i   == job.next
         k   == KeyOf(b, i)
         idx == IdxOf[b.group][b.creator]
         old == Tally(db, cache, k)
         new == Added(old, idx, Cardinality(Members[b.group]), WeightOf[b.group][{b.creator}])
         won == Wins(db.results, ItemOf(b, i), new.weight, b.group)
         res == IF won THEN [db.results EXCEPT ![ItemOf(b, i)] = b.votes[i]] ELSE db.results
     IN /\ i <= Len(b.votes)
        /\ InRoom(old, idx)
        /\ \E out \in Evictions(cache, k) :
             /\ cache' = CacheAfter(cache, k, old, new, out)
             /\ \E low \in IF won THEN Actualized(db.lowest[b.kind], b.start + i - 1, res, b.kind)
                                  ELSE {db.lowest[b.kind]} :
                  db' = [db EXCEPT !.table = TableAfter(@, cache, out),
                                   !.results = res,
                                   !.lowest[b.kind] = low]
        /\ job' = [job EXCEPT !.next = i + 1]
        /\ UNCHANGED disk

Later(new, old) == IF new > old THEN new ELSE old

\* The rest of processBlockVotes, processEpochVote: store the ballot and raise the
\* creator's last voted block or epoch.
StoreBallot ==
  /\ job # NoJob
  /\ job.next > Len(job.ballot.votes)
  /\ LET b == job.ballot
     IN db' = [db EXCEPT !.stored = @ \cup {b},
                         !.last[b.kind][b.creator] = Later(LastOf(b), @)]
  /\ job' = NoJob
  /\ UNCHANGED <<disk, cache>>

\* The state of an epoch becomes known: the epoch is sealed, or its record is filled
\* after a vote weighed by the epoch before it.
LearnEpoch(e) ==
  /\ job = NoJob
  /\ e \notin db.history
  /\ e - 1 \in db.history
  /\ db' = [db EXCEPT !.history = @ \cup {e}]
  /\ UNCHANGED <<disk, cache, job>>

\* EndBlock while the rules have LLR off: the next block (or, when it seals, the next
\* epoch) counts as decided. Nothing is skipped here, unlike in actualizeLowestIndex.
PassPreLlr(kind) ==
  /\ job = NoJob
  /\ db.head[kind] < PreLlrTop[kind]
  /\ LET n == db.head[kind] + 1
     IN db' = [db EXCEPT !.head[kind] = n,
                         !.lowest[kind] = IF @ = n THEN n + 1 ELSE @]
  /\ UNCHANGED <<disk, cache, job>>

\* Store.Commit under engineMu: the caches are written out and the overlay is flushed.
Commit ==
  /\ job = NoJob
  /\ db' = [db EXCEPT !.table = FlushedTable(@, cache)]
  /\ cache' = FlushedCache(cache)
  /\ disk' = db'
  /\ UNCHANGED job

\* The process dies (also by a panic in CountVote) and starts from the last flush.
Crash ==
  /\ db' = disk
  /\ cache' = EmptyCache
  /\ job' = NoJob
  /\ UNCHANGED disk

Next ==
  \/ \E b \in Ballot : BeginBallot(b)
  \/ CountVote
  \/ StoreBallot
  \/ \E e \in Epoch : LearnEpoch(e)
  \/ \E k \in Kind : PassPreLlr(k)
  \/ Commit
  \/ Crash

Spec == Init /\ [][Next]_vars

----------------------------------------------------------------------------
(* Properties *)

StoreType ==
  [stored  : SUBSET Ballot,
   results : [Item -> Hash \cup {NoHash}],
   lowest  : [Kind -> Nat],
   last    : [Kind -> [Validator -> Nat]],
   table   : [Key -> [weight : Nat, bits : SUBSET Nat, room : Nat]],
   history : SUBSET Epoch,
   head    : [Kind -> Nat]]

\* The variables have the types of their Go counterparts.
TypeOK ==
  /\ db \in StoreType
  /\ disk \in StoreType
  /\ cache \in [Key -> [state : {"absent", "clean", "mutated"},
                        val : [weight : Nat, bits : SUBSET Nat, room : Nat]]]
  /\ job \in [ballot : Ballot \cup {NoBallot}, next : Nat]
  /\ job # NoJob => /\ job.ballot \in Ballot
                    /\ job.next \in 1 .. Len(job.ballot.votes) + 1

\* The first n votes of ballot b: who votes for which key.
VotesOf(b, n) == {<<KeyOf(b, i), b.creator>> : i \in 1 .. n}

\* The votes of the stored ballots, and those counted of the ballot in progress.
CountedVotes(d, j) ==
  (UNION {VotesOf(b, Len(b.votes)) : b \in d.stored})
    \cup (IF j = NoJob THEN {} ELSE VotesOf(j.ballot, j.next - 1))

\* The validators that vote for key k among the votes vs.
Voters(vs, k) == {v \in Validator : <<k, v>> \in vs}

\* The epochs agree on the validators, their weights and their bit indexes.
StableValidators ==
  \A e, f \in Epoch : /\ Members[e] = Members[f]
                      /\ IdxOf[e] = IdxOf[f]
                      /\ WeightOf[e] = WeightOf[f]

\* More than a third of the weight of epoch e, in different validators.
Third(e, V) == 3 * WeightOf[e][V] > WeightOf[e][Members[e]]

\* The tally t is that of the validators V of epoch e.
TallyIs(t, e, V) ==
  /\ t.bits = {IdxOf[e][v] : v \in V}
  /\ t.weight = WeightOf[e][V]

\* store_llr_block.go addLlrVoteWeight and the write-back cache: in memory and on disk,
\* the weight behind a hash is that of the different validators whose ballots are in
\* the store, and each has its bit set: nothing is lost by an eviction, a commit or a
\* crash and nobody is counted twice.
TallyMatchesBallots ==
  LET live    == CountedVotes(db, job)
      flushed == CountedVotes(disk, NoJob)
  IN \A k \in Key :
       /\ TallyIs(Tally(db, cache, k), k[3], Voters(live, k))
       /\ TallyIs(disk.table[k], k[3], Voters(flushed, k))

\* store_llr_block.go:73 "don't count the vote if validator already voted": a decided
\* item has different validators behind it that hold a third of the weight of some
\* epoch.
DecidedByThird ==
  LET live == CountedVotes(db, job)
  IN \A i \in Item : db.results[i] # NoHash =>
       \E e, f \in Epoch : Third(f, Voters(live, <<i[1], i[2], e, db.results[i]>>))

\* bitmap.Put / bitmap.Has: the bit of the vote about to be counted is inside the bitmap.
BitmapInRange ==
  job # NoJob /\ job.next <= Len(job.ballot.votes) =>
    InRoom(Tally(db, cache, KeyOf(job.ballot, job.next)),
           IdxOf[job.ballot.group][job.ballot.creator])

\* LlrState.LowestBlockToDecide, LowestEpochToDecide: everything below is decided or was
\* sealed under pre-LLR rules, and the index itself is undecided unless the pre-LLR
\* increments of EndBlock have walked it there: then it may rest on a decided index.
LowestIsLowest ==
  \A kind \in Kind :
    /\ \A n \in Index : 1 <= n /\ n < db.lowest[kind] =>
         db.results[<<kind, n>>] # NoHash \/ n <= db.head[kind]
    /\ \/ db.results[<<kind, db.lowest[kind]>>] = NoHash
       \/ db.lowest[kind] = db.head[kind] + 1 /\ db.head[kind] > 0

\* store_last_bv.go, store_last_ev.go: the emitter's "last voted" index of a validator is
\* the highest index of its stored ballots.
LastIsHighestStored ==
  \A kind \in Kind, v \in Validator :
    LET own == {b \in db.stored : b.kind = kind /\ b.creator = v}
    IN /\ \A b \in own : LastOf(b) <= db.last[kind][v]
       /\ db.last[kind][v] # 0 => \E b \in own : LastOf(b) = db.last[kind][v]

\* The indexes kept beside the tables are those that the tables give, in whatever order
\* ballots arrive and blocks are decided.
IndexesMatchStore == LowestIsLowest /\ LastIsHighestStored

\* c_llr_callbacks.go:36-41: a result that was flushed is never revised, by a later vote
\* or by a restart.
FlushedResultsFinal ==
  [][\A i \in Item : disk.results[i] # NoHash =>
       db'.results[i] = disk.results[i] /\ disk'.results[i] = disk.results[i]]_vars

----------------------------------------------------------------------------
(* Refinement of LlrDecision: a side is an epoch with a record hash *)

\* A counted vote as a triple of item, side and voter.
AsTriples(vs) ==
  {<<<<w[1][1], w[1][2]>>, <<w[1][3], w[1][4]>>, w[2]>> : w \in vs}

Decision == INSTANCE LlrDecision WITH
  Item <- Item,
  Side <- Epoch \X Hash,
  Voter <- Validator,
  Value <- Hash,
  NoValue <- NoHash,
  ValueOf <- LAMBDA s : s[2],
  Enough <- LAMBDA s, V : Third(s[1], V),
  votes <- AsTriples(CountedVotes(db, job)),
  result <- db.results,
  kept <- [votes |-> AsTriples(CountedVotes(disk, NoJob)), result |-> disk.results]

\* LLR voting implements LlrDecision.
ImplementsDecision == Decision!Spec
=============================================================================
