------------------------------- MODULE Emitter -------------------------------
(***************************************************************************)
(* How one validator emits events so that a crash does not make it sign    *)
(* two with the same self-parent: gossip/emitter, with what processEvent   *)
(* does to the validator's own events.                                     *)
(*                                                                         *)
(* EmitEvent holds engineMu while it creates an event on top of the last   *)
(* of its own, has it processed (which saves it, may seal the epoch and    *)
(* may commit the store), writes its ID and the number of the last block   *)
(* it votes for to two files, and broadcasts it. A crash takes the store   *)
(* back to the last commit but leaves the files. Peers have what was       *)
(* broadcast, and whatever they have fetched from the store meanwhile:     *)
(* streams and requests read it without engineMu.                          *)
(*                                                                         *)
(* The protection's timers (lachesis-base/emitter/doublesign) hold events   *)
(* back for a while after a start, without peers, out of sync and after an *)
(* event of the validator came from a peer. They say nothing of what has   *)
(* been downloaded by then: here a wait is a step that is not taken.       *)
(*                                                                         *)
(* There is one instance of the validator, it is in every epoch's group,   *)
(* and DoublesignProtection is on. What else holds an event back (gas      *)
(* power, efficiency, a fork it has found) only delays it.                 *)
(***************************************************************************)
EXTENDS Integers, Sequences

CONSTANTS
  MaxEpoch,   \* bound: the last epoch
  MaxSeq,     \* bound: own events per epoch
  MaxVote,    \* bound: the last block voted for
  MaxCrashes  \* bound: how often the node crashes

ASSUME EmitterAssumption ==
  /\ MaxEpoch \in Nat \ {0} /\ MaxSeq \in Nat \ {0}
  /\ MaxVote \in Nat /\ MaxCrashes \in Nat

Epoch == 1 .. MaxEpoch

Vote == 0 .. MaxVote  \* the last block an event votes for, or 0

Life == 0 .. MaxCrashes

\* An own event is known by its epoch and its chain of self-parents, itself at the end: in
\* which life of the process each was created and what it votes for.
Link == [life : Life, vote : Vote]

Event == [epoch : Epoch, chain : Seq(Link)]

VARIABLES
  db,         \* the store: the epoch, own events, the last of this epoch, LastBVs
  disk,       \* the store as of the last commit
  eventFile,  \* PrevEmittedEventFile: at most one event
  votesFile,  \* PrevBlockVotesFile
  job,        \* EmitEvent: its next step and the event
  net,        \* own events that peers have
  premature,  \* history: those they had before EmitEvent broadcast them, and at which step
  life,       \* how often the node has crashed
  locked      \* errlock.Permanent

vars == <<db, disk, eventFile, votesFile, job, net, premature, life, locked>>

files == <<eventFile, votesFile>>

peers == <<net, premature>>

Larger(m, n) == IF m < n THEN n ELSE m

VoteOf(e) == e.chain[Len(e.chain)].vote

----------------------------------------------------------------------------
(* The store *)

\* processBlockVotes and the save of an own event, which becomes the last one of the
\* epoch, whatever it is ("we don't care about forks").
Saved(d, e) == [d EXCEPT !.own = @ \cup {e},
                         !.last = e.chain,
                         !.voted = Larger(@, VoteOf(e))]

\* switchEpochTo
Sealed(d) == [d EXCEPT !.epoch = @ + 1, !.last = <<>>]

SealUncommitted(d) ==  \* mutant: the commit of a sealing is left to the next event
  \/ db' = d /\ disk' \in {d, disk}
  \/ d.epoch < MaxEpoch /\ db' = Sealed(d) /\ disk' \in {d, disk}

\* The end of processEvent of an event with which the store is d: nothing; a commit, when
\* enough has changed since the last; or the epoch is sealed, which always commits.
EndEvent(d) ==
  \/ db' = d /\ disk' \in {d, disk}
  \/ d.epoch < MaxEpoch /\ db' = Sealed(d) /\ disk' = db'

----------------------------------------------------------------------------
(* EmitEvent *)

Resting == [step |-> "rest"]

Up == ~locked

Pausing(e) ==  \* mutant: an event of an epoch that has passed is waited for as well
  e \notin db.own

\* currentSyncStatus: the last emitted event is not in the store, and its epoch has not
\* passed.
Missing(e) == e \notin db.own /\ db.epoch <= e.epoch

Paused == \E e \in eventFile : Missing(e)

\* createEvent: the last own event of the store is not that of the file.
Differs == \E e \in eventFile : e.epoch >= db.epoch /\ e # [epoch |-> db.epoch, chain |-> db.last]

MayVoteByStore(v) ==  \* mutant: the file is not read
  v = 0 \/ v > db.voted

\* addLlrBlockVotes: from the last voted on, by the store and by the file, or none.
MayVote(v) == v = 0 \/ v > Larger(db.voted, votesFile)

\* createEvent and processEvent, up to where peers may see the event.
Create ==
  /\ Up
  /\ job = Resting
  /\ ~Paused
  /\ ~Differs
  /\ Len(db.last) < MaxSeq
  /\ \E v \in Vote :
       /\ MayVote(v)
       /\ LET e == [epoch |-> db.epoch, chain |-> Append(db.last, [life |-> life, vote |-> v])]
          IN /\ db' = Saved(db, e)
             /\ job' = [step |-> "process", event |-> e]
  /\ UNCHANGED <<disk, files, peers, life, locked>>

\* createEvent gives up for good: "Local database is corrupted".
Lock ==
  /\ Up
  /\ job = Resting
  /\ ~Paused
  /\ Differs
  /\ locked' = TRUE
  /\ UNCHANGED <<db, disk, files, job, peers, life>>

\* The rest of processEvent.
Process ==
  /\ Up
  /\ job.step = "process"
  /\ EndEvent(db)
  /\ job' = [job EXCEPT !.step = "event"]
  /\ UNCHANGED <<files, peers, life, locked>>

WriteNoEvent ==  \* mutant: the ID is not written
  /\ Up
  /\ job.step = "event"
  /\ job' = [job EXCEPT !.step = "votes"]
  /\ UNCHANGED <<db, disk, files, peers, life, locked>>

\* writeLastEmittedEventID
WriteEvent ==
  /\ Up
  /\ job.step = "event"
  /\ eventFile' = {job.event}
  /\ job' = [job EXCEPT !.step = "votes"]
  /\ UNCHANGED <<db, disk, votesFile, peers, life, locked>>

\* writeLastEmittedBlockVotes, if it votes
WriteVotes ==
  /\ Up
  /\ job.step = "votes"
  /\ votesFile' = IF VoteOf(job.event) # 0 THEN VoteOf(job.event) ELSE votesFile
  /\ job' = [job EXCEPT !.step = "send"]
  /\ UNCHANGED <<db, disk, eventFile, peers, life, locked>>

Broadcast ==
  /\ Up
  /\ job.step = "send"
  /\ net' = net \cup {job.event}
  /\ job' = Resting
  /\ UNCHANGED <<db, disk, files, premature, life, locked>>

EmitEvent == Create \/ Lock \/ Process \/ WriteEvent \/ WriteVotes \/ Broadcast

----------------------------------------------------------------------------
(* Around it *)

\* A peer fetches an own event from the store, at any time.
Serve(e) ==
  /\ Up
  /\ e \in db.own \ net
  /\ net' = net \cup {e}
  /\ premature' = IF job # Resting /\ job.event = e
                    THEN premature \cup {<<job.step, e>>}
                    ELSE premature
  /\ UNCHANGED <<db, disk, files, job, life, locked>>

\* processEvent of an own event that a peer has and the store has lost: its parents are
\* there. OnEventConnected finds that this process has not emitted it, and waits anew.
Receive(e) ==
  /\ Up
  /\ job = Resting
  /\ e \in net \ db.own
  /\ e.epoch = db.epoch
  /\ Len(e.chain) = 1 \/ [e EXCEPT !.chain = SubSeq(@, 1, Len(@) - 1)] \in db.own
  /\ EndEvent(Saved(db, e))
  /\ UNCHANGED <<files, job, peers, life, locked>>

\* processEvent of another validator's event, and PeriodicFlusher.
Seal ==
  /\ Up
  /\ job = Resting
  /\ db.epoch < MaxEpoch
  /\ EndEvent(db)
  /\ db' # db
  /\ UNCHANGED <<files, job, peers, life, locked>>

Commit ==
  /\ Up
  /\ job = Resting
  /\ disk' = db
  /\ UNCHANGED <<db, files, job, peers, life, locked>>

Crash ==
  /\ life < MaxCrashes
  /\ life' = life + 1
  /\ db' = disk
  /\ job' = Resting
  /\ UNCHANGED <<disk, files, peers, locked>>

----------------------------------------------------------------------------
Fresh == [epoch |-> 1, own |-> {}, last |-> <<>>, voted |-> 0]

\* A validator that has emitted nothing yet.
Init ==
  /\ db = Fresh
  /\ disk = Fresh
  /\ eventFile = {}
  /\ votesFile = 0
  /\ job = Resting
  /\ net = {}
  /\ premature = {}
  /\ life = 0
  /\ locked = FALSE

Around == (\E e \in db.own : Serve(e)) \/ (\E e \in net : Receive(e)) \/ Seal \/ Commit

Next == EmitEvent \/ Around \/ Crash

Spec == Init /\ [][Next]_vars

\* EmitEvent goes on once it has begun, and the other validators seal epochs.
FairSpec ==
  /\ Spec
  /\ WF_vars(Process) /\ WF_vars(WriteEvent) /\ WF_vars(WriteVotes) /\ WF_vars(Broadcast)
  /\ WF_vars(Seal)
----------------------------------------------------------------------------
(* Properties *)

IsEvent(e) ==
  /\ e \in Event
  /\ Len(e.chain) \in 1 .. MaxSeq

StoreOK(d) ==
  /\ d.epoch \in Epoch
  /\ \A e \in d.own : IsEvent(e) /\ e.epoch <= d.epoch
  /\ d.last = <<>> \/ [epoch |-> d.epoch, chain |-> d.last] \in d.own
  /\ d.voted \in Vote

\* Every variable has its type; the last own event is one of the store; and no epoch is
\* begun that a crash could take back, so that the file is never ahead of the epoch.
TypeOK ==
  /\ StoreOK(db) /\ StoreOK(disk)
  /\ disk.epoch = db.epoch /\ disk.own \subseteq db.own
  /\ \A e \in eventFile : IsEvent(e) /\ e.epoch <= disk.epoch /\ eventFile = {e}
  /\ votesFile \in Vote
  /\ job = Resting \/ (job.step \in {"process", "event", "votes", "send"} /\ job.event \in db.own)
  /\ \A e \in net : IsEvent(e)
  /\ \A s \in premature : s[1] \in {"process", "event", "votes", "send"} /\ s[2] \in net
  /\ life \in Life /\ locked \in BOOLEAN

Fork(e, f) ==
  /\ e # f
  /\ e.epoch = f.epoch
  /\ Len(e.chain) = Len(f.chain)
  /\ SubSeq(e.chain, 1, Len(e.chain) - 1) = SubSeq(f.chain, 1, Len(f.chain) - 1)

\* "write event ID to avoid doublesigning in future after a crash" (emitter.go): peers never
\* see two events of the validator with one self-parent, however often it crashes, unless
\* one of them was fetched from the store before its ID was in the file.
DoublesignNeedsLeak ==
  \A e, f \in net : Fork(e, f) =>
    \E s \in {"process", "event"} : <<s, e>> \in premature \/ <<s, f>> \in premature

\* Whatever peers have of the validator, it remembers over a crash: it is committed, or in
\* or below the event in the file, or its epoch has passed, or it was fetched before its ID
\* was in the file.
Below(e, f) == e.epoch = f.epoch /\ SubSeq(f.chain, 1, Len(e.chain)) = e.chain

Remembered ==
  \A e \in net :
    \/ e \in disk.own
    \/ e.epoch < disk.epoch
    \/ \E f \in eventFile : Len(e.chain) <= Len(f.chain) /\ Below(e, f)
    \/ \E s \in {"process", "event"} : <<s, e>> \in premature

\* The same votes never reach peers in two events, over any crashes and epochs, unless one
\* of the events was fetched before EmitEvent had written both files (addLlrBlockVotes).
VotesOnce ==
  \A e, f \in net : e # f /\ VoteOf(e) # 0 /\ VoteOf(e) = VoteOf(f) =>
    \E s \in {"process", "event", "votes"} : <<s, e>> \in premature \/ <<s, f>> \in premature

\* What the validator has said, in events or in votes, is not forgotten.
NothingForgotten == Remembered /\ VotesOnce

\* A validator that waits for its last event, which a crash has taken from the store, does
\* not wait for it beyond the epoch: nobody else may have it (currentSyncStatus).
PauseEnds == (Paused /\ db.epoch < MaxEpoch) ~> (~Paused \/ locked)

\* "Local database is corrupted, which may lead to a doublesign" (emitter.go). Refuted: the
\* commit at the end of processEvent and a crash before the ID is written leave a database
\* that is right and a file that is behind it.
NeverCorrupted == ~locked
=============================================================================
