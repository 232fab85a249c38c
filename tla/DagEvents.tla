----------------------------- MODULE DagEvents -----------------------------
(***************************************************************************)
(* How events get into the DAG of the node's epoch: the callbacks that     *)
(* gossip/handler.go gives to the DAG processor, the checks of eventcheck  *)
(* with what they read, gossip/c_event_callbacks.go, the epoch's index     *)
(* (gossip/store_epoch.go, store_heads.go, store_last_events.go), and what *)
(* a restart makes of the events that were committed.                      *)
(*                                                                         *)
(* An event is checked by itself as soon as it arrives (its signature by   *)
(* other goroutines), waits in a queue for the inserter, and in a buffer   *)
(* for its parents. The inserter checks it against them and processes it   *)
(* under engineMu; the emitter does so with events of its own. Sealing     *)
(* the epoch happens in the middle of that: from then on the store is in   *)
(* the new epoch, but the readers of the checks and the index follow one   *)
(* by one. None of the checks takes engineMu.                              *)
(*                                                                         *)
(* The processor and its buffer are lachesis-base's: one inserter, tasks   *)
(* in their order, the buffer locked while an event is pushed and          *)
(* processed. A message has one event; events that the buffer would spill  *)
(* for its size are those far above the highest Lamport time. So is the    *)
(* engine: it seals the epoch when some set of events (Sealing) is         *)
(* complete, in whatever order it was. Votes are in LlrVotes, gas in       *)
(* GasPower, blocks in BlockPipeline, and what makes the emitter hold      *)
(* back in Emitter.                                                        *)
(***************************************************************************)
EXTENDS Integers, Sequences, FiniteSetsExt, Folds

CONSTANTS
  Event, Body,     \* numbers in the order of their IDs, and for each its epoch, creator, lamport,
                   \* parents, and which check finds it wrong, or "none"
  Sealing,         \* sets of events that make the engine seal their epoch
  Own,             \* events that the node's emitter may make
  Honest, Faulty,  \* peers; the events with faults, and no others, come from faulty ones
  MaxLamportDiff,  \* how far above the highest Lamport time an event may be
  UpgradeEpoch,    \* the epoch with which the network wants a newer version, or 0
  QueueLimit,      \* bound: events in the queue
  MaxCrashes       \* bound

ASSUME DagEventsAssumption ==
  /\ Event \subseteq Nat /\ Own \subseteq Event
  /\ \A e \in Event :
       /\ Body[e].parents \subseteq Event
       /\ \A p \in Body[e].parents :
            p < e /\ Body[p].epoch = Body[e].epoch /\ Body[p].lamport < Body[e].lamport
       /\ Body[e].bad \in {"none", "light", "heavy", "parents", "engine"}
       /\ Body[e].bad = "none" =>  \* ErrWrongSelfParent
            \A p, q \in Body[e].parents :
              Body[p].creator = Body[e].creator /\ Body[q].creator = Body[e].creator => p = q
       /\ Body[e].epoch \in Nat /\ Body[e].lamport \in Nat
  /\ \A e \in Own : Body[e].bad = "none"
  /\ \A s \in Sealing : s # {} /\ \A e, f \in s : Body[e].epoch = Body[f].epoch
  /\ {MaxLamportDiff, UpgradeEpoch, MaxCrashes} \subseteq Nat /\ QueueLimit \in Nat \ {0}

VARIABLES
  store,    \* the database with its caches: the epoch, saved events, the highest Lamport time,
            \* and whether the network version is above the node's
  disk,     \* the store as of the last commit
  index,    \* the epoch store: its epoch, heads, and each creator's last event
  engine,   \* the events that the DAG indexer and the engine have
  ctx,      \* the epochs that the readers of the gas power check and the heavy check are in
  queue,    \* the processor's tasks: an event, its peer, and what the first checks say so far
  buffer,   \* events with their peers that wait for parents
  task,     \* the inserter
  job,      \* who is in processEvent, or no one
  clears,   \* newEpochsCh: how often the buffer will be cleared
  sent,     \* own events that peers have
  dropped,  \* peers that were removed
  crashes

vars == <<store, disk, index, engine, ctx, queue, buffer, task, job, clears, sent, dropped, crashes>>

Idle == [step |-> "idle"]

InEpoch(S, n) == {e \in S : Body[e].epoch = n}

Valid(e) == Body[e].bad = "none"

NoIndex(n) == [epoch |-> n, heads |-> {}, lasts |-> <<>>]

Genesis == [epoch |-> 1, saved |-> {}, lamport |-> 0, upgrade |-> UpgradeEpoch = 1]

Init ==
  /\ store = Genesis /\ disk = Genesis
  /\ index = NoIndex(1) /\ engine = {}
  /\ ctx = [gas |-> 1, keys |-> 1]
  /\ queue = <<>> /\ buffer = {}
  /\ task = Idle /\ job = Idle
  /\ clears = 0
  /\ sent = {} /\ dropped = {}
  /\ crashes = 0

----------------------------------------------------------------------------
(* What becomes of an event that is not connected *)

IsBanAlso(err) ==  \* mutant: an event of another epoch is a fault
  err \notin {"none", "connected", "duplicate", "spilled"}

\* eventcheck/ban.go; "paused" and "invalid" are
IsBan(err) == err \notin {"none", "irrelevant", "connected", "duplicate", "spilled"}

Release(peer, err) == dropped' = IF IsBan(err) THEN dropped \cup {peer} ELSE dropped

----------------------------------------------------------------------------
(* The checks. Each reads the epoch that it needs for itself *)

\* lightCheck; what is the matter with e. The buffer is asked without its lock.
LightCheck(e) ==
  CASE Body[e].epoch # store.epoch -> "irrelevant"
    [] \E x \in buffer : x.event = e -> "duplicate"
    [] e \in store.saved -> "connected"
    [] Body[e].bad = "light" -> "invalid"
    [] OTHER -> "none"

\* heavycheck.Checker.ValidateEvent
ValidateEvent(e) ==
  IF Body[e].epoch # ctx.keys THEN "irrelevant"
  ELSE IF Body[e].bad = "heavy" THEN "invalid" ELSE "none"

\* bufferedCheck: the parents, and the gas power with the self-parent
BufferedCheck(e) ==
  IF Body[e].bad = "parents" THEN "invalid"
  ELSE IF Body[e].epoch # ctx.gas THEN "irrelevant" ELSE "none"

----------------------------------------------------------------------------
(* The processor *)

\* handleEvents: one that is too high only says that the node is behind.
HandleEvents(p, e) ==
  /\ p \notin dropped /\ Len(queue) < QueueLimit
  /\ Valid(e) <=> p \in Honest
  /\ e \in Own => e \in sent
  /\ Body[e].lamport <= store.lamport + MaxLamportDiff
  /\ LET err == LightCheck(e)
     IN queue' = Append(queue, [event |-> e, peer |-> p, err |-> err, heavy |-> err = "none"])
  /\ UNCHANGED <<store, disk, index, engine, ctx, buffer, task, job, clears, sent, dropped, crashes>>

HeavyCheck(i) ==
  /\ i \in DOMAIN queue /\ queue[i].heavy
  /\ queue' = [queue EXCEPT ![i] = [@ EXCEPT !.err = ValidateEvent(queue[i].event), !.heavy = FALSE]]
  /\ UNCHANGED <<store, disk, index, engine, ctx, buffer, task, job, clears, sent, dropped, crashes>>

\* The buffer pushes event x, whose parents are there, on to processEvent, unless it is known or
\* the check against the parents fails. done are the events connected since the push began.
Push(x, done) ==
  LET err == IF x.event \in store.saved THEN "connected" ELSE BufferedCheck(x.event)
  IN /\ Release(x.peer, err)
     /\ task' = IF err = "none" THEN [step |-> "process", x |-> x, done |-> done]
                ELSE IF done = {} THEN Idle ELSE [step |-> "children", done |-> done]

Complete(e) == Body[e].parents \subseteq store.saved

\* The inserter takes the next task.
Insert ==
  /\ task = Idle /\ queue # <<>> /\ ~Head(queue).heavy
  /\ LET x == [event |-> Head(queue).event, peer |-> Head(queue).peer]
         err == CASE Head(queue).err # "none" -> Head(queue).err
                  [] Body[x.event].lamport > store.lamport + MaxLamportDiff -> "spilled"
                  [] \E y \in buffer : y.event = x.event -> "duplicate"
                  [] OTHER -> "none"
     IN \/ err # "none" /\ Release(x.peer, err) /\ UNCHANGED <<buffer, task>>
        \/ err = "none" /\ Complete(x.event) /\ Push(x, {}) /\ UNCHANGED buffer
        \/ /\ err = "none" /\ ~Complete(x.event)
           /\ buffer' = buffer \cup {x}
           /\ UNCHANGED <<task, dropped>>
  /\ queue' = Tail(queue)
  /\ UNCHANGED <<store, disk, index, engine, ctx, job, clears, sent, crashes>>

\* Those that waited for an event that has been connected
Children(done) ==
  {x \in buffer : Body[x.event].parents \cap done # {} /\ Complete(x.event)}

PushChild ==
  /\ task.step = "children"
  /\ \/ /\ Children(task.done) = {}
        /\ task' = Idle
        /\ UNCHANGED <<buffer, dropped>>
     \/ \E x \in Children(task.done) : buffer' = buffer \ {x} /\ Push(x, task.done)
  /\ UNCHANGED <<store, disk, index, engine, ctx, queue, job, clears, sent, crashes>>

\* onNewEpochLoop: Clear waits for the buffer's lock, and takes events of the new epoch as well.
Clear ==
  /\ clears > 0 /\ task = Idle
  /\ clears' = clears - 1
  /\ buffer' = {}
  /\ UNCHANGED <<store, disk, index, engine, ctx, queue, task, job, sent, dropped, crashes>>

----------------------------------------------------------------------------
(* processEvent *)

\* What it finds under the mutex before it does anything. Left out are errStopped and
\* errDirtyEvmSnap.
Refusal(e) ==
  CASE store.upgrade -> "paused"
    [] e \in store.saved -> "connected"
    [] Body[e].epoch # store.epoch -> "irrelevant"
    [] OTHER -> "none"

\* Up to where the event is saved, which others see at once
Enter(e, by) ==
  /\ store' = [store EXCEPT !.saved = @ \cup {e}]
  /\ job' = [step |-> "engine", event |-> e, by |-> by, old |-> store.epoch]

Process ==
  /\ task.step = "process" /\ job = Idle
  /\ LET err == Refusal(task.x.event)
     IN \/ /\ err = "none" /\ Enter(task.x.event, "inserter")
           /\ UNCHANGED <<task, dropped>>
        \/ /\ err # "none" /\ Release(task.x.peer, err)
           /\ task' = IF task.done = {} THEN Idle ELSE [step |-> "children", done |-> task.done]
           /\ UNCHANGED <<store, job>>
  /\ UNCHANGED <<disk, index, engine, ctx, queue, buffer, clears, sent, crashes>>

\* The emitter holds engineMu, and what it makes is valid; it makes nothing a second time.
Emit(e) ==
  /\ job = Idle /\ e \notin sent
  /\ Complete(e) /\ Refusal(e) = "none"
  /\ Enter(e, "emitter")
  /\ UNCHANGED <<disk, index, engine, ctx, queue, buffer, task, clears, sent, dropped, crashes>>

\* saveAndProcessEvent of one that the engine refuses; what a wrong PrevEpochHash leads to is the same
ProcessSavedFails ==
  /\ job.step = "engine" /\ Body[job.event].bad = "engine"
  /\ store' = [store EXCEPT !.saved = @ \ {job.event}]
  /\ job' = Idle
  /\ Release(task.x.peer, "invalid")
  /\ task' = IF task.done = {} THEN Idle ELSE [step |-> "children", done |-> task.done]
  /\ UNCHANGED <<disk, index, engine, ctx, queue, buffer, clears, sent, crashes>>

Seals(S) == \E s \in Sealing : s \subseteq S

\* The engine may decide the block that seals the epoch: the store's epoch is the next one.
ProcessSavedEvent ==
  /\ job.step = "engine" /\ Body[job.event].bad # "engine"
  /\ engine' = engine \cup {job.event}
  /\ store' = IF Seals(engine')
              THEN [store EXCEPT !.epoch = @ + 1, !.upgrade = @ \/ store.epoch + 1 = UpgradeEpoch]
              ELSE store
  /\ job' = [job EXCEPT !.step = "index"]
  /\ UNCHANGED <<disk, index, ctx, queue, buffer, task, clears, sent, dropped, crashes>>

ProcessEventHeads(heads, e) == (heads \ Body[e].parents) \cup {e}

ProcessLastEvent(lasts, e) ==
  [c \in DOMAIN lasts \cup {Body[e].creator} |-> IF c = Body[e].creator THEN e ELSE lasts[c]]

\* processEventEpochIndex. The index that is there is that of the old epoch.
Indexed(d, i, e, new) ==
  [index |-> [i EXCEPT !.heads = ProcessEventHeads(@, e), !.lasts = ProcessLastEvent(@, e)],
   lamport |-> IF new # Body[e].epoch THEN 0
               ELSE IF Body[e].lamport > d THEN Body[e].lamport ELSE d]

ProcessEventEpochIndex ==
  /\ job.step = "index"
  /\ LET r == Indexed(store.lamport, index, job.event, store.epoch)
     IN index' = r.index /\ store' = [store EXCEPT !.lamport = r.lamport]
  /\ job' = [job EXCEPT !.step = IF store.epoch # job.old THEN "switch" ELSE "commit"]
  /\ UNCHANGED <<disk, engine, ctx, queue, buffer, task, clears, sent, dropped, crashes>>

\* switchEpochTo, up to the reader of the gas power check
SwitchEpochTo ==
  /\ job.step = "switch"
  /\ store' = [store EXCEPT !.lamport = 0]
  /\ index' = NoIndex(store.epoch)
  /\ engine' = {}
  /\ ctx' = [ctx EXCEPT !.gas = store.epoch]
  /\ job' = [job EXCEPT !.step = "keys"]
  /\ UNCHANGED <<disk, queue, buffer, task, clears, sent, dropped, crashes>>

NotifyNoKeys ==  \* mutant: the reader of the heavy check stays in the old epoch
  /\ job.step = "keys"
  /\ clears' = clears + 1
  /\ job' = [job EXCEPT !.step = "commit"]
  /\ UNCHANGED <<store, disk, index, engine, ctx, queue, buffer, task, sent, dropped, crashes>>

\* ... and the rest of it
Notify ==
  /\ job.step = "keys"
  /\ ctx' = [ctx EXCEPT !.keys = store.epoch]
  /\ clears' = clears + 1
  /\ job' = [job EXCEPT !.step = "commit"]
  /\ UNCHANGED <<store, disk, index, engine, queue, buffer, task, sent, dropped, crashes>>

\* mayCommit: when enough has changed, and always with a sealed epoch
MayCommit(sealed) == disk' = store \/ (~sealed /\ disk' = disk)

\* Peers are sent the event, or told of it.
EndEvent ==
  /\ job.step = "commit"
  /\ MayCommit(store.epoch # job.old)
  /\ job' = Idle
  /\ sent' = IF job.by = "emitter" THEN sent \cup {job.event} ELSE sent
  /\ task' = IF job.by = "emitter" THEN task
             ELSE [step |-> "children", done |-> task.done \cup {job.event}]
  /\ UNCHANGED <<store, index, engine, ctx, queue, buffer, clears, dropped, crashes>>

CommitUnlocked ==  \* mutant: the flusher does not take engineMu
  /\ disk # store
  /\ disk' = store
  /\ UNCHANGED <<store, index, engine, ctx, queue, buffer, task, job, clears, sent, dropped, crashes>>

\* PeriodicFlusher, and the commits of processed votes
Commit ==
  /\ job = Idle /\ disk # store
  /\ disk' = store
  /\ UNCHANGED <<store, index, engine, ctx, queue, buffer, task, job, clears, sent, dropped, crashes>>

----------------------------------------------------------------------------
(* Restart *)

\* ReprocessEpochEvents of the epoch's saved events, in the order of their IDs, with no block
\* processed
Reprocessed(d) ==
  MapThenFoldSet(LAMBDA e, r : Indexed(r.lamport, r.index, e, d.epoch),
                 [index |-> NoIndex(d.epoch), lamport |-> d.lamport],
                 LAMBDA e : e, Max,  \* the last one
                 InEpoch(d.saved, d.epoch))

CrashKeepsIndex ==  \* mutant: the epoch's databases survive a restart that lost events
  /\ crashes < MaxCrashes
  /\ crashes' = crashes + 1
  /\ store' = disk
  /\ ctx' = [gas |-> disk.epoch, keys |-> disk.epoch]
  /\ queue' = <<>> /\ buffer' = {} /\ task' = Idle /\ job' = Idle /\ clears' = 0
  /\ dropped' = {}
  /\ UNCHANGED <<disk, index, engine, sent>>

Crash ==
  /\ crashes < MaxCrashes
  /\ crashes' = crashes + 1
  /\ LET r == Reprocessed(disk)
     IN index' = r.index /\ store' = [disk EXCEPT !.lamport = r.lamport]
  /\ engine' = InEpoch(disk.saved, disk.epoch)
  /\ ctx' = [gas |-> disk.epoch, keys |-> disk.epoch]
  /\ queue' = <<>> /\ buffer' = {} /\ task' = Idle /\ job' = Idle /\ clears' = 0
  /\ dropped' = {}  \* they connect again
  /\ UNCHANGED <<disk, sent>>

----------------------------------------------------------------------------
Peer == Honest \cup Faulty

JobStep ==
  ProcessSavedFails \/ ProcessSavedEvent \/ ProcessEventEpochIndex \/ SwitchEpochTo \/ Notify \/ EndEvent

Next ==
  \/ \E p \in Peer, e \in Event : HandleEvents(p, e)
  \/ \E i \in DOMAIN queue : HeavyCheck(i)
  \/ Insert \/ PushChild \/ Clear \/ Process
  \/ \E e \in Own : Emit(e)
  \/ JobStep \/ Commit \/ Crash

Spec == Init /\ [][Next]_vars

\* Goroutines go on, and honest peers offer what the node has not connected again and again: it
\* is asked for as a missing parent and by the stream of the epoch's events.
FairSpec ==
  /\ Spec
  /\ WF_vars(HeavyCheck(1)) /\ WF_vars(Insert) /\ WF_vars(PushChild)
  /\ WF_vars(Clear) /\ SF_vars(Process) /\ WF_vars(JobStep)
  /\ \A e \in {f \in Event : Valid(f)} : SF_vars(\E p \in Honest : HandleEvents(p, e))

----------------------------------------------------------------------------
(* Properties *)

\* Types; an inserter that is in processEvent, and nobody else, has the job.
TypeOK ==
  /\ store.saved \subseteq Event /\ disk.saved \subseteq Event
  /\ store.epoch - disk.epoch \in 0 .. 1 /\ store.lamport \in Nat
  /\ index.epoch \in {store.epoch, store.epoch - 1}
  /\ ctx.keys <= ctx.gas /\ ctx.gas <= store.epoch
  /\ engine \subseteq store.saved
  /\ Len(queue) <= QueueLimit
  /\ \A x \in buffer : x.event \in Event /\ x.peer \in Peer
  /\ job # Idle /\ job.by = "inserter" => task.step = "process" /\ task.x.event = job.event
  /\ clears \in Nat /\ sent \subseteq Own /\ dropped \subseteq Peer /\ crashes \in 0 .. MaxCrashes

\* Between two events, and after a restart whatever it lost, the index is that of the epoch's
\* saved events: heads are those without a child, the last of a creator that did not fork is its
\* highest; the engine has them all, with their parents, none of them wrong; the readers of the
\* checks are in the epoch.
Right(n, S) ==
  /\ engine = S /\ index.epoch = n /\ ctx = [gas |-> n, keys |-> n]
  /\ \A e \in S : Valid(e) /\ Body[e].parents \subseteq S
  /\ index.heads = {e \in S : \A f \in S : e \notin Body[f].parents}
  /\ DOMAIN index.lasts = {Body[e].creator : e \in S}
  /\ \A c \in DOMAIN index.lasts :
       LET of == {e \in S : Body[e].creator = c}
       IN \/ index.lasts[c] = Max(of)
          \/ /\ index.lasts[c] \in of
             /\ \E e, f \in of : e # f /\ Body[e].parents \cap of = Body[f].parents \cap of
  /\ store.lamport = Max({0} \cup {Body[e].lamport : e \in S})

\* And a crash never leaves events that should have sealed the epoch they are in, which the
\* reprocessing, as it ignores blocks, would not make up for.
IndexRight ==
  /\ job = Idle => Right(store.epoch, InEpoch(store.saved, store.epoch))
  /\ ~Seals(InEpoch(disk.saved, disk.epoch))

\* A peer that has sent valid events only is not removed, however its events meet the sealing of
\* an epoch, each other, or the emitter's; unless the node waits for an upgrade.
OnlyFaultyDropped == ~store.upgrade => dropped \subseteq Faulty

\* Whatever is dropped on the way (by Clear, by readers that are behind, above the highest
\* Lamport time), an event that honest peers have is connected, or its epoch ends, or the node
\* waits for an upgrade.
Connects(e) ==
  (store.epoch = Body[e].epoch /\ ~store.upgrade /\ e \notin store.saved)
     ~> (e \in store.saved \/ store.epoch # Body[e].epoch \/ store.upgrade)

EventsConnect == \A e \in {f \in Event \ Own : Valid(f)} : Connects(e)
=============================================================================
