------------------------------ MODULE SnapSync ------------------------------
(***************************************************************************)
(* How a node that is far behind, or has no EVM state, becomes one that    *)
(* processes events: gossip/sync.go.                                       *)
(*                                                                         *)
(* The stage loop ticks every 200 ms: it sets the stage, ends the snapsync *)
(* when an epoch above the head has all that a switch to it needs, and     *)
(* pushes the last epoch with a record to the state loop. The state loop   *)
(* keeps one download of an EVM state going, that of the last epoch pushed *)
(* to it, and disables the EVM snapshot before it starts one. They talk    *)
(* through the bounded channel updatesCh and, for a cancel, through an     *)
(* unbuffered channel on which the tick waits for the state loop's answer. *)
(*                                                                         *)
(* handler.Start makes the first tick itself, before it starts the loops;  *)
(* handler.Stop closes quit and waits for both.                            *)
(*                                                                         *)
(* config.AllowSnapsync is set; without it the stage is never ssSnaps.     *)
(* Ages are differences to the epoch the network is in. The EVM snapshot   *)
(* (go-ethereum's snapshot.Tree) and the download (snapleecher) are        *)
(* modelled by what the stages can see of them.                            *)
(***************************************************************************)
EXTENDS Integers, Sequences

CONSTANTS
  MaxEpoch,      \* bound: the last epoch the network makes
  MaxStartAge,   \* snapsyncMaxStartAge: a state not older than this is worth downloading
  MinEndAge,     \* snapsyncMinEndAge: a head older than this is worth a snapsync
  SwitchSpan,    \* the epochs below the lowest unfilled one that a tick tries
  UpdatesCap,    \* the capacity of updatesCh
  FreshGenesis   \* whether a node without EVM state may start in a recent epoch

Epoch == 1 .. MaxEpoch

ASSUME SnapSyncAssumption ==
  /\ MaxEpoch \in Nat \ {0}
  /\ MaxStartAge \in Nat /\ MinEndAge \in Nat /\ MaxStartAge <= MinEndAge
  /\ SwitchSpan \in Nat \ {0}
  /\ UpdatesCap \in Nat \ {0}
  /\ FreshGenesis \in BOOLEAN

VARIABLES
  netEpoch,  \* the epoch the network is in: the clock
  head,      \* Store.GetEpoch
  filled,    \* LowestEpochToFill - 1, and the last epoch below whose start all blocks are filled
  roots,     \* epochs whose EVM state is there: HasStateDB of their root
  snapshot,  \* the EVM snapshot: "ready", "generating" or "disabled"
  stage,     \* syncStatus
  updates,   \* updatesCh: epochs to download, 0 stands for a cancel
  tick,      \* the stage loop, or Start: what it does next
  loop,      \* the state loop: what it does next
  wanted,    \* snapState.epoch
  download,  \* the epoch whose state is being downloaded, or 0
  quit       \* handler.Stop has closed quit

vars == <<netEpoch, head, filled, roots, snapshot, stage, updates, tick, loop, wanted, download,
          quit>>

world == <<netEpoch, head, filled, roots, snapshot>>

Cancel == 0

Age(e) == netEpoch - e

Generating == snapshot = "generating"   \* Snaps.Generating: a disabled one is not

----------------------------------------------------------------------------
(* The tick *)

Between == [step |-> "between"]

Quit == [step |-> "quit"]

Starting == loop.step = "off"

\* Where a tick ends: back in the stage loop, which Start starts together with the state loop.
EndTick == tick' = Between /\ loop' = (IF Starting THEN [step |-> "select"] ELSE loop)

SnapsyncPossibleAgain ==  \* mutant: only fullsync itself is not given up
  stage # "events"

SnapsyncPossible == stage \in {"unknown", "snaps"}

SnapsyncNeeded == head \notin roots \/ Age(head) > MinEndAge

\* updateSnapsyncStage
NewStage ==
  CASE SnapsyncPossible /\ SnapsyncNeeded -> "snaps"
    [] ~(SnapsyncPossible /\ SnapsyncNeeded) /\ Generating -> "gen"
    [] ~(SnapsyncPossible /\ SnapsyncNeeded) /\ ~Generating /\ head \in roots -> "events"
    [] OTHER -> stage

\* The tick up to its loop over the epochs to end at; GetLlrState is read once.
BeginTick ==
  /\ tick.step \in {"start", "between"}
  /\ stage' = NewStage
  /\ IF stage' = "snaps"
       THEN tick' = [step |-> "try", back |-> 0, filled |-> filled] /\ UNCHANGED loop
       ELSE EndTick
  /\ UNCHANGED <<world, updates, wanted, download, quit>>

Candidate == tick.filled.epoch - tick.back

\* The conditions under which a snapsync ends at the candidate.
MayEndAt(e) ==
  /\ e > head
  /\ e \in roots
  /\ tick.filled.block >= e
  /\ Age(e) <= MinEndAge

OnwardPast ==  \* mutant: one candidate too many
  IF tick.back < SwitchSpan
    THEN [tick EXCEPT !.step = "try", !.back = @ + 1]
    ELSE [tick EXCEPT !.step = "push"]

Onward == IF tick.back + 1 < SwitchSpan
            THEN [tick EXCEPT !.step = "try", !.back = @ + 1]
            ELSE [tick EXCEPT !.step = "push"]

SkipCandidate ==
  /\ tick.step = "try"
  /\ ~MayEndAt(Candidate)
  /\ tick' = Onward
  /\ UNCHANGED <<world, stage, updates, loop, wanted, download, quit>>

SendNoCancel ==  \* mutant: the snapsync is not cancelled before the switch
  /\ tick.step = "try"
  /\ MayEndAt(Candidate)
  /\ tick' = [tick EXCEPT !.step = "switch"]
  /\ UNCHANGED <<world, stage, updates, loop, wanted, download, quit>>

\* The cancel is sent; the tick waits for the answer. No room in the channel: it waits here.
SendCancel ==
  /\ tick.step = "try"
  /\ MayEndAt(Candidate)
  /\ Len(updates) < UpdatesCap
  /\ updates' = Append(updates, Cancel)
  /\ tick' = [tick EXCEPT !.step = "answer"]
  /\ UNCHANGED <<world, stage, loop, wanted, download, quit>>

SwitchNotRebuilding ==  \* mutant: the snapshot stays as the snapsync has left it
  /\ tick.step = "switch"
  /\ head' = Candidate
  /\ stage' = "gen"
  /\ tick' = Onward
  /\ UNCHANGED <<netEpoch, filled, roots, snapshot, updates, loop, wanted, download, quit>>

\* SwitchEpochTo: the snapshot is rebuilt at the new head. The engine's reset does not fail.
SwitchEpochTo ==
  /\ tick.step = "switch"
  /\ IF Candidate = head                       \* errSameEpoch
       THEN UNCHANGED <<head, snapshot, stage>>
       ELSE /\ head' = Candidate
            /\ snapshot' = "generating"
            /\ stage' = "gen"
  /\ tick' = Onward
  /\ UNCHANGED <<netEpoch, filled, roots, updates, loop, wanted, download, quit>>

\* The last epoch with a record is pushed if the snapsync goes on and it is recent.
Push ==
  /\ tick.step = "push"
  /\ IF stage = "snaps" /\ Age(tick.filled.epoch) < MaxStartAge
       THEN Len(updates) < UpdatesCap /\ updates' = Append(updates, tick.filled.epoch)
       ELSE UNCHANGED updates
  /\ EndTick
  /\ UNCHANGED <<world, stage, wanted, download, quit>>

QuitStageLoop ==
  /\ quit
  /\ tick = Between
  /\ tick' = Quit
  /\ UNCHANGED <<world, stage, updates, loop, wanted, download, quit>>

----------------------------------------------------------------------------
(* The state loop *)

TakesUpdate(u) == loop.step = "select" /\ updates # <<>> /\ u = Head(updates)

\* An update with an epoch that is not above the last one is ignored.
TakeOldEpoch ==
  /\ \E e \in Epoch : TakesUpdate(e) /\ wanted >= e
  /\ updates' = Tail(updates)
  /\ UNCHANGED <<world, stage, tick, loop, wanted, download, quit>>

\* A new epoch: the old download is cancelled.
TakeEpoch ==
  /\ \E e \in Epoch : TakesUpdate(e) /\ wanted < e /\ wanted' = e
  /\ updates' = Tail(updates)
  /\ download' = 0
  /\ loop' = [step |-> "sync"]
  /\ UNCHANGED <<world, stage, tick, quit>>

\* PauseEvmSnapshot, which waits for engineMu, and SyncState.
StartDownload ==
  /\ loop.step = "sync"
  /\ snapshot' = "disabled"
  /\ download' = wanted
  /\ loop' = [step |-> "select"]
  /\ UNCHANGED <<netEpoch, head, filled, roots, stage, updates, tick, wanted, quit>>

\* A cancel: done is sent to the tick, which is there to receive it.
TakeCancel ==
  /\ TakesUpdate(Cancel)
  /\ tick.step = "answer"
  /\ updates' = Tail(updates)
  /\ download' = 0
  /\ tick' = [tick EXCEPT !.step = "switch"]
  /\ UNCHANGED <<world, stage, loop, wanted, quit>>

QuitStateLoop ==
  /\ quit
  /\ loop.step = "select"
  /\ download' = 0
  /\ loop' = Quit
  /\ UNCHANGED <<world, stage, updates, tick, wanted, quit>>

----------------------------------------------------------------------------
(* The world *)

NextEpoch ==
  /\ netEpoch < MaxEpoch
  /\ netEpoch' = netEpoch + 1
  /\ UNCHANGED <<head, filled, roots, snapshot, stage, updates, tick, loop, wanted, download, quit>>

\* The processors of records and events run while the handler does.
Processing == ~Starting /\ ~quit

\* LlrRecords: records come in order and not beyond the network.
Fill ==
  /\ Processing
  /\ \E k \in {"epoch", "block"} : /\ filled[k] < netEpoch
                                   /\ filled' = [filled EXCEPT ![k] = @ + 1]
  /\ UNCHANGED <<netEpoch, head, roots, snapshot, stage, updates, tick, loop, wanted, download, quit>>

FinishDownload ==
  /\ download # 0
  /\ roots' = roots \cup {download}
  /\ download' = 0
  /\ UNCHANGED <<netEpoch, head, filled, snapshot, stage, updates, tick, loop, wanted, quit>>

\* A download gives up when peers no longer have its state, as they do for a past epoch.
FailDownload ==
  /\ download # 0
  /\ download < netEpoch
  /\ download' = 0
  /\ UNCHANGED <<world, stage, updates, tick, loop, wanted, quit>>

FinishGenerating ==
  /\ Generating
  /\ snapshot' = "ready"
  /\ UNCHANGED <<netEpoch, head, filled, roots, stage, updates, tick, loop, wanted, download, quit>>

Larger(m, n) == IF m < n THEN n ELSE m

\* processEvent, of events up to the end of the epoch: refused while the snapshot is not ready.
ProcessEvents ==
  /\ Processing
  /\ stage = "events"
  /\ snapshot = "ready"                        \* or else errDirtyEvmSnap
  /\ head < netEpoch
  /\ head' = head + 1
  /\ roots' = roots \cup {head'}
  /\ filled' = [k \in {"epoch", "block"} |-> Larger(filled[k], head')]
  /\ UNCHANGED <<netEpoch, snapshot, stage, updates, tick, loop, wanted, download, quit>>

\* handler.Stop, once Start has returned.
Stop ==
  /\ ~Starting
  /\ ~quit
  /\ quit' = TRUE
  /\ UNCHANGED <<world, stage, updates, tick, loop, wanted, download>>

----------------------------------------------------------------------------
\* Where an earlier run or the genesis has left the node. It may have been in the midst of a
\* snapsync, which has disabled the snapshot and may have downloaded states above the head;
\* otherwise it has the head's state, or nothing but the genesis.
Init ==
  /\ netEpoch \in Epoch
  /\ head \in 1 .. netEpoch
  /\ filled \in [{"epoch", "block"} -> head .. netEpoch]
  /\ roots \in SUBSET (head .. netEpoch)
  /\ snapshot \in {"ready", "generating", "disabled"}
  /\ snapshot = "ready" => head \in roots
  /\ snapshot = "disabled" => head \notin roots \/ Age(head) > MinEndAge
  /\ snapshot # "disabled" => roots \subseteq {head}
  /\ head \notin roots => FreshGenesis \/ Age(head) >= MaxStartAge
  /\ stage = "unknown"
  /\ updates = <<>>
  /\ tick = [step |-> "start"]
  /\ loop = [step |-> "off"]
  /\ wanted = 0
  /\ download = 0
  /\ quit = FALSE

Tick == BeginTick \/ SkipCandidate \/ SendCancel \/ SwitchEpochTo \/ Push

StateLoop == TakeOldEpoch \/ TakeEpoch \/ StartDownload \/ TakeCancel

Quitting == QuitStageLoop \/ QuitStateLoop

World ==
  NextEpoch \/ Fill \/ FinishDownload \/ FailDownload \/ FinishGenerating \/ ProcessEvents

Next == Tick \/ StateLoop \/ Quitting \/ World \/ Stop

Spec == Init /\ [][Next]_vars

\* The ticker, the goroutines, the peers and the generation of the snapshot keep going.
\* Select takes quit sooner or later, although updates are ready as well.
FairSpec ==
  /\ Spec
  /\ WF_vars(Tick) /\ WF_vars(StateLoop)
  /\ SF_vars(QuitStageLoop) /\ SF_vars(QuitStateLoop)
  /\ WF_vars(NextEpoch) /\ WF_vars(Fill) /\ WF_vars(FinishDownload) /\ WF_vars(FinishGenerating)
----------------------------------------------------------------------------
(* Properties *)

\* Every variable has its type.
TypeOK ==
  /\ netEpoch \in Epoch /\ head \in Epoch
  /\ filled \in [{"epoch", "block"} -> Epoch]
  /\ roots \subseteq Epoch
  /\ snapshot \in {"ready", "generating", "disabled"}
  /\ stage \in {"unknown", "snaps", "gen", "events"}
  /\ updates \in Seq(Epoch \cup {Cancel}) /\ Len(updates) <= UpdatesCap
  /\ tick \in {[step |-> "start"], Between, Quit}
              \cup [step : {"try", "answer", "switch", "push"}, back : 0 .. SwitchSpan - 1,
                    filled : [{"epoch", "block"} -> Epoch]]
  /\ loop.step \in {"off", "select", "sync", "quit"}
  /\ wanted \in 0 .. MaxEpoch /\ download \in 0 .. MaxEpoch
  /\ quit \in BOOLEAN

\* "Never allow fullsync while EVM snap is still generating", and never a download beside
\* either of them: out of a snapsync, and while it is being ended, no state is downloaded
\* and none is about to be, and fullsync never meets a disabled snapshot, which refuses
\* events for good (updateSnapsyncStage, snapsyncStageTick, processEvent). It needs
\* ~FreshGenesis: otherwise the downloaded state can be the head's own, and the stage
\* leaves ssSnaps without a cancel.
FullsyncAlone ==
  stage \in {"gen", "events"} \/ tick.step = "switch" =>
    /\ download = 0 /\ loop.step # "sync"
    /\ \A i \in 1 .. Len(updates) : updates[i] = Cancel
    /\ stage # "snaps" => snapshot # "disabled" /\ head \in roots

\* While a state is downloaded the snapshot is disabled: the download writes to the same
\* tables as its generation would (PauseEvmSnapshot before SyncState, the cancel before
\* SwitchEpochTo).
DownloadPausesSnapshot == download # 0 => snapshot = "disabled"

\* Fullsync, downloads and the EVM snapshot keep out of each other's way.
StagesApart == FullsyncAlone /\ DownloadPausesSnapshot

\* A stage that has left ssSnaps never comes back to it, whatever the ages and the EVM
\* state do meanwhile: "thus not allow ssSnaps ever again" (snapsyncStageTick).
NeverSnapsAgain ==
  [][(stage \in {"gen", "events"}) => (stage' \in {"gen", "events"})]_vars

\* A node that has started gets to process events, as long as it is not stopped.
ReachesFullsync ==
  (~Starting /\ ~quit) ~> (quit \/ (stage = "events" /\ snapshot = "ready"))

\* handler.Start returns: its peers "wait until handler has started" (MakeProtocols in
\* service.go). Refuted: the tick that Start makes cancels a snapsync that an earlier run
\* had finished, and nobody is there yet to answer.
StartReturns == <>~Starting

\* handler.Stop returns: it waits "for the subscription loops to come down" (handler.go).
\* Refuted: the state loop takes quit while the tick waits for its answer.
StopReturns == quit ~> (tick = Quit /\ loop = Quit)

\* Both: each time the stage loop waits for an answer that nobody is going to give.
StartAndStopReturn == StartReturns /\ StopReturns
=============================================================================
