--------------------------- MODULE SnapSyncProofs ---------------------------
(***************************************************************************)
(* Proofs about SnapSync: its types, that a download never runs beside an  *)
(* enabled EVM snapshot, that a snapsync never comes back, and, for a node *)
(* that does not start from a fresh genesis, that fullsync runs alone.     *)
(***************************************************************************)
EXTENDS SnapSync, TLAPS

\* The steps at which a tick carries the epochs it has read.
Job == [step : {"try", "answer", "switch", "push"}, back : 0 .. SwitchSpan - 1,
        filled : [{"epoch", "block"} -> Epoch]]

\* A tick only ends a snapsync at an epoch that exists.
TypeInv ==
  /\ TypeOK
  /\ tick.step \in {"answer", "switch"} => Candidate \in Epoch

LEMMA JobFacts ==
  ASSUME TypeOK, tick.step \in {"try", "answer", "switch", "push"}
  PROVE  /\ tick \in Job
         /\ tick.back \in Nat /\ tick.filled.epoch \in Epoch /\ Candidate \in Int
         /\ \A s \in {"try", "answer", "switch", "push"} :
              /\ [tick EXCEPT !.step = s] \in Job
              /\ [tick EXCEPT !.step = s].step = s
              /\ [tick EXCEPT !.step = s].back = tick.back
              /\ [tick EXCEPT !.step = s].filled = tick.filled
<1>1. tick \in Job
  BY DEF TypeOK, Job, Between, Quit
<1>2. tick.filled.epoch \in Epoch /\ tick.filled.epoch \in Int /\ tick.back \in Nat
  BY <1>1, SnapSyncAssumption DEF Job, Epoch
<1> QED BY <1>1, <1>2 DEF Candidate, Job

\* Onward tries the next candidate, which is one below, or goes on to the push.
LEMMA OnwardFacts ==
  ASSUME TypeOK, tick.step \in {"try", "switch"}
  PROVE  /\ Onward \in Job
         /\ Onward.step \in {"try", "push"}
         /\ Onward.filled = tick.filled
         /\ Onward.step = "try" => Onward.back = tick.back + 1
<1>1. tick \in Job
  BY JobFacts
<1>2. tick.back + 1 < SwitchSpan => tick.back + 1 \in 0 .. SwitchSpan - 1
  BY <1>1, SnapSyncAssumption DEF Job
<1> QED BY <1>1, <1>2 DEF Job, Onward

LEMMA EndTickType ==
  ASSUME TypeOK, EndTick
  PROVE  /\ tick' = Between /\ tick'.step = "between"
         /\ loop'.step \in {"off", "select", "sync", "quit"}
         /\ loop'.step = "sync" => loop.step = "sync"
BY DEF EndTick, TypeOK, Between, Starting

LEMMA InitType == Init => TypeInv
<1> SUFFICES ASSUME Init PROVE TypeInv
  OBVIOUS
<1>1. netEpoch \in Epoch /\ head \in Epoch /\ head .. netEpoch \subseteq Epoch
  BY SnapSyncAssumption DEF Init, Epoch
<1>2. filled \in [{"epoch", "block"} -> Epoch] /\ roots \subseteq Epoch
  BY <1>1 DEF Init
<1>3. updates \in Seq(Epoch \cup {Cancel}) /\ Len(updates) <= UpdatesCap
  BY SnapSyncAssumption DEF Init
<1>4. wanted \in 0 .. MaxEpoch /\ download \in 0 .. MaxEpoch
  BY SnapSyncAssumption DEF Init
<1> QED BY <1>1, <1>2, <1>3, <1>4 DEF Init, TypeInv, TypeOK

\* What an update leaves in the channel.
LEMMA UpdatesFacts ==
  ASSUME TypeOK
  PROVE  /\ Len(updates) \in Nat
         /\ \A u \in Epoch \cup {Cancel} :
              /\ Append(updates, u) \in Seq(Epoch \cup {Cancel})
              /\ Len(Append(updates, u)) = Len(updates) + 1
         /\ updates # <<>> => /\ Tail(updates) \in Seq(Epoch \cup {Cancel})
                              /\ Len(Tail(updates)) = Len(updates) - 1
                              /\ Head(updates) = updates[1]
BY DEF TypeOK

LEMMA NextType == ASSUME TypeInv, [Next]_vars PROVE TypeInv'
<1> USE DEF TypeInv
<1>1. CASE BeginTick
  <2>1. NewStage \in {"unknown", "snaps", "gen", "events"}
    BY DEF NewStage, TypeOK
  <2>2. CASE stage' = "snaps"
    <3>1. tick' = [step |-> "try", back |-> 0, filled |-> filled] /\ loop' = loop
      BY <1>1, <2>2 DEF BeginTick
    <3>2. tick' \in Job /\ tick'.step = "try"
      BY <3>1, SnapSyncAssumption DEF Job, TypeOK
    <3> QED BY <1>1, <2>1, <3>1, <3>2 DEF BeginTick, world, TypeOK, Job
  <2>3. CASE stage' # "snaps"
    <3>1. EndTick
      BY <1>1, <2>3 DEF BeginTick
    <3> QED BY <1>1, <2>1, <3>1, EndTickType DEF BeginTick, world, TypeOK
  <2> QED BY <2>2, <2>3
<1>2. CASE SkipCandidate
  <2>1. tick' \in Job /\ tick'.step \in {"try", "push"}
    BY <1>2, OnwardFacts DEF SkipCandidate
  <2> QED BY <1>2, <2>1 DEF SkipCandidate, world, TypeOK, Job
<1>3. CASE SendCancel
  <2>1. tick' \in Job /\ tick'.step = "answer" /\ Candidate' = Candidate
    BY <1>3, JobFacts DEF SendCancel, Candidate
  <2>2. Candidate \in Epoch
    BY <1>3 DEF SendCancel, MayEndAt, TypeOK
  <2>3. updates' \in Seq(Epoch \cup {Cancel}) /\ Len(updates') <= UpdatesCap
    BY <1>3, UpdatesFacts, SnapSyncAssumption DEF SendCancel
  <2> QED BY <1>3, <2>1, <2>2, <2>3 DEF SendCancel, world, TypeOK, Job
<1>4. CASE SwitchEpochTo
  <2>1. tick' \in Job /\ tick'.step \in {"try", "push"}
    BY <1>4, OnwardFacts DEF SwitchEpochTo
  <2> QED BY <1>4, <2>1 DEF SwitchEpochTo, TypeOK, Job
<1>5. CASE Push
  <2>1. tick.filled.epoch \in Epoch
    BY <1>5, JobFacts DEF Push
  <2>2. updates' \in Seq(Epoch \cup {Cancel}) /\ Len(updates') <= UpdatesCap
    BY <1>5, <2>1, UpdatesFacts, SnapSyncAssumption DEF Push, TypeOK
  <2> QED BY <1>5, <2>2, EndTickType DEF Push, world, TypeOK
<1>6. CASE QuitStageLoop
  BY <1>6 DEF QuitStageLoop, world, TypeOK, Quit
<1>7. CASE TakeOldEpoch
  <2>1. updates' \in Seq(Epoch \cup {Cancel}) /\ Len(updates') <= UpdatesCap
    BY <1>7, UpdatesFacts, SnapSyncAssumption DEF TakeOldEpoch, TakesUpdate, TypeOK
  <2> QED BY <1>7, <2>1 DEF TakeOldEpoch, world, TypeOK, Candidate
<1>8. CASE TakeEpoch
  <2>1. updates' \in Seq(Epoch \cup {Cancel}) /\ Len(updates') <= UpdatesCap
    BY <1>8, UpdatesFacts, SnapSyncAssumption DEF TakeEpoch, TakesUpdate, TypeOK
  <2>2. wanted' \in 0 .. MaxEpoch /\ download' \in 0 .. MaxEpoch
    BY <1>8, SnapSyncAssumption DEF TakeEpoch, Epoch
  <2> QED BY <1>8, <2>1, <2>2 DEF TakeEpoch, world, TypeOK, Candidate
<1>9. CASE StartDownload
  BY <1>9 DEF StartDownload, TypeOK, Candidate
<1>10. CASE TakeCancel
  <2>1. updates' \in Seq(Epoch \cup {Cancel}) /\ Len(updates') <= UpdatesCap
    BY <1>10, UpdatesFacts, SnapSyncAssumption DEF TakeCancel, TakesUpdate, TypeOK
  <2>2. tick' \in Job /\ Candidate' = Candidate
    BY <1>10, JobFacts DEF TakeCancel, Candidate
  <2>3. download' \in 0 .. MaxEpoch
    BY <1>10, SnapSyncAssumption DEF TakeCancel
  <2> QED BY <1>10, <2>1, <2>2, <2>3 DEF TakeCancel, world, TypeOK, Job
<1>11. CASE QuitStateLoop
  <2>1. download' \in 0 .. MaxEpoch
    BY <1>11, SnapSyncAssumption DEF QuitStateLoop
  <2> QED BY <1>11, <2>1 DEF QuitStateLoop, world, TypeOK, Quit, Candidate
<1>12. CASE NextEpoch
  BY <1>12, SnapSyncAssumption DEF NextEpoch, TypeOK, Epoch, Candidate
<1>13. CASE Fill
  <2>1. PICK k \in {"epoch", "block"} :
          filled[k] < netEpoch /\ filled' = [filled EXCEPT ![k] = @ + 1]
    BY <1>13 DEF Fill
  <2>2. filled[k] \in Epoch /\ filled[k] + 1 \in Epoch
    BY <2>1, SnapSyncAssumption DEF TypeOK, Epoch
  <2>3. filled' \in [{"epoch", "block"} -> Epoch]
    BY <2>1, <2>2 DEF TypeOK
  <2> QED BY <1>13, <2>3 DEF Fill, TypeOK, Candidate
<1>14. CASE FinishDownload
  <2>1. download \in Epoch /\ 0 \in 0 .. MaxEpoch
    BY <1>14, SnapSyncAssumption DEF FinishDownload, TypeOK, Epoch
  <2> QED BY <1>14, <2>1 DEF FinishDownload, TypeOK, Candidate
<1>15. CASE FailDownload
  <2>1. 0 \in 0 .. MaxEpoch
    BY SnapSyncAssumption
  <2> QED BY <1>15, <2>1 DEF FailDownload, world, TypeOK, Candidate
<1>16. CASE FinishGenerating
  BY <1>16 DEF FinishGenerating, TypeOK, Candidate
<1>17. CASE ProcessEvents
  <2>1. head' \in Epoch
    BY <1>17, SnapSyncAssumption DEF ProcessEvents, TypeOK, Epoch
  <2>2. filled' \in [{"epoch", "block"} -> Epoch]
    BY <1>17, <2>1 DEF ProcessEvents, TypeOK, Larger
  <2> QED BY <1>17, <2>1, <2>2 DEF ProcessEvents, TypeOK, Candidate
<1>18. CASE Stop
  BY <1>18 DEF Stop, world, TypeOK, Candidate
<1>19. CASE UNCHANGED vars
  BY <1>19 DEF vars, TypeOK, Candidate
<1> QED BY <1>1, <1>2, <1>3, <1>4, <1>5, <1>6, <1>7, <1>8, <1>9, <1>10, <1>11, <1>12, <1>13,
           <1>14, <1>15, <1>16, <1>17, <1>18, <1>19
        DEF Next, Tick, StateLoop, Quitting, World

LEMMA SpecTypeInv == Spec => []TypeInv
BY InitType, NextType, PTL DEF Spec

\* Every variable has its type: above all, the node only switches to an epoch that exists
\* (Service.SwitchEpochTo finds its record) and the channel keeps its capacity.
THEOREM SpecTypeOK == Spec => []TypeOK
<1>1. TypeInv => TypeOK
  BY DEF TypeInv
<1> QED BY <1>1, SpecTypeInv, PTL

\* A stage that has left ssSnaps never comes back to it ("thus not allow ssSnaps ever
\* again"): updateSnapsyncStage only enters it from ssUnknown and from itself.
THEOREM SpecNeverSnapsAgain == Spec => NeverSnapsAgain
<1>1. ASSUME [Next]_vars, stage \in {"gen", "events"} PROVE stage' \in {"gen", "events"}
  <2>1. CASE BeginTick
    <3>1. ~SnapsyncPossible
      BY <1>1 DEF SnapsyncPossible
    <3> QED BY <1>1, <2>1, <3>1 DEF BeginTick, NewStage
  <2>2. CASE SwitchEpochTo
    BY <1>1, <2>2 DEF SwitchEpochTo
  <2>3. CASE stage' = stage
    BY <1>1, <2>3
  <2>4. BeginTick \/ SwitchEpochTo \/ stage' = stage
    BY <1>1 DEF Next, Tick, StateLoop, Quitting, World, vars, SkipCandidate, SendCancel, Push,
       QuitStageLoop, TakeOldEpoch, TakeEpoch, StartDownload, TakeCancel, QuitStateLoop,
       NextEpoch, Fill, FinishDownload, FailDownload, FinishGenerating, ProcessEvents, Stop
  <2> QED BY <2>1, <2>2, <2>3, <2>4
<1> QED BY <1>1, PTL DEF Spec, NeverSnapsAgain

----------------------------------------------------------------------------
(* The channel and the download *)

\* The state loop has no download and none is about to start.
NoDownload == download = 0 /\ loop.step # "sync" /\ updates = <<>>

\* There is a cancel in the channel only while the tick waits for its answer, and then it
\* is the last update; once it is answered nothing is left for the state loop to do.
ChannelInv ==
  /\ tick.step = "answer" =>
       /\ updates # <<>>
       /\ \A i \in 1 .. Len(updates) : updates[i] = Cancel <=> i = Len(updates)
  /\ tick.step # "answer" => \A i \in 1 .. Len(updates) : updates[i] # Cancel
  /\ tick.step = "switch" => NoDownload

LEMMA InitChannel == Init => ChannelInv
BY DEF Init, ChannelInv

LEMMA AppendElements ==
  ASSUME TypeOK, NEW u \in Epoch \cup {Cancel}
  PROVE  LET s == Append(updates, u)
         IN \A i \in 1 .. Len(s) : s[i] = IF i = Len(s) THEN u ELSE updates[i]
BY DEF TypeOK

LEMMA TailElements ==
  ASSUME TypeOK, updates # <<>>
  PROVE  \A i \in 1 .. Len(Tail(updates)) : /\ i + 1 \in 1 .. Len(updates)
                                           /\ Tail(updates)[i] = updates[i + 1]
BY DEF TypeOK

\* The state loop takes an epoch out of the channel and leaves the tick alone.
LEMMA TakeChannel ==
  ASSUME TypeInv, ChannelInv, updates # <<>>, updates[1] # Cancel, tick.step # "switch",
         updates' = Tail(updates), tick' = tick
  PROVE  ChannelInv'
<1>1. TypeOK /\ Len(updates) \in Nat /\ Len(updates) # 0
  BY UpdatesFacts DEF TypeInv, TypeOK
<1>2. Len(updates') = Len(updates) - 1
  BY <1>1, UpdatesFacts
<1>3. \A i \in 1 .. Len(updates') : i + 1 \in 1 .. Len(updates) /\ updates'[i] = updates[i + 1]
  BY <1>1, TailElements
<1>4. CASE tick.step = "answer"
  <2>1. Len(updates) # 1
    BY <1>1, <1>4 DEF ChannelInv
  <2>2. updates' # <<>>
    <3>1. Len(updates') # 0
      BY <1>1, <1>2, <2>1
    <3> QED BY <3>1
  <2>3. \A i \in 1 .. Len(updates') : updates'[i] = Cancel <=> i = Len(updates')
    <3> TAKE i \in 1 .. Len(updates')
    <3>1. i + 1 \in 1 .. Len(updates) /\ updates'[i] = updates[i + 1]
      BY <1>3
    <3>2. \A n \in 1 .. Len(updates) : updates[n] = Cancel <=> n = Len(updates)
      BY <1>4 DEF ChannelInv
    <3>3. PICK n \in 1 .. Len(updates) : n = i + 1
      BY <3>1
    <3>4. updates[n] = Cancel <=> n = Len(updates)
      BY <3>2
    <3>5. updates'[i] = Cancel <=> i + 1 = Len(updates)
      BY <3>1, <3>3, <3>4
    <3>6. i + 1 = Len(updates) <=> i = Len(updates')
      BY <1>1, <1>2
    <3> QED BY <3>5, <3>6
  <2> QED BY <1>4, <2>2, <2>3 DEF ChannelInv
<1>5. CASE tick.step # "answer"
  BY <1>3, <1>5 DEF ChannelInv
<1> QED BY <1>4, <1>5

LEMMA NextChannel == ASSUME TypeInv, ChannelInv, [Next]_vars PROVE ChannelInv'
<1>1. TypeOK /\ Len(updates) \in Nat /\ Len(<<>>) = 0
  BY UpdatesFacts DEF TypeInv
<1>2. ASSUME updates' = updates, tick' = tick, download' = download, loop' = loop
      PROVE  ChannelInv'
  BY <1>2 DEF ChannelInv, NoDownload
<1>3. ASSUME updates' = updates, tick'.step \notin {"answer", "switch"}, tick.step # "answer"
      PROVE  ChannelInv'
  BY <1>3 DEF ChannelInv
<1>4. CASE BeginTick
  <2>1. tick.step # "answer" /\ updates' = updates
    BY <1>4 DEF BeginTick
  <2>2. tick'.step \in {"try", "between"}
    BY <1>1, <1>4, EndTickType DEF BeginTick
  <2> QED BY <1>3, <2>1, <2>2
<1>5. CASE SkipCandidate
  <2>1. tick'.step \in {"try", "push"}
    BY <1>1, <1>5, OnwardFacts DEF SkipCandidate
  <2> QED BY <1>3, <1>5, <2>1 DEF SkipCandidate
<1>6. CASE SendCancel
  <2>1. tick'.step = "answer" /\ updates' = Append(updates, Cancel) /\ tick.step = "try"
    BY <1>1, <1>6, JobFacts DEF SendCancel
  <2>2. Len(updates') = Len(updates) + 1 /\ updates' # <<>>
    BY <1>1, <2>1, UpdatesFacts
  <2>3. \A i \in 1 .. Len(updates') :
          updates'[i] = IF i = Len(updates') THEN Cancel ELSE updates[i]
    BY <1>1, <2>1, AppendElements
  <2>4. \A i \in 1 .. Len(updates') : updates'[i] = Cancel <=> i = Len(updates')
    BY <1>1, <2>1, <2>2, <2>3 DEF ChannelInv
  <2> QED BY <2>1, <2>2, <2>4 DEF ChannelInv
<1>7. CASE SwitchEpochTo
  <2>1. tick'.step \in {"try", "push"}
    BY <1>1, <1>7, OnwardFacts DEF SwitchEpochTo
  <2> QED BY <1>3, <1>7, <2>1 DEF SwitchEpochTo
<1>8. CASE Push
  <2>1. tick'.step = "between" /\ tick.step = "push" /\ tick.filled.epoch \in Epoch
    BY <1>1, <1>8, EndTickType, JobFacts DEF Push
  <2>2. tick.filled.epoch # Cancel
    BY <2>1, SnapSyncAssumption DEF Epoch, Cancel
  <2>3. CASE updates' = updates
    BY <1>3, <2>1, <2>3
  <2>4. CASE updates' = Append(updates, tick.filled.epoch)
    <3>1. Len(updates') = Len(updates) + 1
      BY <1>1, <2>1, <2>4, UpdatesFacts
    <3>2. \A i \in 1 .. Len(updates') : updates'[i] # Cancel
      BY <1>1, <2>1, <2>2, <2>4, <3>1, AppendElements DEF ChannelInv
    <3> QED BY <2>1, <3>2 DEF ChannelInv
  <2> QED BY <1>8, <2>3, <2>4 DEF Push
<1>9. CASE QuitStageLoop
  BY <1>3, <1>9 DEF QuitStageLoop, Between, Quit
<1>10. CASE TakeOldEpoch \/ TakeEpoch
  <2>1. updates # <<>> /\ updates' = Tail(updates) /\ tick' = tick /\ Head(updates) \in Epoch
    BY <1>10 DEF TakeOldEpoch, TakeEpoch, TakesUpdate
  <2>2. updates[1] # Cancel /\ tick.step # "switch"
    <3>1. Head(updates) = updates[1]
      BY <1>1, <2>1, UpdatesFacts
    <3>2. Head(updates) # Cancel
      BY <2>1, SnapSyncAssumption DEF Epoch, Cancel
    <3>3. tick.step # "switch"
      BY <2>1 DEF ChannelInv, NoDownload
    <3> QED BY <3>1, <3>2, <3>3
  <2> QED BY <2>1, <2>2, TakeChannel
<1>11. CASE StartDownload
  BY <1>11 DEF StartDownload, ChannelInv, NoDownload
<1>12. CASE TakeCancel
  <2>1. /\ tick.step = "answer" /\ tick'.step = "switch" /\ updates # <<>>
        /\ updates' = Tail(updates) /\ updates[1] = Cancel /\ Len(updates) # 0
    <3>1. /\ tick.step = "answer" /\ tick'.step = "switch" /\ updates # <<>>
          /\ updates' = Tail(updates) /\ Head(updates) = Cancel
      BY <1>1, <1>12, JobFacts DEF TakeCancel, TakesUpdate
    <3>2. Len(updates) # 0
      BY <3>1 DEF TypeOK
    <3> QED BY <1>1, <3>1, <3>2, UpdatesFacts
  <2>2. Len(updates) = 1
    <3>1. 1 \in 1 .. Len(updates)
      BY <1>1, <2>1
    <3>2. updates[1] = Cancel <=> 1 = Len(updates)
      BY <2>1, <3>1 DEF ChannelInv
    <3> QED BY <2>1, <3>2
  <2>3. Len(updates') = 0 /\ updates' \in Seq(Epoch \cup {Cancel})
    BY <1>1, <2>1, <2>2, UpdatesFacts
  <2>4. updates' = <<>>
    BY <2>3
  <2>5. download' = 0 /\ loop'.step # "sync"
    BY <1>12 DEF TakeCancel, TakesUpdate
  <2> QED BY <2>1, <2>3, <2>4, <2>5 DEF ChannelInv, NoDownload
<1>13. CASE QuitStateLoop
  BY <1>13 DEF QuitStateLoop, ChannelInv, NoDownload, Quit
<1>14. CASE FinishDownload \/ FailDownload
  BY <1>14 DEF FinishDownload, FailDownload, world, ChannelInv, NoDownload
<1>15. CASE NextEpoch \/ Fill \/ FinishGenerating \/ ProcessEvents \/ Stop \/ UNCHANGED vars
  BY <1>2, <1>15 DEF NextEpoch, Fill, FinishGenerating, ProcessEvents, Stop, vars, world
<1> QED BY <1>4, <1>5, <1>6, <1>7, <1>8, <1>9, <1>10, <1>11, <1>12, <1>13, <1>14, <1>15
        DEF Next, Tick, StateLoop, Quitting, World

LEMMA SpecChannel == Spec => [](TypeInv /\ ChannelInv)
BY InitType, NextType, InitChannel, NextChannel, PTL DEF Spec

\* The download and the EVM snapshot write the same tables (PauseEvmSnapshot before
\* SyncState, the cancel before SwitchEpochTo): never both, from wherever the node starts.
THEOREM SpecDownloadPausesSnapshot == Spec => []DownloadPausesSnapshot
<1>1. Init => DownloadPausesSnapshot
  BY DEF Init, DownloadPausesSnapshot
<1>2. ASSUME TypeInv, ChannelInv, DownloadPausesSnapshot, [Next]_vars
      PROVE  DownloadPausesSnapshot'
  <2> USE DEF DownloadPausesSnapshot
  <2>1. CASE SwitchEpochTo
    BY <1>2, <2>1 DEF SwitchEpochTo, ChannelInv, NoDownload
  <2>2. CASE FinishGenerating
    BY <1>2, <2>2 DEF FinishGenerating, Generating
  <2>3. CASE StartDownload
    BY <2>3 DEF StartDownload
  <2>4. CASE snapshot' = snapshot /\ download' \in {0, download}
    BY <1>2, <2>4
  <2>5. SwitchEpochTo \/ FinishGenerating \/ StartDownload
        \/ (snapshot' = snapshot /\ download' \in {0, download})
    BY <1>2 DEF Next, Tick, StateLoop, Quitting, World, vars, world, BeginTick, SkipCandidate,
       SendCancel, Push, QuitStageLoop, TakeOldEpoch, TakeEpoch, TakeCancel, QuitStateLoop,
       NextEpoch, Fill, FinishDownload, FailDownload, ProcessEvents, Stop
  <2> QED BY <2>1, <2>2, <2>3, <2>4, <2>5
<1> QED BY <1>1, <1>2, SpecChannel, PTL DEF Spec

----------------------------------------------------------------------------
(* Fullsync *)

\* Until Start makes its tick nothing is under way, and it is known that what the tick
\* does not begin a snapsync for is there.
Waits ==
  /\ tick.step = "start" <=> stage = "unknown"
  /\ stage = "unknown" =>
       /\ NoDownload
       /\ snapshot = "disabled" => SnapsyncNeeded
       /\ head \notin roots => Age(head) >= MaxStartAge

\* A snapsync stays needed, because every state it may download is above the head.
Syncs ==
  stage = "snaps" =>
    /\ SnapsyncNeeded
    /\ Age(head) >= MaxStartAge
    /\ download # 0 => download > head
    /\ loop.step = "sync" => wanted > head
    /\ \A i \in 1 .. Len(updates) : updates[i] = Cancel \/ updates[i] > head

\* A tick ends a snapsync at an epoch above the head whose state is there.
Ends ==
  tick.step \in {"answer", "switch"} =>
    stage = "snaps" /\ Candidate > head /\ Candidate \in roots

\* After the snapsync nothing is under way and the head's state is there, and the tick
\* that has ended it finds no second epoch to switch to.
Runs ==
  stage \in {"gen", "events"} =>
    /\ NoDownload
    /\ snapshot # "disabled"
    /\ head \in roots
    /\ tick.step = "try" => Candidate < head

FullsyncInv == Waits /\ Syncs /\ Ends /\ Runs

LEMMA InitFullsync == ASSUME ~FreshGenesis PROVE Init => FullsyncInv
<1> SUFFICES ASSUME Init PROVE FullsyncInv
  OBVIOUS
<1> QED BY DEF Init, FullsyncInv, Waits, Syncs, Ends, Runs, NoDownload, SnapsyncNeeded

\* The ages are integers.
LEMMA NumberFacts ==
  ASSUME TypeOK
  PROVE  /\ netEpoch \in Int /\ head \in Int /\ download \in Int /\ wanted \in Int
         /\ Age(head) \in Int /\ MaxStartAge \in Int /\ MinEndAge \in Int
         /\ MaxStartAge <= MinEndAge
         /\ SnapsyncNeeded <=> (head \notin roots \/ netEpoch - head > MinEndAge)
BY SnapSyncAssumption DEF TypeOK, Epoch, Age, SnapsyncNeeded

\* The stage only leaves ssUnknown and ssSnaps when no snapsync is needed.
LEMMA BeginTickFullsync ==
  ASSUME TypeInv, FullsyncInv, BeginTick
  PROVE  FullsyncInv'
<1>1. TypeOK
  BY DEF TypeInv
<1>2. /\ head' = head /\ roots' = roots /\ netEpoch' = netEpoch /\ snapshot' = snapshot
      /\ updates' = updates /\ download' = download /\ wanted' = wanted /\ stage' = NewStage
  BY DEF BeginTick, world
<1>3. SnapsyncNeeded' = SnapsyncNeeded /\ Age(head)' = Age(head)
  BY <1>2 DEF SnapsyncNeeded, Age
<1>4. CASE SnapsyncPossible /\ SnapsyncNeeded
  <2>1. stage' = "snaps"
    BY <1>2, <1>4 DEF NewStage
  <2>2. tick'.step = "try" /\ loop' = loop
    BY <2>1 DEF BeginTick
  <2>3. Age(head) >= MaxStartAge
    BY <1>1, <1>4, NumberFacts DEF SnapsyncPossible, FullsyncInv, Waits, Syncs, Age
  <2>4. CASE stage = "snaps"
    BY <1>2, <1>3, <1>4, <2>1, <2>2, <2>3, <2>4 DEF FullsyncInv, Waits, Syncs, Ends, Runs
  <2>5. CASE stage = "unknown"
    BY <1>2, <1>3, <1>4, <2>1, <2>2, <2>3, <2>5
       DEF FullsyncInv, Waits, Syncs, Ends, Runs, NoDownload
  <2> QED BY <1>4, <2>4, <2>5 DEF SnapsyncPossible
<1>5. CASE ~(SnapsyncPossible /\ SnapsyncNeeded)
  <2>1. stage # "snaps" /\ head \in roots /\ snapshot # "disabled" /\ NoDownload
    BY <1>1, <1>5 DEF TypeOK, SnapsyncPossible, SnapsyncNeeded, FullsyncInv, Waits, Syncs, Runs
  <2>2. stage' \in {"gen", "events"}
    BY <1>2, <1>5, <2>1 DEF NewStage
  <2>3. tick'.step = "between" /\ (loop'.step = "sync" => loop.step = "sync")
    BY <1>1, <2>2, EndTickType DEF BeginTick
  <2> QED BY <1>2, <2>1, <2>2, <2>3 DEF FullsyncInv, Waits, Syncs, Ends, Runs, NoDownload
<1> QED BY <1>4, <1>5

\* The next candidate is below the last.
LEMMA NextCandidate ==
  ASSUME TypeOK, tick.step \in {"try", "switch"}, tick' = Onward
  PROVE  /\ tick'.step \in {"try", "push"}
         /\ Candidate \in Int
         /\ tick'.step = "try" => Candidate' \in Int /\ Candidate' < Candidate
<1>1. /\ Onward.step \in {"try", "push"}
      /\ Onward.filled = tick.filled
      /\ Onward.step = "try" => Onward.back = tick.back + 1
  BY OnwardFacts
<1>2. tick.filled.epoch \in Int /\ tick.back \in Int
  BY JobFacts, SnapSyncAssumption DEF Epoch
<1>3. Candidate = tick.filled.epoch - tick.back
  BY DEF Candidate
<1>4. tick'.step = "try" => Candidate' = tick.filled.epoch - (tick.back + 1)
  BY <1>1 DEF Candidate
<1> QED BY <1>1, <1>2, <1>3, <1>4

\* The rest of the tick.
LEMMA TickFullsync ==
  ASSUME TypeInv, ChannelInv, FullsyncInv, SkipCandidate \/ SendCancel \/ SwitchEpochTo \/ Push
  PROVE  FullsyncInv'
<1>1. TypeOK
  BY DEF TypeInv
<1>2. CASE SkipCandidate
  <2>1. /\ head' = head /\ roots' = roots /\ netEpoch' = netEpoch /\ snapshot' = snapshot
        /\ updates' = updates /\ download' = download /\ wanted' = wanted /\ stage' = stage
        /\ loop' = loop
    BY <1>2 DEF SkipCandidate, world
  <2>2. /\ tick.step = "try" /\ tick'.step \in {"try", "push"}
    BY <1>1, <1>2, NextCandidate DEF SkipCandidate
  <2>3. /\ Candidate \in Int /\ head \in Int
        /\ tick'.step = "try" => Candidate' \in Int /\ Candidate' < Candidate
    BY <1>1, <1>2, NextCandidate, NumberFacts DEF SkipCandidate
  <2>4. Waits' /\ Syncs' /\ Ends'
    BY <2>1, <2>2 DEF FullsyncInv, Waits, Syncs, Ends, NoDownload, SnapsyncNeeded, Age
  <2>5. Runs'
    BY <2>1, <2>2, <2>3 DEF FullsyncInv, Runs, NoDownload
  <2> QED BY <2>4, <2>5 DEF FullsyncInv
<1>3. CASE SendCancel
  <2>1. /\ head' = head /\ roots' = roots /\ netEpoch' = netEpoch /\ snapshot' = snapshot
        /\ updates' = Append(updates, Cancel) /\ download' = download /\ wanted' = wanted
        /\ stage' = stage /\ loop' = loop
    BY <1>3 DEF SendCancel, world
  <2>2. /\ tick.step = "try" /\ tick'.step = "answer" /\ Candidate' = Candidate
        /\ Candidate > head /\ Candidate \in roots
    BY <1>1, <1>3, JobFacts DEF SendCancel, Candidate, MayEndAt
  <2>3. stage = "snaps"
    BY <1>1, <2>2, NumberFacts, JobFacts DEF FullsyncInv, Waits, Runs, TypeOK
  <2>4. \A i \in 1 .. Len(updates') : updates'[i] = Cancel \/ updates'[i] > head
    <3>1. \A i \in 1 .. Len(updates') :
            updates'[i] = IF i = Len(updates') THEN Cancel ELSE updates[i]
      BY <1>1, <2>1, AppendElements
    <3>2. Len(updates') = Len(updates) + 1 /\ Len(updates) \in Nat
      BY <1>1, <2>1, UpdatesFacts
    <3> QED BY <2>3, <3>1, <3>2 DEF FullsyncInv, Syncs
  <2> QED BY <2>1, <2>2, <2>3, <2>4
          DEF FullsyncInv, Waits, Syncs, Ends, Runs, SnapsyncNeeded, Age
<1>4. CASE SwitchEpochTo
  <2>1. /\ tick.step = "switch" /\ NoDownload /\ stage = "snaps"
        /\ Candidate > head /\ Candidate \in roots /\ Candidate \in Epoch
    BY <1>4 DEF SwitchEpochTo, ChannelInv, FullsyncInv, Ends, TypeInv
  <2>2. /\ head' = Candidate /\ snapshot' = "generating" /\ stage' = "gen" /\ roots' = roots
        /\ NoDownload'
    BY <1>1, <1>4, <2>1, NumberFacts DEF SwitchEpochTo, NoDownload
  <2>3. /\ tick'.step \in {"try", "push"}
        /\ tick'.step = "try" => Candidate' < Candidate
    BY <1>1, <1>4, <2>1, NextCandidate DEF SwitchEpochTo
  <2> QED BY <2>1, <2>2, <2>3 DEF FullsyncInv, Waits, Syncs, Ends, Runs
<1>5. CASE Push
  <2>1. /\ head' = head /\ roots' = roots /\ netEpoch' = netEpoch /\ snapshot' = snapshot
        /\ download' = download /\ wanted' = wanted /\ stage' = stage
    BY <1>5 DEF Push, world
  <2>2. /\ tick.step = "push" /\ tick'.step = "between"
        /\ loop'.step = "sync" => loop.step = "sync"
    BY <1>1, <1>5, EndTickType DEF Push
  <2>3. stage # "snaps" => updates' = updates
    BY <1>5 DEF Push
  <2>4. stage = "snaps" => \A i \in 1 .. Len(updates') : updates'[i] = Cancel \/ updates'[i] > head
    <3> SUFFICES ASSUME stage = "snaps", updates' # updates
                 PROVE  \A i \in 1 .. Len(updates') : updates'[i] = Cancel \/ updates'[i] > head
      BY DEF FullsyncInv, Syncs
    <3> DEFINE e == tick.filled.epoch
    <3>1. updates' = Append(updates, e) /\ Age(e) < MaxStartAge /\ e \in Epoch
      BY <1>1, <1>5, <2>2, JobFacts DEF Push
    <3>2. e > head
      BY <1>1, <3>1, NumberFacts, SnapSyncAssumption DEF FullsyncInv, Syncs, Age, Epoch
    <3>3. \A i \in 1 .. Len(updates') :
            updates'[i] = IF i = Len(updates') THEN e ELSE updates[i]
      BY <1>1, <3>1, AppendElements
    <3>4. Len(updates') = Len(updates) + 1 /\ Len(updates) \in Nat
      BY <1>1, <3>1, UpdatesFacts
    <3> QED BY <3>2, <3>3, <3>4 DEF FullsyncInv, Syncs
  <2> QED BY <2>1, <2>2, <2>3, <2>4
          DEF FullsyncInv, Waits, Syncs, Ends, Runs, NoDownload, SnapsyncNeeded, Age
<1> QED BY <1>2, <1>3, <1>4, <1>5

\* The state loop.
LEMMA StateLoopFullsync ==
  ASSUME TypeInv, ChannelInv, FullsyncInv, StateLoop \/ QuitStateLoop
  PROVE  FullsyncInv'
<1>1. TypeOK
  BY DEF TypeInv
<1>2. head' = head /\ roots' = roots /\ netEpoch' = netEpoch /\ stage' = stage
  BY DEF StateLoop, TakeOldEpoch, TakeEpoch, StartDownload, TakeCancel, QuitStateLoop, world
<1>3. ASSUME updates # <<>>, updates' = Tail(updates), stage = "snaps"
      PROVE  \A i \in 1 .. Len(updates') : updates'[i] = Cancel \/ updates'[i] > head
  <2>1. \A i \in 1 .. Len(updates') : /\ i + 1 \in 1 .. Len(updates)
                                      /\ updates'[i] = updates[i + 1]
    BY <1>1, <1>3, TailElements
  <2> QED BY <1>3, <2>1 DEF FullsyncInv, Syncs
<1>4. CASE TakeOldEpoch
  <2>1. /\ updates # <<>> /\ updates' = Tail(updates) /\ tick' = tick /\ loop' = loop
        /\ snapshot' = snapshot /\ wanted' = wanted /\ download' = download
    BY <1>4 DEF TakeOldEpoch, TakesUpdate, world
  <2> QED BY <1>2, <1>3, <2>1
          DEF FullsyncInv, Waits, Syncs, Ends, Runs, NoDownload, SnapsyncNeeded, Age, Candidate
<1>5. CASE TakeEpoch
  <2>1. /\ updates # <<>> /\ updates' = Tail(updates) /\ tick' = tick /\ loop'.step = "sync"
        /\ snapshot' = snapshot /\ wanted' = Head(updates) /\ download' = 0
        /\ Head(updates) \in Epoch
    BY <1>5 DEF TakeEpoch, TakesUpdate, world
  <2>2. stage = "snaps"
    BY <1>1, <2>1 DEF FullsyncInv, Waits, Runs, NoDownload, TypeOK
  <2>3. wanted' > head
    <3>1. 1 \in 1 .. Len(updates) /\ Head(updates) = updates[1]
      BY <1>1, <2>1, UpdatesFacts DEF TypeOK
    <3>2. updates[1] # Cancel
      BY <2>1, <3>1, SnapSyncAssumption DEF Epoch, Cancel
    <3> QED BY <2>1, <2>2, <3>1, <3>2 DEF FullsyncInv, Syncs
  <2> QED BY <1>2, <1>3, <2>1, <2>2, <2>3
          DEF FullsyncInv, Waits, Syncs, Ends, Runs, SnapsyncNeeded, Age, Candidate
<1>6. CASE StartDownload
  <2>1. /\ loop.step = "sync" /\ loop'.step = "select" /\ updates' = updates /\ tick' = tick
        /\ download' = wanted /\ wanted' = wanted
    BY <1>6 DEF StartDownload
  <2>2. stage = "snaps"
    BY <1>1, <2>1 DEF FullsyncInv, Waits, Runs, NoDownload, TypeOK
  <2> QED BY <1>2, <2>1, <2>2
          DEF FullsyncInv, Waits, Syncs, Ends, Runs, SnapsyncNeeded, Age, Candidate
<1>7. CASE TakeCancel
  <2>1. /\ updates # <<>> /\ updates' = Tail(updates) /\ loop' = loop /\ download' = 0
        /\ tick.step = "answer" /\ tick'.step = "switch" /\ Candidate' = Candidate
        /\ wanted' = wanted
    BY <1>1, <1>7, JobFacts DEF TakeCancel, TakesUpdate, Candidate
  <2>2. stage = "snaps"
    BY <2>1 DEF FullsyncInv, Ends
  <2> QED BY <1>2, <1>3, <2>1, <2>2
          DEF FullsyncInv, Waits, Syncs, Ends, Runs, SnapsyncNeeded, Age
<1>8. CASE QuitStateLoop
  <2>1. /\ loop' = Quit /\ loop'.step = "quit" /\ download' = 0 /\ updates' = updates
        /\ tick' = tick /\ wanted' = wanted /\ snapshot' = snapshot
    BY <1>8 DEF QuitStateLoop, Quit, world
  <2> QED BY <1>2, <2>1
          DEF FullsyncInv, Waits, Syncs, Ends, Runs, NoDownload, SnapsyncNeeded, Age, Candidate
<1> QED BY <1>4, <1>5, <1>6, <1>7, <1>8 DEF StateLoop

\* The network, the processors, and Stop.
LEMMA WorldFullsync ==
  ASSUME TypeInv, FullsyncInv, World \/ Stop \/ QuitStageLoop \/ UNCHANGED vars
  PROVE  FullsyncInv'
<1>1. TypeOK
  BY DEF TypeInv
<1>2. updates' = updates /\ loop' = loop /\ stage' = stage /\ wanted' = wanted
  BY DEF World, Stop, QuitStageLoop, vars, NextEpoch, Fill, FinishDownload, FailDownload,
     FinishGenerating, ProcessEvents
<1>3. CASE FinishDownload
  <2>1. /\ download # 0 /\ download' = 0 /\ roots' = roots \cup {download}
        /\ head' = head /\ netEpoch' = netEpoch /\ snapshot' = snapshot /\ tick' = tick
    BY <1>3 DEF FinishDownload
  <2>2. stage = "snaps"
    BY <1>1, <2>1 DEF FullsyncInv, Waits, Runs, NoDownload, TypeOK
  <2>3. head \in roots' <=> head \in roots
    BY <1>1, <2>1, <2>2, NumberFacts DEF FullsyncInv, Syncs
  <2> QED BY <1>2, <2>1, <2>2, <2>3
          DEF FullsyncInv, Waits, Syncs, Ends, Runs, SnapsyncNeeded, Age, Candidate
<1>4. CASE ProcessEvents
  <2>1. /\ stage = "events" /\ head' \in roots' /\ snapshot' = snapshot /\ tick' = tick
        /\ download' = download /\ head' = head + 1
    BY <1>4 DEF ProcessEvents
  <2>2. Candidate' = Candidate /\ (tick.step = "try" => Candidate \in Int)
    BY <1>1, <2>1, JobFacts DEF Candidate
  <2> QED BY <1>1, <1>2, <2>1, <2>2, NumberFacts
          DEF FullsyncInv, Waits, Syncs, Ends, Runs, NoDownload
<1>5. CASE NextEpoch
  <2>1. /\ netEpoch' = netEpoch + 1 /\ head' = head /\ roots' = roots /\ snapshot' = snapshot
        /\ tick' = tick /\ download' = download
    BY <1>5 DEF NextEpoch
  <2>2. Age(head)' = Age(head) + 1
    BY <1>1, <2>1, NumberFacts DEF Age
  <2>3. /\ SnapsyncNeeded => SnapsyncNeeded'
        /\ Age(head) >= MaxStartAge => Age(head)' >= MaxStartAge
    BY <1>1, <2>1, <2>2, NumberFacts DEF SnapsyncNeeded
  <2> QED BY <1>2, <2>1, <2>3 DEF FullsyncInv, Waits, Syncs, Ends, Runs, NoDownload, Candidate
<1>6. CASE FinishGenerating
  BY <1>2, <1>6 DEF FinishGenerating, Generating, FullsyncInv, Waits, Syncs, Ends, Runs,
     NoDownload, SnapsyncNeeded, Age, Candidate
<1>7. CASE QuitStageLoop
  <2>1. tick = Between /\ tick' = Quit /\ tick.step = "between" /\ tick'.step = "quit"
    BY <1>7 DEF QuitStageLoop, Between, Quit
  <2> QED BY <1>2, <1>7, <2>1 DEF QuitStageLoop, world, FullsyncInv, Waits, Syncs, Ends, Runs,
     NoDownload, SnapsyncNeeded, Age
<1>8. CASE Fill \/ FailDownload \/ Stop \/ UNCHANGED vars
  <2>1. /\ head' = head /\ roots' = roots /\ netEpoch' = netEpoch /\ snapshot' = snapshot
        /\ tick' = tick /\ download' \in {0, download}
    BY <1>8 DEF Fill, FailDownload, Stop, vars, world
  <2> QED BY <1>2, <2>1 DEF FullsyncInv, Waits, Syncs, Ends, Runs, NoDownload,
     SnapsyncNeeded, Age, Candidate
<1> QED BY <1>3, <1>4, <1>5, <1>6, <1>7, <1>8 DEF World

\* Fullsync never runs beside a download or on a disabled snapshot, in a node that does not
\* start from a genesis of a recent epoch without its EVM state. The stage leaves ssSnaps
\* only through a cancel because a download never makes the head's own state available.
THEOREM SpecFullsyncAlone == ASSUME ~FreshGenesis PROVE Spec => []FullsyncAlone
<1>1. Init => FullsyncInv
  BY InitFullsync
<1>2. ASSUME TypeInv, ChannelInv, FullsyncInv, [Next]_vars PROVE FullsyncInv'
  BY <1>2, BeginTickFullsync, TickFullsync, StateLoopFullsync, WorldFullsync
     DEF Next, Tick, Quitting
<1>3. TypeInv /\ ChannelInv /\ FullsyncInv => FullsyncAlone
  <2> SUFFICES ASSUME TypeInv, ChannelInv, FullsyncInv PROVE FullsyncAlone
    OBVIOUS
  <2>1. stage \in {"gen", "events"} \/ tick.step = "switch" => NoDownload
    BY DEF ChannelInv, FullsyncInv, Runs
  <2>2. NoDownload => \A i \in 1 .. Len(updates) : updates[i] = Cancel
    BY DEF NoDownload
  <2>3. tick.step = "switch" => stage = "snaps"
    BY DEF FullsyncInv, Ends
  <2> QED BY <2>1, <2>2, <2>3 DEF FullsyncAlone, NoDownload, FullsyncInv, Runs
<1> QED BY <1>1, <1>2, <1>3, SpecChannel, PTL DEF Spec

\* Fullsync, downloads and the EVM snapshot keep out of each other's way, in such a node.
THEOREM SpecStagesApart == ASSUME ~FreshGenesis PROVE Spec => []StagesApart
<1>1. FullsyncAlone /\ DownloadPausesSnapshot => StagesApart
  BY DEF StagesApart
<1> QED BY <1>1, SpecFullsyncAlone, SpecDownloadPausesSnapshot, PTL
=============================================================================
