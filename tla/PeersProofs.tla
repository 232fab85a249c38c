----------------------------- MODULE PeersProofs -----------------------------
(***************************************************************************)
(* Proofs about the connections of the handler, module Peers: the types    *)
(* with the count of peers that have snap, and that a connection that is   *)
(* over leaves no trace while the handler runs.                            *)
(***************************************************************************)
EXTENDS Peers, FiniteSetTheorems, TLAPS

\* Where the main goroutine has not met that of snap yet; where it has its entry in the set.
Unmet == {"gate", "check", "add", "wait"}
InSet == {"dag", "ep", "bv", "br", "syncer", "messages", "leave", "unregister"}
Places == {"none", "end", "receive", "limit", "shake", "room", "register"} \cup Unmet \cup InSet

\* Where it has its entry at a leecher.
Behind(l) ==
  CASE l = "dag" -> {"ep", "bv", "br", "syncer", "messages", "leave"}
    [] l = "ep" -> {"bv", "br", "syncer", "messages", "leave"}
    [] l = "bv" -> {"br", "syncer", "messages", "leave"}
    [] l = "br" -> {"syncer", "messages", "leave"}

StageNames == {"new", "running", "br", "bv", "dag", "ep", "loops", "quit", "closed", "wg", "stopped"}
Live == stage \in {"new", "running"}

Types ==
  /\ link \in [Id -> {"none", "open", "closed"}]
  /\ opera \in [Id -> Places]
  /\ snap \in [Id -> {"none", "begin", "give", "serve", "end"}]
  /\ peers \subseteq Id /\ syncer \subseteq Id /\ snapWait \subseteq Id
  /\ snapPend \subseteq Id /\ useless \subseteq Id /\ banned \subseteq Id
  /\ registered \in [Leecher -> SUBSET Id]
  /\ lock \in Id \cup {Nobody}
  /\ stage \in StageNames

\* A goroutine past the registration has its entry until it removes it: unregistering never
\* takes out, or counts, a peer that is not there.
Count ==
  /\ IsFiniteSet(peers)
  /\ snapPeers = Cardinality(peers \cap Eligible)
  /\ \A i \in Id : opera[i] \in InSet => i \in peers

\* What each entry says about where the goroutines of the peer are.
Traces(i) ==
  /\ i \in peers => opera[i] \in InSet
  /\ i \in syncer => opera[i] \in {"messages", "leave"}
  /\ \A l \in Leecher : i \in registered[l] => opera[i] \in Behind(l)
  /\ link[i] = "none" <=> opera[i] = "none"

\* How the two goroutines meet: one of them finds what the other has left.
Meeting(i) ==
  /\ opera[i] = "none" => snap[i] = "none"
  /\ snap[i] = "none" => i \notin snapWait \cup snapPend /\ lock # i
  /\ i \in Eligible /\ snap[i] = "none" => opera[i] = "none"
  /\ i \notin Eligible => /\ snap[i] \in {"none", "begin", "end"} /\ opera[i] # "receive"
                         /\ i \notin snapWait \cup snapPend /\ lock # i
  /\ i \in snapWait => opera[i] = "receive" /\ snap[i] = "begin"
  /\ lock = i => opera[i] = "receive" /\ snap[i] = "give"
  /\ snap[i] = "give" => lock = i
  /\ i \in Eligible /\ snap[i] = "begin" => opera[i] \in Unmet \/ i \in snapWait
  /\ i \in snapPend => opera[i] \in Unmet /\ snap[i] \in {"serve", "end"}
  /\ i \in Eligible /\ opera[i] \in Unmet /\ snap[i] \in {"serve", "end"} => i \in snapPend

IInv ==
  /\ Types
  /\ Count
  /\ Live => \A i \in Id : Traces(i) /\ Meeting(i)

----------------------------------------------------------------------------
(* Stages *)

\* The rank of a stage is its place in the list.
LEMMA RankIs ==
  ASSUME NEW k \in 1..11
  PROVE  Stages[k] \in DOMAIN Rank /\ Rank[Stages[k]] = k
<1>1. \A j, m \in 1..11 : Stages[j] = Stages[m] => j = m
  BY DEF Stages
<1>2. DOMAIN Stages = 1..11
  BY DEF Stages
<1>3. QED
  BY <1>1, <1>2 DEF Rank

\* A handler that has not been told to stop is past none of the stages of Stop.
LEMMA LiveIsPastNothing ==
  ASSUME Live
  PROVE  \A s \in {"quit", "closed", "dag", "ep", "bv", "br"} : ~Past(s)
<1>1. Rank["new"] = 1 /\ Rank["running"] = 2 /\ Rank["br"] = 3 /\ Rank["bv"] = 4 /\ Rank["dag"] = 5
      /\ Rank["ep"] = 6
  BY RankIs, 1 \in 1..11, 2 \in 1..11, 3 \in 1..11, 4 \in 1..11, 5 \in 1..11, 6 \in 1..11 DEF Stages
<1>2. Rank["quit"] = 8 /\ Rank["closed"] = 9
  BY RankIs, 8 \in 1..11, 9 \in 1..11 DEF Stages
<1>3. QED
  BY <1>1, <1>2 DEF Live, Past

\* The places behind a leecher are inside of the set, and end before the removal.
LEMMA BehindIs ==
  /\ \A l \in Leecher : Behind(l) \subseteq InSet \ {"dag", "unregister"}
  /\ \A l \in Leecher : {"messages", "leave"} \subseteq Behind(l)
BY DEF Leecher, Behind, InSet

\* The next place after a leecher is behind it, and behind those before it.
LEMMA AfterIs ==
  ASSUME NEW l \in Leecher, NEW i \in Id
  PROVE  /\ After(l, i) \in Behind(l)
         /\ \A k \in Leecher : l \in Behind(k) => After(l, i) \in Behind(k)
BY DEF Leecher, Behind, After

----------------------------------------------------------------------------
(* Steps *)

\* A connection begins with both goroutines before they have met.
LEMMA ConnectStep ==
  ASSUME IInv, NEW i \in Id, Connect(i)
  PROVE  IInv'
<1> USE PeersAssumption DEF IInv
<1>1. Types'
  BY DEF Types, Connect, setVars, Places, Eligible, Unmet, InSet
<1>2. Count'
  BY DEF Types, Count, Connect, setVars, InSet
<1>3. ASSUME Live', NEW j \in Id
      PROVE  Traces(j)' /\ Meeting(j)'
  <2>1. Live /\ Traces(i) /\ Meeting(i) /\ Traces(j) /\ Meeting(j)
    BY <1>3 DEF Connect, setVars, Live
  <2>2. Traces(j)'
    BY <2>1, BehindIs DEF Types, Traces, Connect, setVars, Eligible, Unmet, InSet
  <2>3. Meeting(j)'
    BY <2>1 DEF Types, Traces, Meeting, Connect, setVars, Eligible, Unmet, InSet
  <2>4. QED
    BY <2>2, <2>3
<1>4. QED
  BY <1>1, <1>2, <1>3

\* Closing a connection moves no goroutine.
LEMMA ClosesStep ==
  ASSUME IInv, NEW i \in Id, Closes(i)
  PROVE  IInv'
<1> USE PeersAssumption DEF IInv
<1>1. Types'
  BY DEF Types, Closes, setVars, Places, Unmet, InSet
<1>2. Count'
  BY DEF Types, Count, Closes, setVars, InSet
<1>3. ASSUME Live', NEW j \in Id
      PROVE  Traces(j)' /\ Meeting(j)'
  <2>1. Live /\ Traces(i) /\ Meeting(i) /\ Traces(j) /\ Meeting(j)
    BY <1>3 DEF Closes, setVars, Live
  <2>2. Traces(j)'
    BY <2>1, BehindIs DEF Types, Traces, Closes, setVars, Unmet, InSet
  <2>3. Meeting(j)'
    BY <2>1 DEF Types, Meeting, Closes, setVars, Unmet, InSet
  <2>4. QED
    BY <2>2, <2>3
<1>4. QED
  BY <1>1, <1>2, <1>3

\* A connection is given up after both goroutines, which have left nothing by then.
LEMMA GoneStep ==
  ASSUME IInv, NEW i \in Id, Gone(i)
  PROVE  IInv'
<1> USE PeersAssumption DEF IInv
<1>1. Types'
  BY DEF Types, Gone, setVars, Places, Unmet, InSet
<1>2. Count'
  BY DEF Types, Count, Gone, setVars, InSet
<1>3. ASSUME Live', NEW j \in Id
      PROVE  Traces(j)' /\ Meeting(j)'
  <2>1. Live /\ Traces(i) /\ Meeting(i) /\ Traces(j) /\ Meeting(j)
    BY <1>3 DEF Gone, setVars, Live
  <2>2. Traces(j)'
    BY <2>1, BehindIs DEF Types, Traces, Gone, setVars, Unmet, InSet
  <2>3. Meeting(j)'
    BY <2>1 DEF Types, Traces, Meeting, Gone, setVars, Unmet, InSet
  <2>4. QED
    BY <2>2, <2>3
<1>4. QED
  BY <1>1, <1>2, <1>3

\* Before the extension is waited for, steps only move the main goroutine.
LEMMA GateStep ==
  ASSUME IInv, NEW i \in Id, Gate(i)
  PROVE  IInv'
<1> USE PeersAssumption DEF IInv
<1>1. Types'
  BY DEF Types, Gate, At, setVars, Places, Unmet, InSet
<1>2. Count'
  BY DEF Types, Count, Gate, At, setVars, InSet
<1>3. ASSUME Live', NEW j \in Id
      PROVE  Traces(j)' /\ Meeting(j)'
  <2>1. Live /\ Traces(i) /\ Meeting(i) /\ Traces(j) /\ Meeting(j)
    BY <1>3 DEF Gate, At, setVars, Live
  <2>2. Traces(j)'
    BY <2>1, BehindIs DEF Types, Traces, Gate, At, setVars, Unmet, InSet
  <2>3. Meeting(j)'
    BY <2>1 DEF Types, Meeting, Gate, At, setVars, Unmet, InSet
  <2>4. QED
    BY <2>2, <2>3
<1>4. QED
  BY <1>1, <1>2, <1>3

\* A handler that has not been told to stop lets the connection in.
LEMMA CheckStep ==
  ASSUME IInv, NEW i \in Id, Check(i)
  PROVE  IInv'
<1> USE PeersAssumption DEF IInv
<1>1. Types'
  BY DEF Types, Check, At, Returns, setVars, Places, Unmet, InSet
<1>2. Count'
  BY DEF Types, Count, Check, At, Returns, setVars, InSet
<1>3. ASSUME Live', NEW j \in Id
      PROVE  Traces(j)' /\ Meeting(j)'
  <2>1. Live /\ Traces(i) /\ Meeting(i) /\ Traces(j) /\ Meeting(j)
    BY <1>3 DEF Check, At, Returns, setVars, Live
  <2>2. Traces(j)'
    BY <2>1, BehindIs, LiveIsPastNothing DEF Types, Traces, Check, At, Returns, setVars, Unmet, InSet
  <2>3. Meeting(j)'
    BY <2>1, LiveIsPastNothing DEF Types, Meeting, Check, At, Returns, setVars, Unmet, InSet
  <2>4. QED
    BY <2>2, <2>3
<1>4. QED
  BY <1>1, <1>2, <1>3

\* As GateStep, for wg.Add.
LEMMA AddStep ==
  ASSUME IInv, NEW i \in Id, Add(i)
  PROVE  IInv'
<1> USE PeersAssumption DEF IInv
<1>1. Types'
  BY DEF Types, Add, At, setVars, Places, Unmet, InSet
<1>2. Count'
  BY DEF Types, Count, Add, At, setVars, InSet
<1>3. ASSUME Live', NEW j \in Id
      PROVE  Traces(j)' /\ Meeting(j)'
  <2>1. Live /\ Traces(i) /\ Meeting(i) /\ Traces(j) /\ Meeting(j)
    BY <1>3 DEF Add, At, setVars, Live
  <2>2. Traces(j)'
    BY <2>1, BehindIs DEF Types, Traces, Add, At, setVars, Unmet, InSet
  <2>3. Meeting(j)'
    BY <2>1 DEF Types, Meeting, Add, At, setVars, Unmet, InSet
  <2>4. QED
    BY <2>2, <2>3
<1>4. QED
  BY <1>1, <1>2, <1>3

\* The main goroutine takes what is pending, or waits for one that has yet to begin.
LEMMA WaitSnapExtensionStep ==
  ASSUME IInv, NEW i \in Id, WaitSnapExtension(i)
  PROVE  IInv'
<1> USE PeersAssumption DEF IInv
<1>1. Types'
  BY DEF Types, WaitSnapExtension, TakePending, At, Returns, Places, Unmet, InSet
<1>2. Count'
  BY DEF Types, Count, WaitSnapExtension, TakePending, At, Returns, InSet
<1>3. ASSUME Live', NEW j \in Id
      PROVE  Traces(j)' /\ Meeting(j)'
  <2>1. Live /\ Traces(i) /\ Meeting(i) /\ Traces(j) /\ Meeting(j)
    BY <1>3 DEF WaitSnapExtension, TakePending, At, Returns, Live
  <2>2. Traces(j)'
    BY <2>1, BehindIs DEF Types, Traces, WaitSnapExtension, TakePending, At, Returns, Unmet, InSet
  <2>3. Meeting(j)'
    BY <2>1 DEF Types, Traces, Meeting, WaitSnapExtension, TakePending, At, Returns, Unmet, InSet
  <2>4. QED
    BY <2>2, <2>3
<1>4. QED
  BY <1>1, <1>2, <1>3

\* It takes what the other one gives, and the lock is free again.
LEMMA ReceiveStep ==
  ASSUME IInv, NEW i \in Id, Receive(i)
  PROVE  IInv'
<1> USE PeersAssumption DEF IInv
<1>1. Types'
  BY DEF Types, Receive, At, Places, Unmet, InSet
<1>2. Count'
  BY DEF Types, Count, Receive, At, InSet
<1>3. ASSUME Live', NEW j \in Id
      PROVE  Traces(j)' /\ Meeting(j)'
  <2>1. Live /\ Traces(i) /\ Meeting(i) /\ Traces(j) /\ Meeting(j)
    BY <1>3 DEF Receive, At, Live
  <2>2. Traces(j)'
    BY <2>1, BehindIs DEF Types, Traces, Receive, At, Unmet, InSet
  <2>3. Meeting(j)'
    BY <2>1 DEF Types, Meeting, Receive, At, Unmet, InSet
  <2>4. QED
    BY <2>2, <2>3
<1>4. QED
  BY <1>1, <1>2, <1>3

\* Those who come in may be refused: they have no entry yet.
LEMMA LimitStep ==
  ASSUME IInv, NEW i \in Id, Limit(i)
  PROVE  IInv'
<1> USE PeersAssumption DEF IInv
<1>1. Types'
  BY DEF Types, Limit, At, Returns, setVars, Places, Unmet, InSet
<1>2. Count'
  BY DEF Types, Count, Limit, At, Returns, setVars, InSet
<1>3. ASSUME Live', NEW j \in Id
      PROVE  Traces(j)' /\ Meeting(j)'
  <2>1. Live /\ Traces(i) /\ Meeting(i) /\ Traces(j) /\ Meeting(j)
    BY <1>3 DEF Limit, At, Returns, setVars, Live
  <2>2. Traces(j)'
    BY <2>1, BehindIs DEF Types, Traces, Limit, At, Returns, setVars, Unmet, InSet
  <2>3. Meeting(j)'
    BY <2>1 DEF Types, Meeting, Limit, At, Returns, setVars, Unmet, InSet
  <2>4. QED
    BY <2>2, <2>3
<1>4. QED
  BY <1>1, <1>2, <1>3

\* As LimitStep, for the handshake.
LEMMA HandshakeStep ==
  ASSUME IInv, NEW i \in Id, Handshake(i)
  PROVE  IInv'
<1> USE PeersAssumption DEF IInv
<1>1. Types'
  BY DEF Types, Handshake, At, Returns, setVars, Places, Unmet, InSet
<1>2. Count'
  BY DEF Types, Count, Handshake, At, Returns, setVars, InSet
<1>3. ASSUME Live', NEW j \in Id
      PROVE  Traces(j)' /\ Meeting(j)'
  <2>1. Live /\ Traces(i) /\ Meeting(i) /\ Traces(j) /\ Meeting(j)
    BY <1>3 DEF Handshake, At, Returns, setVars, Live
  <2>2. Traces(j)'
    BY <2>1, BehindIs DEF Types, Traces, Handshake, At, Returns, setVars, Unmet, InSet
  <2>3. Meeting(j)'
    BY <2>1 DEF Types, Meeting, Handshake, At, Returns, setVars, Unmet, InSet
  <2>4. QED
    BY <2>2, <2>3
<1>4. QED
  BY <1>1, <1>2, <1>3

\* As LimitStep, for the number of peers.
LEMMA RoomStep ==
  ASSUME IInv, NEW i \in Id, Room(i)
  PROVE  IInv'
<1> USE PeersAssumption DEF IInv
<1>1. Types'
  BY DEF Types, Room, At, Returns, setVars, Places, Unmet, InSet
<1>2. Count'
  BY DEF Types, Count, Room, At, Returns, setVars, InSet
<1>3. ASSUME Live', NEW j \in Id
      PROVE  Traces(j)' /\ Meeting(j)'
  <2>1. Live /\ Traces(i) /\ Meeting(i) /\ Traces(j) /\ Meeting(j)
    BY <1>3 DEF Room, At, Returns, setVars, Live
  <2>2. Traces(j)'
    BY <2>1, BehindIs DEF Types, Traces, Room, At, Returns, setVars, Unmet, InSet
  <2>3. Meeting(j)'
    BY <2>1 DEF Types, Meeting, Room, At, Returns, setVars, Unmet, InSet
  <2>4. QED
    BY <2>2, <2>3
<1>4. QED
  BY <1>1, <1>2, <1>3

\* The entry in the set is new, and the count follows.
LEMMA RegisterStep ==
  ASSUME IInv, NEW i \in Id, Register(i)
  PROVE  IInv'
<1> USE PeersAssumption DEF IInv
<1>1. Types'
  BY DEF Types, Register, Refuses, At, Returns, Places, Unmet, InSet
<1>2. Count'
  <2>1. CASE UNCHANGED <<peers, snapPeers>> /\ At(i, "register", "end")
    BY <2>1 DEF Types, Count, At, InSet
  <2>2. CASE ~Refuses(i) /\ peers' = peers \cup {i} /\ At(i, "register", "dag")
             /\ snapPeers' = snapPeers + (IF i \in Eligible THEN 1 ELSE 0)
    <3>1. i \notin peers
      BY <2>2 DEF Refuses
    <3>2. IsFiniteSet(peers')
      BY <2>2, FS_AddElement DEF Count
    <3>3. IsFiniteSet(peers \cap Eligible)
      BY FS_Subset, peers \cap Eligible \subseteq peers DEF Count
    <3>4. snapPeers' = Cardinality(peers' \cap Eligible)
      <4>1. CASE i \in Eligible
        <5>1. peers' \cap Eligible = (peers \cap Eligible) \cup {i}
          BY <2>2, <4>1
        <5>2. Cardinality((peers \cap Eligible) \cup {i}) = Cardinality(peers \cap Eligible) + 1
          BY <3>1, <3>3, FS_AddElement
        <5>3. QED
          BY <2>2, <4>1, <5>1, <5>2 DEF Count
      <4>2. CASE i \notin Eligible
        <5>1. peers' \cap Eligible = peers \cap Eligible
          BY <2>2, <4>2
        <5>2. Cardinality(peers \cap Eligible) \in Nat
          BY <3>3, FS_CardinalityType
        <5>3. snapPeers' = snapPeers + 0 /\ snapPeers \in Nat
          BY <2>2, <4>2, <5>2 DEF Count
        <5>4. snapPeers' = snapPeers
          BY <5>3
        <5>5. QED
          BY <5>1, <5>4 DEF Count
      <4>3. QED
        BY <4>1, <4>2
    <3>5. \A j \in Id : opera'[j] \in InSet => j \in peers'
      BY <2>2 DEF Types, Count, At
    <3>6. QED
      BY <3>2, <3>4, <3>5 DEF Count
  <2>3. QED
    BY <2>1, <2>2 DEF Register, At, Returns
<1>3. ASSUME Live', NEW j \in Id
      PROVE  Traces(j)' /\ Meeting(j)'
  <2>1. Live /\ Traces(i) /\ Meeting(i) /\ Traces(j) /\ Meeting(j)
    BY <1>3 DEF Register, Refuses, At, Returns, Live
  <2>2. Traces(j)'
    BY <2>1, BehindIs, LiveIsPastNothing DEF Types, Traces, Register, Refuses, At, Returns, Unmet, InSet
  <2>3. Meeting(j)'
    BY <2>1, LiveIsPastNothing DEF Types, Meeting, Register, Refuses, At, Returns, Unmet, InSet
  <2>4. QED
    BY <2>2, <2>3
<1>4. QED
  BY <1>1, <1>2, <1>3

\* A leecher enters the peer, and refuses only when it has been stopped.
LEMMA RegisterAtStep ==
  ASSUME IInv, NEW i \in Id, NEW l \in Leecher, RegisterAt(l, i)
  PROVE  IInv'
<1> USE PeersAssumption DEF IInv
<1>1. Types'
  BY DEF Types, Leecher, RegisterAt, After, At, Returns, setVars, Places, Unmet, InSet
<1>2. Count'
  BY DEF Types, Count, Leecher, RegisterAt, After, At, Returns, setVars, InSet
<1>3. ASSUME Live', NEW j \in Id
      PROVE  Traces(j)' /\ Meeting(j)'
  <2>1. Live /\ Traces(i) /\ Meeting(i) /\ Traces(j) /\ Meeting(j)
    BY <1>3 DEF Leecher, RegisterAt, After, At, Returns, setVars, Live
  <2>2. Traces(j)'
    BY <2>1, BehindIs, LiveIsPastNothing, AfterIs DEF Types, Traces, Leecher, RegisterAt,
       After, At, Returns, setVars, Unmet, InSet
  <2>3. Meeting(j)'
    BY <2>1, LiveIsPastNothing DEF Types, Meeting, Leecher, RegisterAt, After, At, Returns,
       setVars, Unmet, InSet
  <2>4. QED
    BY <2>2, <2>3
<1>4. QED
  BY <1>1, <1>2, <1>3

\* The syncer has no entry of an earlier connection.
LEMMA RegisterSyncerStep ==
  ASSUME IInv, NEW i \in Id, RegisterSyncer(i)
  PROVE  IInv'
<1> USE PeersAssumption DEF IInv
<1>1. Types'
  BY DEF Types, RegisterSyncer, At, Returns, setVars, Places, Unmet, InSet
<1>2. Count'
  BY DEF Types, Count, RegisterSyncer, At, Returns, setVars, InSet
<1>3. ASSUME Live', NEW j \in Id
      PROVE  Traces(j)' /\ Meeting(j)'
  <2>1. Live /\ Traces(i) /\ Meeting(i) /\ Traces(j) /\ Meeting(j)
    BY <1>3 DEF RegisterSyncer, At, Returns, setVars, Live
  <2>2. Traces(j)'
    BY <2>1, BehindIs DEF Types, Traces, RegisterSyncer, At, Returns, setVars, Unmet, InSet
  <2>3. Meeting(j)'
    BY <2>1 DEF Types, Traces, Meeting, RegisterSyncer, At, Returns, setVars, Unmet, InSet
  <2>4. QED
    BY <2>2, <2>3
<1>4. QED
  BY <1>1, <1>2, <1>3

\* Reading ends with all the entries in place.
LEMMA HandleMsgStep ==
  ASSUME IInv, NEW i \in Id, NEW bad \in BOOLEAN, HandleMsg(i, bad)
  PROVE  IInv'
<1> USE PeersAssumption DEF IInv
<1>1. Types'
  BY DEF Types, HandleMsg, At, setVars, Places, Unmet, InSet
<1>2. Count'
  BY DEF Types, Count, HandleMsg, At, setVars, InSet
<1>3. ASSUME Live', NEW j \in Id
      PROVE  Traces(j)' /\ Meeting(j)'
  <2>1. Live /\ Traces(i) /\ Meeting(i) /\ Traces(j) /\ Meeting(j)
    BY <1>3 DEF HandleMsg, At, setVars, Live
  <2>2. Traces(j)'
    BY <2>1, BehindIs DEF Types, Traces, HandleMsg, At, setVars, Unmet, InSet
  <2>3. Meeting(j)'
    BY <2>1 DEF Types, Meeting, HandleMsg, At, setVars, Unmet, InSet
  <2>4. QED
    BY <2>2, <2>3
<1>4. QED
  BY <1>1, <1>2, <1>3

\* The leechers and the syncer forget the peer.
LEMMA LeaveStep ==
  ASSUME IInv, NEW i \in Id, Leave(i)
  PROVE  IInv'
<1> USE PeersAssumption DEF IInv
<1>1. Types'
  BY DEF Types, Leave, At, setVars, Places, Unmet, InSet
<1>2. Count'
  BY DEF Types, Count, Leave, At, setVars, InSet
<1>3. ASSUME Live', NEW j \in Id
      PROVE  Traces(j)' /\ Meeting(j)'
  <2>1. Live /\ Traces(i) /\ Meeting(i) /\ Traces(j) /\ Meeting(j)
    BY <1>3 DEF Leave, At, setVars, Live
  <2>2. Traces(j)'
    BY <2>1, BehindIs DEF Types, Traces, Leave, At, setVars, Unmet, InSet
  <2>3. Meeting(j)'
    BY <2>1 DEF Types, Meeting, Leave, At, setVars, Unmet, InSet
  <2>4. QED
    BY <2>2, <2>3
<1>4. QED
  BY <1>1, <1>2, <1>3

\* The entry that is taken out of the set is there, and the count follows.
LEMMA UnregisterStep ==
  ASSUME IInv, NEW i \in Id, Unregister(i)
  PROVE  IInv'
<1> USE PeersAssumption DEF IInv
<1>1. Types'
  BY DEF Types, Unregister, UnregisterPeer, At, Returns, Places, Unmet, InSet
<1>2. Count'
  <2>1. i \in peers
    BY DEF Unregister, Returns, At, Count, InSet
  <2>2. peers' = peers \ {i} /\ snapPeers' = snapPeers - (IF i \in Eligible THEN 1 ELSE 0)
    BY DEF Unregister, UnregisterPeer
  <2>3. IsFiniteSet(peers')
    BY <2>2, FS_RemoveElement DEF Count
  <2>4. IsFiniteSet(peers \cap Eligible)
    BY FS_Subset, peers \cap Eligible \subseteq peers DEF Count
  <2>5. snapPeers' = Cardinality(peers' \cap Eligible)
    <3>1. CASE i \in Eligible
      <4>1. peers' \cap Eligible = (peers \cap Eligible) \ {i}
        BY <2>2
      <4>2. Cardinality((peers \cap Eligible) \ {i}) = Cardinality(peers \cap Eligible) - 1
        BY <2>1, <2>4, <3>1, FS_RemoveElement
      <4>3. QED
        BY <2>2, <3>1, <4>1, <4>2 DEF Count
    <3>2. CASE i \notin Eligible
      <4>1. peers' \cap Eligible = peers \cap Eligible
        BY <2>2, <3>2
      <4>2. Cardinality(peers \cap Eligible) \in Nat
        BY <2>4, FS_CardinalityType
      <4>3. snapPeers' = snapPeers - 0 /\ snapPeers \in Nat
        BY <2>2, <3>2, <4>2 DEF Count
      <4>4. snapPeers' = snapPeers
        BY <4>3
      <4>5. QED
        BY <4>1, <4>4 DEF Count
    <3>3. QED
      BY <3>1, <3>2
  <2>6. \A j \in Id : opera'[j] \in InSet => j \in peers'
    BY <2>2 DEF Unregister, Types, Count, Returns, At, InSet
  <2>7. QED
    BY <2>3, <2>5, <2>6 DEF Count
<1>3. ASSUME Live', NEW j \in Id
      PROVE  Traces(j)' /\ Meeting(j)'
  <2>1. Live /\ Traces(i) /\ Meeting(i) /\ Traces(j) /\ Meeting(j)
    BY <1>3 DEF Unregister, UnregisterPeer, At, Returns, Live
  <2>2. Traces(j)'
    BY <2>1, BehindIs DEF Types, Traces, Unregister, UnregisterPeer, At, Returns, Unmet, InSet
  <2>3. Meeting(j)'
    BY <2>1 DEF Types, Meeting, Unregister, UnregisterPeer, At, Returns, Unmet, InSet
  <2>4. QED
    BY <2>2, <2>3
<1>4. QED
  BY <1>1, <1>2, <1>3

\* The goroutine of snap leaves the extension pending, or gives it to the one who waits.
LEMMA RegisterSnapExtensionStep ==
  ASSUME IInv, NEW i \in Id, RegisterSnapExtension(i)
  PROVE  IInv'
<1> USE PeersAssumption DEF IInv
<1>1. Types'
  BY DEF Types, RegisterSnapExtension, RefusesSnap, KeepSnap, GiveSnap, Places, Unmet, InSet
<1>2. Count'
  BY DEF Types, Count, RegisterSnapExtension, RefusesSnap, KeepSnap, GiveSnap, InSet
<1>3. ASSUME Live', NEW j \in Id
      PROVE  Traces(j)' /\ Meeting(j)'
  <2>1. Live /\ Traces(i) /\ Meeting(i) /\ Traces(j) /\ Meeting(j)
    BY <1>3 DEF RegisterSnapExtension, RefusesSnap, KeepSnap, GiveSnap, Live
  <2>2. Traces(j)'
    BY <2>1, BehindIs DEF Types, Meeting, Traces, RegisterSnapExtension, RefusesSnap, KeepSnap, GiveSnap,
       Unmet, InSet
  <2>3. Meeting(j)'
    BY <2>1 DEF Types, Traces, Meeting, RegisterSnapExtension, RefusesSnap, KeepSnap, GiveSnap,
       Unmet, InSet
  <2>4. QED
    BY <2>2, <2>3
<1>4. QED
  BY <1>1, <1>2, <1>3

\* The goroutine of snap ends after the two have met, or with the extension pending.
LEMMA SnapEndsStep ==
  ASSUME IInv, NEW i \in Id, NEW bad \in BOOLEAN, SnapEnds(i, bad)
  PROVE  IInv'
<1> USE PeersAssumption DEF IInv
<1>1. Types'
  BY DEF Types, SnapEnds, setVars, Places, Unmet, InSet
<1>2. Count'
  BY DEF Types, Count, SnapEnds, setVars, InSet
<1>3. ASSUME Live', NEW j \in Id
      PROVE  Traces(j)' /\ Meeting(j)'
  <2>1. Live /\ Traces(i) /\ Meeting(i) /\ Traces(j) /\ Meeting(j)
    BY <1>3 DEF SnapEnds, setVars, Live
  <2>2. Traces(j)'
    BY <2>1, BehindIs DEF Types, Meeting, Traces, SnapEnds, setVars, Unmet, InSet
  <2>3. Meeting(j)'
    BY <2>1 DEF Types, Meeting, SnapEnds, setVars, Unmet, InSet
  <2>4. QED
    BY <2>2, <2>3
<1>4. QED
  BY <1>1, <1>2, <1>3

\* Start changes no connection; after it, the traces are claimed no more.
LEMMA StageStep ==
  ASSUME IInv, Start \/ StopCalled \/ Stop
  PROVE  IInv'
<1> USE PeersAssumption DEF IInv
<1>1. Types'
  <2>1. link' = link \/ link' = Disconnected
    BY DEF Start, StopCalled, Stop
  <2>2. link' \in [Id -> {"none", "open", "closed"}]
    BY <2>1 DEF Types, Disconnected
  <2>3. QED
    BY <2>2 DEF Types, Start, StopCalled, Stop, Goes, setVars, StageNames
<1>2. Count'
  BY DEF Types, Count, Start, StopCalled, Stop, setVars, InSet
<1>3. ASSUME Live', NEW j \in Id
      PROVE  Traces(j)' /\ Meeting(j)'
  <2>1. Start
    BY <1>3 DEF Start, StopCalled, Stop, Goes, Live
  <2>2. Live /\ Traces(j) /\ Meeting(j)
    BY <1>3, <2>1 DEF Start, Goes, Live
  <2>3. QED
    BY <2>1, <2>2 DEF Traces, Meeting, Start, setVars
<1>4. QED
  BY <1>1, <1>2, <1>3

----------------------------------------------------------------------------
(* Theorems *)

\* A handler begins with no connection.
LEMMA InitIInv == Init => IInv
<1> SUFFICES ASSUME Init
             PROVE  IInv
  OBVIOUS
<1> USE PeersAssumption DEF Init
<1>1. Types
  BY DEF Types, Places, StageNames
<1>2. Count
  <2>1. peers \cap Eligible = {}
    OBVIOUS
  <2>2. QED
    BY <2>1, FS_EmptySet DEF Count, InSet
<1>3. ASSUME NEW i \in Id
      PROVE  Traces(i) /\ Meeting(i)
  BY DEF Traces, Meeting, Leecher, Unmet, InSet
<1>4. QED
  BY <1>1, <1>2, <1>3 DEF IInv

\* Every step preserves the invariant.
LEMMA NextIInv == IInv /\ [Next]_vars => IInv'
<1> SUFFICES ASSUME IInv, [Next]_vars
             PROVE  IInv'
  OBVIOUS
<1>1. ASSUME NEW i \in Id, Connect(i) \/ Closes(i) \/ Gone(i)
      PROVE  IInv'
  BY <1>1, ConnectStep, ClosesStep, GoneStep
<1>2. ASSUME NEW i \in Id, NEW bad \in BOOLEAN, HandleMsg(i, bad) \/ SnapEnds(i, bad)
      PROVE  IInv'
  BY <1>2, HandleMsgStep, SnapEndsStep
<1>3. ASSUME NEW i \in Id, Opera(i) \/ Snap(i)
      PROVE  IInv'
  BY <1>2, <1>3, GateStep, CheckStep, AddStep, WaitSnapExtensionStep, ReceiveStep, LimitStep,
     HandshakeStep, RoomStep, RegisterStep, RegisterAtStep, RegisterSyncerStep, LeaveStep,
     UnregisterStep, RegisterSnapExtensionStep DEF Opera, Snap
<1>4. CASE Start \/ StopCalled \/ Stop
  BY <1>4, StageStep
<1>5. CASE UNCHANGED vars
  BY <1>5 DEF vars, setVars, IInv, Types, Count, Live, Traces, Meeting
<1>6. QED
  BY <1>1, <1>2, <1>3, <1>4, <1>5 DEF Next

\* The inductive invariant holds in every state.
THEOREM Invariance == Spec => []IInv
BY InitIInv, NextIInv, PTL DEF Spec

\* Types, and that the set counts those of its peers that have the extension, whatever the peers
\* and however often they come and go: no path of the handler removes one that is not there.
THEOREM TypesAndCount == Spec => []TypeOK
<1>1. IInv => TypeOK
  <2>1. \A s \in StageNames : \E k \in DOMAIN Stages : Stages[k] = s
    <3>1. DOMAIN Stages = 1..11
      BY DEF Stages
    <3>2. QED
      BY <3>1, 1 \in 1..11, 2 \in 1..11, 3 \in 1..11, 4 \in 1..11, 5 \in 1..11, 6 \in 1..11,
         7 \in 1..11, 8 \in 1..11, 9 \in 1..11, 10 \in 1..11, 11 \in 1..11 DEF StageNames, Stages
  <2>2. QED
    BY <2>1 DEF IInv, Types, Count, TypeOK
<1>2. QED
  BY <1>1, Invariance, PTL

\* Until the handler is stopped, a connection that is over is entered nowhere, and nothing that its
\* goroutines left for each other is found by the next connection of the peer.
THEOREM NoTrace == Spec => []NoTraceLeft
<1>1. IInv => NoTraceLeft
  <2>1. ASSUME IInv, Live, NEW i \in Id
        PROVE  /\ opera[i] \in {"none", "end"} =>
                    /\ i \notin peers \cup snapWait \cup syncer
                    /\ \A l \in Leecher : i \notin registered[l]
               /\ link[i] = "none" => i \notin snapPend
    <3>1. Traces(i) /\ Meeting(i)
      BY <2>1 DEF IInv
    <3>2. QED
      BY <3>1, BehindIs DEF Traces, Meeting, Unmet, InSet
  <2>2. QED
    BY <2>1 DEF NoTraceLeft, Live
<1>2. QED
  BY <1>1, Invariance, PTL
=============================================================================
