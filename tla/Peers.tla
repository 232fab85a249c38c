-------------------------------- MODULE Peers --------------------------------
(***************************************************************************)
(* The life of a connection in the handler, and the handler's start and    *)
(* stop: Run and handle of the main protocol (gossip/service.go,           *)
(* handler.go), its satellite snap (handler_snap.go), and the set of peers *)
(* that the two meet in (peerset.go).                                      *)
(*                                                                         *)
(* A connection has a goroutine for each protocol that both ends run. The  *)
(* goroutine of the main one waits for that of snap, limits who comes in,  *)
(* shakes hands and enters the peer at six parties in turn; it leaves them *)
(* when messages can no longer be read. What messages do is not modelled.  *)
(*                                                                         *)
(* The p2p server is not under src/: it closes a connection if a protocol  *)
(* returns or the remote end goes, admits a peer again only when all of    *)
(* its goroutines have returned, and still admits peers after Stop.        *)
(***************************************************************************)
EXTENDS Integers, FiniteSets

CONSTANTS
  Id,
  RunsSnap,
  FTM63,        \* run the version of the main protocol that snap asks for
  Named,        \* have opera in their names
  Trusted,
  MaxPeers,     \* of the configuration
  MaxConnects,  \* bound: connections in all
  Nobody

ASSUME PeersAssumption ==
  /\ RunsSnap \cup FTM63 \cup Named \cup Trusted \subseteq Id
  /\ MaxPeers \in Nat /\ MaxConnects \in Nat
  /\ Nobody \notin Id

VARIABLES
  link,       \* of each peer: none, open or closed
  opera, snap,  \* where its goroutines are
  useless,    \* peers with the flag
  banned,     \* discfilter
  peers, snapPeers, snapWait, snapPend,  \* peerSet
  lock,       \* who has the lock of the set while it sends: see GiveSnap
  registered, \* of each leecher
  syncer,     \* peers of the snap syncer
  stage,      \* of the handler: what has been done of Start and Stop
  connects

setVars == <<peers, snapPeers, snapWait, snapPend, lock>>
vars == <<link, opera, snap, useless, banned, setVars, registered, syncer, stage, connects>>

\* eligibleForSnap
Eligible == RunsSnap \cap FTM63

Leecher == {"dag", "ep", "bv", "br"}

\* Stop, after Start; each stage names what has been stopped, closed or waited for.
Stages == <<"new", "running", "br", "bv", "dag", "ep", "loops", "quit", "closed", "wg", "stopped">>
Rank == [s \in {Stages[k] : k \in DOMAIN Stages} |-> CHOOSE k \in DOMAIN Stages : Stages[k] = s]
Past(s) == Rank[stage] >= Rank[s]
Goes(from, to) == stage = from /\ stage' = to

Init ==
  /\ link = [i \in Id |-> "none"]
  /\ opera = [i \in Id |-> "none"]
  /\ snap = [i \in Id |-> "none"]
  /\ useless = {} /\ banned = {}
  /\ peers = {} /\ snapPeers = 0 /\ snapWait = {} /\ snapPend = {}
  /\ lock = Nobody
  /\ registered = [l \in Leecher |-> {}]
  /\ syncer = {}
  /\ stage = "new"
  /\ connects = 0

----------------------------------------------------------------------------
(* The p2p server *)

Connect(i) ==
  /\ link[i] = "none" /\ connects < MaxConnects
  /\ link' = [link EXCEPT ![i] = "open"]
  /\ opera' = [opera EXCEPT ![i] = "gate"]
  /\ snap' = [snap EXCEPT ![i] = IF i \in RunsSnap THEN "begin" ELSE "none"]
  /\ connects' = connects + 1
  /\ UNCHANGED <<useless, banned, setVars, registered, syncer, stage>>

\* By the remote end; or by removePeer, which handlers of events and votes call.
Closes(i) ==
  /\ link[i] = "open"
  /\ link' = [link EXCEPT ![i] = "closed"]
  /\ UNCHANGED <<opera, snap, useless, banned, setVars, registered, syncer, stage, connects>>

Gone(i) ==
  /\ link[i] = "closed" /\ opera[i] = "end" /\ snap[i] \in {"none", "end"}
  /\ link' = [link EXCEPT ![i] = "none"]
  /\ opera' = [opera EXCEPT ![i] = "none"]
  /\ snap' = [snap EXCEPT ![i] = "none"]
  /\ useless' = useless \ {i}
  /\ UNCHANGED <<banned, setVars, registered, syncer, stage, connects>>

----------------------------------------------------------------------------
(* Run and handle *)

At(i, from, to) == opera[i] = from /\ opera' = [opera EXCEPT ![i] = to]

Returns(i, from) ==
  /\ At(i, from, "end")
  /\ link' = [link EXCEPT ![i] = "closed"]

Gate(i) ==
  /\ Past("running")
  /\ At(i, "gate", "check")
  /\ UNCHANGED <<link, snap, useless, banned, setVars, registered, syncer, stage, connects>>

\* Whether quitSync is closed, and then wg.Add
Check(i) ==
  /\ \/ Past("quit") /\ Returns(i, "check")
     \/ ~Past("quit") /\ At(i, "check", "add") /\ UNCHANGED link
  /\ UNCHANGED <<snap, useless, banned, setVars, registered, syncer, stage, connects>>

Add(i) ==
  /\ At(i, "add", "wait")
  /\ UNCHANGED <<link, snap, useless, banned, setVars, registered, syncer, stage, connects>>

TakePendingKeeps(i) == UNCHANGED snapPend  \* mutant: what has been handed over stays pending

\* WaitSnapExtension
TakePending(i) == snapPend' = snapPend \ {i}

WaitSnapExtension(i) ==
  /\ \/ /\ i \notin Eligible
        /\ At(i, "wait", "limit")
        /\ UNCHANGED <<link, snapWait, snapPend>>
     \/ /\ i \in Eligible /\ lock = Nobody
        /\ \/ /\ i \in peers \cup snapWait
              /\ Returns(i, "wait")
              /\ UNCHANGED <<snapWait, snapPend>>
           \/ /\ i \notin peers \cup snapWait
              /\ i \in snapPend
              /\ TakePending(i)
              /\ At(i, "wait", "limit")
              /\ UNCHANGED <<link, snapWait>>
           \/ /\ i \notin peers \cup snapWait \cup snapPend
              /\ snapWait' = snapWait \cup {i}
              /\ At(i, "wait", "receive")
              /\ UNCHANGED <<link, snapPend>>
  /\ UNCHANGED <<snap, useless, banned, peers, snapPeers, lock, registered, syncer, stage, connects>>

\* The other side has the lock until this one takes the extension from the channel.
Receive(i) ==
  /\ lock = i
  /\ At(i, "receive", "limit")
  /\ lock' = Nobody
  /\ snap' = [snap EXCEPT ![i] = "serve"]
  /\ UNCHANGED <<link, useless, banned, peers, snapPeers, snapWait, snapPend, registered, syncer,
                 stage, connects>>

\* A peer without snap or of another name is useless, and banned; few useless ones may be in
\* the set.
Limit(i) ==
  /\ lock = Nobody
  /\ banned' = IF i \in Eligible \cap Named THEN banned ELSE banned \cup {i}
  /\ \/ /\ i \in Trusted \/ i \notin banned'
        /\ At(i, "limit", "shake")
        /\ UNCHANGED <<link, useless>>
     \/ /\ i \in banned' \ Trusted
        /\ Cardinality(peers \cap useless) >= MaxPeers \div 10
        /\ Returns(i, "limit")
        /\ UNCHANGED useless
     \/ /\ i \in banned' \ Trusted
        /\ Cardinality(peers \cap useless) < MaxPeers \div 10
        /\ useless' = useless \cup {i}
        /\ At(i, "limit", "shake")
        /\ UNCHANGED link
  /\ UNCHANGED <<snap, setVars, registered, syncer, stage, connects>>

\* Handshake, with a timeout; a peer that fails is banned.
Handshake(i) ==
  /\ \/ /\ link[i] = "open"
        /\ At(i, "shake", "room")
        /\ UNCHANGED <<link, banned>>
     \/ /\ Returns(i, "shake")
        /\ banned' = banned \cup {i}
  /\ UNCHANGED <<snap, useless, setVars, registered, syncer, stage, connects>>

Room(i) ==
  /\ lock = Nobody
  /\ \/ /\ Cardinality(peers) < MaxPeers \/ i \in Trusted
        /\ At(i, "room", "register")
        /\ UNCHANGED link
     \/ /\ Cardinality(peers) >= MaxPeers /\ i \notin Trusted
        /\ Returns(i, "room")
  /\ UNCHANGED <<snap, useless, banned, setVars, registered, syncer, stage, connects>>

\* RegisterPeer
Refuses(i) == Past("closed") \/ i \in peers

Register(i) ==
  /\ lock = Nobody
  /\ \/ /\ Refuses(i)
        /\ Returns(i, "register")
        /\ UNCHANGED <<peers, snapPeers>>
     \/ /\ ~Refuses(i)
        /\ peers' = peers \cup {i}
        /\ snapPeers' = snapPeers + (IF i \in Eligible THEN 1 ELSE 0)
        /\ At(i, "register", "dag")
        /\ UNCHANGED link
  /\ UNCHANGED <<snap, useless, banned, snapWait, snapPend, lock, registered, syncer, stage, connects>>

\* The leechers refuse when they have been stopped. The peer stays where it has been entered:
\* only from the last party on, unregistering is deferred.
After(l, i) ==
  CASE l = "dag" -> IF i \in FTM63 THEN "ep" ELSE "messages"
    [] l = "ep" -> "bv"
    [] l = "bv" -> "br"
    [] l = "br" -> IF i \in Eligible THEN "syncer" ELSE "messages"

RegisterAt(l, i) ==
  /\ \/ /\ Past(l)
        /\ Returns(i, l)
        /\ UNCHANGED registered
     \/ /\ ~Past(l)
        /\ registered' = [registered EXCEPT ![l] = @ \cup {i}]
        /\ At(i, l, After(l, i))
        /\ UNCHANGED link
  /\ UNCHANGED <<snap, useless, banned, setVars, syncer, stage, connects>>

RegisterSyncer(i) ==
  /\ \/ /\ i \in syncer
        /\ Returns(i, "syncer")
        /\ UNCHANGED syncer
     \/ /\ i \notin syncer
        /\ syncer' = syncer \cup {i}
        /\ At(i, "syncer", "messages")
        /\ UNCHANGED link
  /\ UNCHANGED <<snap, useless, banned, setVars, registered, stage, connects>>

\* A message cannot be read, or is one that ends the session.
HandleMsg(i, bad) ==
  /\ bad \/ link[i] = "closed"
  /\ At(i, "messages", "leave")
  /\ UNCHANGED <<link, snap, useless, banned, setVars, registered, syncer, stage, connects>>

\* unregisterPeer: the leechers and the syncer, which nobody looks at in between, then the set
Leave(i) ==
  /\ lock = Nobody
  /\ registered' = [l \in Leecher |-> registered[l] \ {i}]
  /\ syncer' = syncer \ {i}
  /\ At(i, "leave", "unregister")
  /\ UNCHANGED <<link, snap, useless, banned, setVars, stage, connects>>

UnregisterKeepsCount(i) ==  \* mutant: the number of those with snap is left as it is
  /\ peers' = peers \ {i}
  /\ UNCHANGED snapPeers

UnregisterPeer(i) ==
  /\ peers' = peers \ {i}
  /\ snapPeers' = snapPeers - (IF i \in Eligible THEN 1 ELSE 0)

Unregister(i) ==
  /\ lock = Nobody
  /\ UnregisterPeer(i)
  /\ Returns(i, "unregister")
  /\ UNCHANGED <<snap, useless, banned, snapWait, snapPend, lock, registered, syncer, stage, connects>>

----------------------------------------------------------------------------
(* runSnapExtension *)

\* Of a peer that is not eligible, or has an extension
RefusesSnap(i) == i \notin Eligible \/ i \in peers \cup snapPend

KeepSnap(i) ==
  /\ snapPend' = snapPend \cup {i}
  /\ snap' = [snap EXCEPT ![i] = "serve"]
  /\ UNCHANGED <<link, snapWait, lock>>

NeverGives(i) == i \in snapWait /\ KeepSnap(i)  \* mutant: one who waits is not looked for

\* If the other goroutine waits: the send is unbuffered, under the lock.
GiveSnap(i) ==
  /\ i \in snapWait
  /\ snapWait' = snapWait \ {i}
  /\ lock' = i
  /\ snap' = [snap EXCEPT ![i] = "give"]
  /\ UNCHANGED <<link, snapPend>>

RegisterSnapExtension(i) ==
  /\ snap[i] = "begin" /\ lock = Nobody
  /\ \/ /\ RefusesSnap(i)
        /\ snap' = [snap EXCEPT ![i] = "end"]
        /\ link' = [link EXCEPT ![i] = "closed"]
        /\ UNCHANGED <<snapWait, snapPend, lock>>
     \/ ~RefusesSnap(i) /\ GiveSnap(i)
     \/ ~RefusesSnap(i) /\ i \notin snapWait /\ KeepSnap(i)
  /\ UNCHANGED <<opera, useless, banned, peers, snapPeers, registered, syncer, stage, connects>>

SnapEnds(i, bad) ==
  /\ snap[i] = "serve"
  /\ bad \/ link[i] = "closed"
  /\ snap' = [snap EXCEPT ![i] = "end"]
  /\ link' = [link EXCEPT ![i] = "closed"]
  /\ UNCHANGED <<opera, useless, banned, setVars, registered, syncer, stage, connects>>

----------------------------------------------------------------------------
(* Start and Stop *)

InHandle == {i \in Id : opera[i] \notin {"none", "gate", "check", "add", "end"}}
InPeerWG == {i \in InHandle : opera[i] \notin {"wait", "receive", "limit"}}
              \cup {i \in Id : snap[i] \in {"give", "serve"}}

Start ==
  /\ Goes("new", "running")
  /\ UNCHANGED <<link, opera, snap, useless, banned, setVars, registered, syncer, connects>>

StopCalled ==
  /\ Goes("running", "br")
  /\ UNCHANGED <<link, opera, snap, useless, banned, setVars, registered, syncer, connects>>

DisconnectedNone == link  \* mutant: Close only shuts the gate
Disconnected == [i \in Id |-> IF i \in peers /\ link[i] = "open" THEN "closed" ELSE link[i]]

\* Leechers in turn; the loops, which end when told to; quitSync; the set, whose peers are told to
\* go; and the goroutines.
Stop ==
  /\ \/ Goes("br", "bv") /\ UNCHANGED link
     \/ Goes("bv", "dag") /\ UNCHANGED link
     \/ Goes("dag", "ep") /\ UNCHANGED link
     \/ Goes("ep", "loops") /\ UNCHANGED link
     \/ Goes("loops", "quit") /\ UNCHANGED link
     \/ /\ Goes("quit", "closed") /\ lock = Nobody
        /\ link' = Disconnected
     \/ Goes("closed", "wg") /\ InHandle = {} /\ UNCHANGED link
     \/ Goes("wg", "stopped") /\ InPeerWG = {} /\ UNCHANGED link
  /\ UNCHANGED <<opera, snap, useless, banned, setVars, registered, syncer, connects>>

----------------------------------------------------------------------------

Opera(i) ==
  \/ Gate(i) \/ Check(i) \/ Add(i) \/ WaitSnapExtension(i) \/ Receive(i) \/ Limit(i)
  \/ Handshake(i) \/ Room(i) \/ Register(i) \/ (\E l \in Leecher : RegisterAt(l, i))
  \/ RegisterSyncer(i) \/ HandleMsg(i, FALSE) \/ Leave(i) \/ Unregister(i)

Snap(i) == RegisterSnapExtension(i) \/ SnapEnds(i, FALSE)

Next ==
  \/ \E i \in Id : Connect(i) \/ Closes(i) \/ Gone(i)
  \/ \E i \in Id : Opera(i) \/ HandleMsg(i, TRUE) \/ Snap(i) \/ SnapEnds(i, TRUE)
  \/ Start \/ StopCalled \/ Stop

Spec == Init /\ [][Next]_vars

\* Goroutines run, the server lets go of a connection that is over, and the node starts. Nobody
\* has to connect, to leave or to send what is wrong, and nobody has to stop the node.
FairSpec ==
  /\ Spec
  /\ \A i \in Id : WF_vars(Opera(i)) /\ WF_vars(Snap(i)) /\ WF_vars(Gone(i))
  /\ WF_vars(Start) /\ WF_vars(Stop)

----------------------------------------------------------------------------
(* Properties *)

\* Types. The set counts those of its peers that have the extension.
TypeOK ==
  /\ link \in [Id -> {"none", "open", "closed"}]
  /\ peers \cup syncer \cup snapWait \cup snapPend \cup useless \cup banned \subseteq Id
  /\ registered \in [Leecher -> SUBSET Id]
  /\ lock \in Id \cup {Nobody}
  /\ \E k \in DOMAIN Stages : Stages[k] = stage
  /\ snapPeers = Cardinality(peers \cap Eligible)

\* Until the handler is stopped, a connection that is over has left all the parties that it was
\* entered at, and the two goroutines of one have met: nothing of it is found by the next one.
NoTraceLeft ==
  stage \in {"new", "running"} =>
    \A i \in Id :
      /\ opera[i] \in {"none", "end"} =>
           /\ i \notin peers \cup snapWait \cup syncer
           /\ \A l \in Leecher : i \notin registered[l]
      /\ link[i] = "none" => i \notin snapPend

\* WaitSnapExtension has no timeout and does not look at the connection: still every connection
\* that is closed is over at last, and the server admits the peer again.
ConnectionsEnd == \A i \in Id : link[i] = "closed" ~> link[i] = "none"

\* Stop returns, whatever connections are being set up, served or torn down, as long as the loops
\* do.
StopReturns == stage = "br" ~> stage = "stopped"
=============================================================================
