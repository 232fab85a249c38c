---- MODULE MCDagEvents ----
(***************************************************************************)
(* Two epochs, then one that wants an upgrade. In the first, validators a, *)
(* b and the node itself (c): b forks, a makes a wrong event, and the      *)
(* node's own event seals the epoch, when it is made or, after a restart   *)
(* that lost it, when it comes back from a peer.                           *)
(***************************************************************************)
EXTENDS DagEvents

E(epoch, creator, lamport, parents, bad) ==
  [epoch |-> epoch, creator |-> creator, lamport |-> lamport, parents |-> parents, bad |-> bad]

MCBody == <<
  E(1, "a", 1, {}, "none"), E(1, "b", 2, {1}, "none"), E(1, "b", 2, {1}, "none"),
  E(1, "a", 2, {1}, "engine"), E(1, "c", 3, {1, 2}, "none"), E(2, "b", 1, {}, "none") >>

MCSealing == {{1, 2, 5}, {6}}
====
