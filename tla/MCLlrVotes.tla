----------------------------- MODULE MCLlrVotes -----------------------------
(***************************************************************************)
(* Three validators of weights 2, 1 and 1. In MCLlrVotes.cfg they stay as  *)
(* they are in every epoch; in MCLlrVotesMoved.cfg v3 has gained weight in *)
(* epoch 2, which moves the bit index of v2 from 1 to 2.                   *)
(***************************************************************************)
EXTENDS LlrVotes, TLC

CONSTANTS v1, v2, v3, h1, h2

MCValidator == {v1, v2, v3}
MCEpoch == 0 .. 2
MCIndex == 0 .. 3
MCHash == {h1, h2}
MCMembers == [e \in MCEpoch |-> MCValidator]
MCPreLlrTop == [k \in {"block", "epoch"} |-> IF k = "block" THEN 1 ELSE 0]

\* Every validator weighs 1, those of Heavy weigh 2.
Weights(Heavy) == [V \in SUBSET MCValidator |-> Cardinality(V) + Cardinality(V \cap Heavy)]

StableIdxOf == [e \in MCEpoch |-> v1 :> 0 @@ v2 :> 1 @@ v3 :> 2]
StableWeightOf == [e \in MCEpoch |-> Weights({v1})]

MovedIdxOf == [StableIdxOf EXCEPT ![2] = v1 :> 0 @@ v3 :> 1 @@ v2 :> 2]
MovedWeightOf == [StableWeightOf EXCEPT ![2] = Weights({v1, v3})]

BlockBallot(c, g, e, s, vs) ==
  [kind |-> "block", creator |-> c, group |-> g, epoch |-> e, start |-> s, votes |-> vs]

EpochBallot(c, e, h) ==
  [kind |-> "epoch", creator |-> c, group |-> e - 1, epoch |-> e, start |-> e, votes |-> <<h>>]

\* v2 and v3 agree on blocks 1 and 2, and v2 repeats its vote for block 1 in the next
\* epoch; v1, which alone has a third, contradicts them; v3 also claims block 2 for the
\* wrong epoch.
MCBallot ==
  {BlockBallot(v2, 1, 1, 1, <<h1, h1>>),
   BlockBallot(v3, 1, 1, 1, <<h1, h1>>),
   BlockBallot(v2, 2, 1, 1, <<h1>>),
   BlockBallot(v1, 2, 1, 2, <<h2>>),
   BlockBallot(v3, 2, 2, 2, <<h2>>),
   EpochBallot(v1, 1, h1)}
=============================================================================
