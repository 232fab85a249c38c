---------------------------- MODULE LlrDecision ----------------------------
(***************************************************************************)
(* What low-latency recovery (LLR) voting promises the rest of the node:   *)
(* a block or epoch record is decided only on the word of validators that  *)
(* hold more than a third of the weight, it is decided as soon as such a   *)
(* third has spoken, a decision is never revised, and a restart returns to *)
(* some earlier state of this kind without losing a flushed decision.      *)
(*                                                                         *)
(* LlrVotes models how gossip/c_llr_callbacks.go keeps that promise with   *)
(* vote bitmaps, a write-back cache and a flushable database.              *)
(***************************************************************************)

CONSTANTS
  Item,        \* block numbers and epoch numbers that are voted on
  Side,        \* what a vote may stand for: an epoch together with a record hash
  Voter,       \* validators
  Value,       \* record hashes
  NoValue,     \* "not decided"
  ValueOf(_),  \* the record hash of a side
  Enough(_, _) \* Enough(s, V): V holds more than a third of the weight on side s

VARIABLES
  votes,       \* the votes counted so far, triples <<item, side, voter>>
  result,      \* the decision of each item, or NoValue
  kept         \* votes and result as of the last flush

vars == <<votes, result, kept>>

----------------------------------------------------------------------------

\* The sides of item i that somebody in the vote set vs stands on, and who stands on s.
Sides(vs, i) == {w[2] : w \in {u \in vs : u[1] = i}}

Backers(vs, i, s) == {v \in Voter : <<i, s, v>> \in vs}

\* The hashes that more than a third of the weight stands behind.
Backed(vs, i) == {ValueOf(s) : s \in {t \in Sides(vs, i) : Enough(t, Backers(vs, i, t))}}

Init ==
  /\ votes = {}
  /\ result = [i \in Item |-> NoValue]
  /\ kept = [votes |-> {}, result |-> [i \in Item |-> NoValue]]

\* More votes are counted; every item they complete is decided at once.
Count ==
  /\ votes \subseteq votes'
  /\ votes' \subseteq Item \X Side \X Voter
  /\ result' \in [Item -> Value \cup {NoValue}]
  /\ LET now == votes'
     IN \A i \in Item :
          IF result[i] # NoValue
            THEN result'[i] = result[i]
            ELSE LET backed == Backed(now, i)
                 IN result'[i] \in IF backed = {} THEN {NoValue} ELSE backed
  /\ UNCHANGED kept

\* The state becomes durable.
Flush ==
  /\ kept' = [votes |-> votes, result |-> result]
  /\ UNCHANGED <<votes, result>>

\* A restart forgets what was not flushed.
Restart ==
  /\ votes' = kept.votes
  /\ result' = kept.result
  /\ UNCHANGED kept

Next == Count \/ Flush \/ Restart

Spec == Init /\ [][Next]_vars

----------------------------------------------------------------------------
(* Consequences, proved of LLR voting in LlrVotesProofs *)

\* A decision on record r and vote set vs is right: decided items have a third
\* behind the decided hash, and no item with a third behind it is undecided.
Right(vs, r) ==
  \A i \in Item :
    /\ r[i] # NoValue => r[i] \in Backed(vs, i)
    /\ r[i] = NoValue => Backed(vs, i) = {}

\* c_llr_callbacks.go processBlockVote: every decision, in memory and on disk,
\* is backed by a third, and no backed item is left undecided.
DecisionsRight == Right(votes, result) /\ Right(kept.votes, kept.result)

\* What the last flush holds is never contradicted by the running state.
MemoryExtendsDisk ==
  /\ kept.votes \subseteq votes
  /\ \A i \in Item : kept.result[i] # NoValue => result[i] = kept.result[i]
=============================================================================
