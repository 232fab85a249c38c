------------------------------ MODULE MCTxPool ------------------------------
(***************************************************************************)
(* Two accounts and seven transactions for a pool that has room for four.  *)
(* With the second head an account's first has been mined and it can no    *)
(* longer pay for its second; with the third it can again.                 *)
(***************************************************************************)
EXTENDS TxPool

CONSTANTS a, b

T(acc, nonce, price, cost) == [from |-> acc, nonce |-> nonce, price |-> price, cost |-> cost]

a0 == T(a, 0, 1, 1)
a1 == T(a, 1, 1, 2)
a1x == T(a, 1, 2, 2)
a1y == T(a, 1, 3, 1)
a2 == T(a, 2, 1, 1)
b0 == T(b, 0, 1, 1)
b1 == T(b, 1, 1, 1)

MCTx == {a0, a1, a1x, a1y, a2, b0, b1}

State(na, ba, nb, bb) ==
  [x \in {a, b} |-> IF x = a THEN [nonce |-> na, balance |-> ba] ELSE [nonce |-> nb, balance |-> bb]]

MCHeadState == <<State(0, 2, 0, 1), State(1, 1, 0, 1), State(1, 2, 1, 1)>>

MCArgs == [c1 |-> [txs |-> <<a0, a1>>, local |-> FALSE, sync |-> FALSE],
           c2 |-> [txs |-> <<a1x, a1y>>, local |-> TRUE, sync |-> TRUE],
           c3 |-> [txs |-> <<a2, b1, b0>>, local |-> FALSE, sync |-> FALSE]]

MCCall == DOMAIN MCArgs

MCMade == {{"c1", "c2"}, {"c1", "c3"}}
=============================================================================
