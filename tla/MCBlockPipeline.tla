-------------------------- MODULE MCBlockPipeline ---------------------------
(***************************************************************************)
(* A small instance of BlockPipeline. Validator 4 joins in the second      *)
(* epoch, 3 may be seen to fork; the first event has a transaction that is *)
(* too early, and that later events repeat; one is unpaid and can be       *)
(* executed twice; events together exceed the gas of a block.              *)
(***************************************************************************)
EXTENDS BlockPipeline

CONSTANTS a1, a2, a3

Call(a, n, gas, runs, claims, log) ==
  [from |-> a, nonce |-> n, gas |-> gas, runs |-> runs, claims |-> claims, unpaid |-> FALSE, log |-> log]
First == Call(a1, 0, 30, 10, FALSE, [kind |-> "advance", num |-> 1])
Second == Call(a1, 1, 5, 5, FALSE, [kind |-> "weight", validator |-> 4, on |-> TRUE])
Claims == Call(a2, 0, 20, 10, TRUE, [kind |-> "rules", diff |-> [price |-> 2]])
Leaves == Call(a2, 1, 20, 18, FALSE, [kind |-> "weight", validator |-> 2, on |-> FALSE])
Unpaid == [Call(a3, 0, 2, 1, FALSE, [kind |-> "none"]) EXCEPT !.unpaid = TRUE]
Other == Call(a3, 0, 20, 10, FALSE, [kind |-> "rules", diff |-> [maxBlockGas |-> 250]])

Ev(epoch, creator, time, gas, txs, proven) ==
  [epoch |-> epoch, creator |-> creator, time |-> time, gas |-> gas, txs |-> txs, proven |-> proven]
MCBody == <<
  Ev(1, 1, 1, 6, <<Second>>, {}),
  Ev(1, 2, 2, 31, <<First>>, {}),
  Ev(1, 3, 3, 8, <<Unpaid, Second>>, {}),
  Ev(1, 1, 4, 46, <<Second, Claims, Other>>, {3}),
  Ev(2, 2, 6, 1, <<>>, {3}),
  Ev(2, 1, 7, 21, <<Claims>>, {}),
  Ev(2, 4, 8, 26, <<Second, Leaves>>, {}),
  Ev(3, 1, 11, 220, <<>>, {}),
  Ev(3, 2, 12, 63, <<Claims, Unpaid, Other, Leaves>>, {})>>

MCRules == [price |-> 1, maxBlockGas |-> 85]
MCFunds == [a \in {a1, a2, a3} |-> 100]
=============================================================================
