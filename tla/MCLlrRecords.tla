---------------------------- MODULE MCLlrRecords ----------------------------
(***************************************************************************)
(* Four epochs of a block each: epoch 2 turns Berlin on, epoch 3 London,   *)
(* and the record of epoch 4 may be there before consensus seals epoch 2.  *)
(* No epoch turns an upgrade off: see NoneRevoked and AtMostTwoChanges.    *)
(***************************************************************************)
EXTENDS LlrRecords

MCFirstBlock == <<1, 2, 3, 4>>

MCUpgrades == <<{}, {"berlin"}, {"berlin", "london"}, {"berlin", "london"}>>
=============================================================================
