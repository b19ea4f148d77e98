----------------------------- MODULE MCMintCnt -----------------------------
(* Small instances of MintCnt: two or three validators, epochs of two      *)
(* seconds and one-second slots, so that a chain of a few blocks has       *)
(* several blocks by one validator in one epoch and crosses epochs, with   *)
(* and without skipping one.                                               *)
EXTENDS MintCnt

MCValidators2 == {1, 2}
MCValidators3 == {1, 2, 3}
=============================================================================
