-------------------------- MODULE MCConfirmation ---------------------------
(* The confirmation tracker with three validators, consensusSize 3.        *)
EXTENDS Confirmation

CONSTANTS a, b, c, p1, p2

MCValidators == {a, b, c}
MCOneCaller == {p1}
MCTwoCallers == {p1, p2}
=============================================================================
