--------------------------- MODULE MCDposContext ---------------------------
(* DposContext on three addresses, each of which may be both a candidate   *)
(* and a voter.                                                            *)
EXTENDS DposContext

MCAddr == {1, 2, 3}
=============================================================================
