----------------------------- MODULE MCProducer -----------------------------
(***************************************************************************)
(* Two validators a and b; the schedule <<a, b>> over three slots per      *)
(* epoch gives a the last slot of one epoch and the first of the next.     *)
(* a's keystore also holds an unscheduled account a2, so that Authorize    *)
(* can switch a's engine away from a and back.                             *)
(***************************************************************************)
EXTENDS Producer

CONSTANTS a, b, a2

MCNodes2 == {a, b}
MCAccounts == {a, b, a2}
MCKeys == [n \in MCNodes2 |-> IF n = a THEN {a, a2} ELSE {n}]
MCSchedule2 == <<a, b>>
=============================================================================
