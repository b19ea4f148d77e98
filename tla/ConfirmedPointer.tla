-------------------------- MODULE ConfirmedPointer --------------------------
(***************************************************************************)
(* What the confirmation tracker promises (spec 4.E and 8.6), with every   *)
(* call of updateConfirmedBlockHeader one atomic step.  The chain is a set *)
(* of headers that only grows.  The in-memory pointer confirmed is loaded  *)
(* from the database pointer persisted (genesis when there is none) when  *)
(* it is unset, moves only up, to a header that consensusSize distinct    *)
(* validators of its epoch have built on, and is written to the database. *)
(* A restart forgets the in-memory pointer and keeps the database.        *)
(***************************************************************************)
EXTENDS Integers, FiniteSets

CONSTANTS Validators, MaxValidatorSize, None

VARIABLES header, confirmed, persisted

pvars == <<header, confirmed, persisted>>

\* consensus_size = max_validator_size*2/3 + 1
ConsensusSize == (MaxValidatorSize * 2) \div 3 + 1

Genesis == 0
Unset == -1

Number(h) == header[h].number

(* The headers from b up to t when b is an ancestor of t, the distinct     *)
(* validators among those of b's epoch, and b being confirmable from t:   *)
(* consensusSize of them have built on b.                                  *)
Path(b, t) == {x \in {t} \cup header[t].anc : x = b \/ b \in header[x].anc}

Witnesses(b, t) ==
    {header[x].validator : x \in {y \in Path(b, t) : header[y].epoch = header[b].epoch}}

Confirmable(b, t) ==
    /\ b \in {t} \cup header[t].anc
    /\ Cardinality(Witnesses(b, t)) >= ConsensusSize

PInit ==
    /\ header = [h \in {Genesis} |->
                   [parent |-> Unset, number |-> 0, validator |-> None,
                    epoch |-> 0, anc |-> {}]]
    /\ confirmed = Unset
    /\ persisted = Unset

\* New headers are inserted; existing ones never change.
Grow ==
    /\ DOMAIN header \subseteq DOMAIN header'
    /\ \A x \in DOMAIN header : header'[x] = header[x]
    /\ UNCHANGED <<confirmed, persisted>>

\* An unset pointer is loaded from the database, else set to genesis.
Load ==
    /\ confirmed = Unset
    /\ confirmed' = IF persisted # Unset THEN persisted ELSE Genesis
    /\ UNCHANGED <<header, persisted>>

\* The pointer moves up to a confirmable header.
Advance ==
    /\ confirmed # Unset
    /\ confirmed' \in DOMAIN header
    /\ Number(confirmed') > Number(confirmed)
    /\ \E t \in DOMAIN header : Confirmable(confirmed', t)
    /\ UNCHANGED <<header, persisted>>

\* The database receives the in-memory pointer.
Persist ==
    /\ confirmed # Unset
    /\ persisted' = confirmed
    /\ UNCHANGED <<header, confirmed>>

\* The process stops: the in-memory pointer is gone.
Forget ==
    /\ confirmed' = Unset
    /\ UNCHANGED <<header, persisted>>

PNext == Grow \/ Load \/ Advance \/ Persist \/ Forget

PSpec == PInit /\ [][PNext]_pvars

=============================================================================
