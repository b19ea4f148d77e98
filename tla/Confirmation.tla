---------------------------- MODULE Confirmation ----------------------------
(***************************************************************************)
(* The confirmation tracker of the DPoS engine (consensus/dpos/dpos.go,    *)
(* updateConfirmedBlockHeader, loadConfirmedBlockHeader,                   *)
(* storeConfirmedBlockHeader).                                             *)
(*                                                                         *)
(* The chain is a tree of headers that grows by AddBlock; chain.           *)
(* CurrentHeader() is head.  A header is identified by its hash, a natural *)
(* number, and records its parent, number, validator and epoch            *)
(* (time / epochInterval), plus the set anc of its ancestors, which the    *)
(* code never reads and the properties use to name paths.                 *)
(*                                                                         *)
(* d.confirmedBlockHeader is the shared variable confirmed (Unset before   *)
(* the first call after a start); the key "confirmed-block-head" of the    *)
(* database is persisted.  Each caller p of updateConfirmedBlockHeader     *)
(* walks from the head towards confirmed, one loop iteration per step; its *)
(* locals curHeader, epoch and validatorMap are cur[p], epochW[p] and      *)
(* validatorMap[p], and top[p] is the head it started from.                *)
(***************************************************************************)
EXTENDS Integers, FiniteSets

CONSTANTS
    Validators,        \* the addresses that produce blocks
    MaxValidatorSize,  \* genesisHeader.MaxValidatorSize
    Callers,           \* goroutines that may call updateConfirmedBlockHeader
    MaxBlocks,         \* bound on the headers added after genesis
    MaxEpoch,          \* bound on the epoch of a header
    None               \* the genesis header's (zero) validator; no epoch yet

ASSUME ConfirmationAssumption ==
    /\ IsFiniteSet(Validators)
    /\ MaxValidatorSize \in Nat \ {0}
    /\ MaxBlocks \in Nat
    /\ MaxEpoch \in Nat
    /\ None \notin Validators

\* consensusSize := int(genesisHeader.MaxValidatorSize*2/3+1)
ConsensusSize == (MaxValidatorSize * 2) \div 3 + 1

Genesis == 0
Unset == -1

VARIABLES
    header,        \* hash -> header record
    head,          \* chain.CurrentHeader()
    confirmed,     \* d.confirmedBlockHeader
    persisted,     \* db value of "confirmed-block-head", or Unset
    pc,            \* caller -> "idle" | "walk" | "confirm" | "store"
    cur, top, epochW, validatorMap

chainVars == <<header, head>>
walkVars == <<pc, cur, top, epochW, validatorMap>>
vars == <<header, head, confirmed, persisted, pc, cur, top, epochW, validatorMap>>

Headers == [parent : Nat \cup {Unset}, number : Nat,
            validator : Validators \cup {None}, epoch : 0..MaxEpoch,
            anc : SUBSET Nat]

Number(h) == header[h].number

TypeOK ==
    /\ DOMAIN header \subseteq Nat
    /\ header \in [DOMAIN header -> Headers]
    /\ head \in DOMAIN header
    /\ confirmed \in DOMAIN header \cup {Unset}
    /\ persisted \in DOMAIN header \cup {Unset}
    /\ pc \in [Callers -> {"idle", "walk", "confirm", "store"}]
    /\ cur \in [Callers -> DOMAIN header]
    /\ top \in [Callers -> DOMAIN header]
    /\ epochW \in [Callers -> 0..MaxEpoch \cup {None}]
    /\ validatorMap \in [Callers -> SUBSET Validators]

Init ==
    /\ header = [h \in {Genesis} |->
                   [parent |-> Unset, number |-> 0, validator |-> None,
                    epoch |-> 0, anc |-> {}]]
    /\ head = Genesis
    /\ confirmed = Unset
    /\ persisted = Unset
    /\ pc = [p \in Callers |-> "idle"]
    /\ cur = [p \in Callers |-> Genesis]
    /\ top = [p \in Callers |-> Genesis]
    /\ epochW = [p \in Callers |-> None]
    /\ validatorMap = [p \in Callers |-> {}]

---------------------------------------------------------------------------
(* The environment: a header by validator v in epoch e is inserted as a   *)
(* child of parent.  Its time is later than the parent's (verifyHeader),  *)
(* so its epoch is not smaller.  The chain moves its head to the new      *)
(* header when it is at least as high (total difficulty with difficulty 1;*)
(* a tie may go either way).                                               *)
AddBlock(parent, v, e) ==
    LET h == Cardinality(DOMAIN header)
        new == [parent |-> parent, number |-> Number(parent) + 1,
                validator |-> v, epoch |-> e,
                anc |-> header[parent].anc \cup {parent}]
    IN /\ h <= MaxBlocks
       /\ e >= header[parent].epoch
       /\ header' = [x \in DOMAIN header \cup {h} |->
                       IF x = h THEN new ELSE header[x]]
       /\ head' \in IF new.number > Number(head) THEN {h}
                    ELSE IF new.number = Number(head) THEN {h, head}
                    ELSE {head}
       /\ UNCHANGED <<confirmed, persisted, walkVars>>

---------------------------------------------------------------------------
(* loadConfirmedBlockHeader, or the genesis header when it fails (no key   *)
(* in the database).                                                       *)
LoadConfirmed == IF persisted # Unset THEN persisted ELSE Genesis

(* Entry of updateConfirmedBlockHeader: when confirmed is unset, load it   *)
(* from the database, else fall back to the genesis header; then read      *)
(* chain.CurrentHeader() and start with epoch = -1 and an empty map.       *)
StartUpdate(p) ==
    /\ pc[p] = "idle"
    /\ confirmed' = IF confirmed # Unset THEN confirmed ELSE LoadConfirmed
    /\ pc' = [pc EXCEPT ![p] = "walk"]
    /\ cur' = [cur EXCEPT ![p] = head]
    /\ top' = [top EXCEPT ![p] = head]
    /\ epochW' = [epochW EXCEPT ![p] = None]
    /\ validatorMap' = [validatorMap EXCEPT ![p] = {}]
    /\ UNCHANGED <<chainVars, persisted>>

\* The loop condition: curHeader is not confirmed and is above it.
InLoop(p) == confirmed # cur[p] /\ Number(confirmed) < Number(cur[p])

\* A plausible bug of MapAtEpoch: the map is not reset at an epoch change.
MapAtEpochNoReset(p) == validatorMap[p]

\* validatorMap after the epoch check at the top of an iteration.
MapAtEpoch(p) ==
    IF header[cur[p]].epoch # epochW[p] THEN {} ELSE validatorMap[p]

\* A plausible bug of FastReturn: an off-by-one in the comparison.
FastReturnEarly(p) ==
    Number(cur[p]) - Number(confirmed) <= ConsensusSize - Cardinality(MapAtEpoch(p))

\* The fast return: too few headers are left to reach consensusSize.
FastReturn(p) ==
    Number(cur[p]) - Number(confirmed) < ConsensusSize - Cardinality(MapAtEpoch(p))

\* A plausible bug of MapWithCur: the map is keyed by the header's hash.
MapWithCurHash(p) == MapAtEpoch(p) \cup {cur[p]}

\* validatorMap after adding curHeader.Validator.
MapWithCur(p) == MapAtEpoch(p) \cup {header[cur[p]].validator}

Finish(p) == pc' = [pc EXCEPT ![p] = "idle"]

(* The loop condition fails: return nil.                                   *)
WalkExit(p) ==
    /\ pc[p] = "walk"
    /\ ~InLoop(p)
    /\ Finish(p)
    /\ UNCHANGED <<chainVars, confirmed, persisted, cur, top, epochW, validatorMap>>

(* The fast return.                                                        *)
WalkFastReturn(p) ==
    /\ pc[p] = "walk"
    /\ InLoop(p)
    /\ FastReturn(p)
    /\ Finish(p)
    /\ UNCHANGED <<chainVars, confirmed, persisted, cur, top, epochW, validatorMap>>

(* consensusSize distinct validators: the iteration goes on to confirm    *)
(* curHeader.  Its reads of d.confirmedBlockHeader are over; the writes    *)
(* below are separate steps, as nothing orders them with other callers.   *)
WalkConfirm(p) ==
    /\ pc[p] = "walk"
    /\ InLoop(p)
    /\ ~FastReturn(p)
    /\ Cardinality(MapWithCur(p)) >= ConsensusSize
    /\ pc' = [pc EXCEPT ![p] = "confirm"]
    /\ UNCHANGED <<chainVars, confirmed, persisted, cur, top, epochW, validatorMap>>

\* A plausible bug of SetConfirmed: the head the walk started from is taken.
SetConfirmedToHead(p) ==
    /\ pc[p] = "confirm"
    /\ confirmed' = top[p]
    /\ pc' = [pc EXCEPT ![p] = "store"]
    /\ UNCHANGED <<chainVars, persisted, cur, top, epochW, validatorMap>>

(* d.confirmedBlockHeader = curHeader                                      *)
SetConfirmed(p) ==
    /\ pc[p] = "confirm"
    /\ confirmed' = cur[p]
    /\ pc' = [pc EXCEPT ![p] = "store"]
    /\ UNCHANGED <<chainVars, persisted, cur, top, epochW, validatorMap>>

(* storeConfirmedBlockHeader: db.Put of d.confirmedBlockHeader.Hash(), as  *)
(* the field reads now; then return nil.                                   *)
StoreConfirmed(p) ==
    /\ pc[p] = "store"
    /\ persisted' = confirmed
    /\ Finish(p)
    /\ UNCHANGED <<chainVars, confirmed, cur, top, epochW, validatorMap>>

(* A plausible bug of WalkDescend: the next header is looked up by the     *)
(* current header's own hash instead of its parent hash.                  *)
WalkDescendStuck(p) ==
    /\ pc[p] = "walk"
    /\ InLoop(p)
    /\ ~FastReturn(p)
    /\ Cardinality(MapWithCur(p)) < ConsensusSize
    /\ epochW' = [epochW EXCEPT ![p] = header[cur[p]].epoch]
    /\ validatorMap' = [validatorMap EXCEPT ![p] = MapWithCur(p)]
    /\ UNCHANGED <<chainVars, confirmed, persisted, pc, cur, top>>

(* Not yet: go on with the parent header.                                  *)
WalkDescend(p) ==
    /\ pc[p] = "walk"
    /\ InLoop(p)
    /\ ~FastReturn(p)
    /\ Cardinality(MapWithCur(p)) < ConsensusSize
    /\ cur' = [cur EXCEPT ![p] = header[cur[p]].parent]
    /\ epochW' = [epochW EXCEPT ![p] = header[cur[p]].epoch]
    /\ validatorMap' = [validatorMap EXCEPT ![p] = MapWithCur(p)]
    /\ UNCHANGED <<chainVars, confirmed, persisted, pc, top>>

(* The node stops and starts again: the in-memory pointer is gone, the    *)
(* database and the chain remain, every call in progress is abandoned.    *)
Restart ==
    /\ confirmed' = Unset
    /\ pc' = [p \in Callers |-> "idle"]
    /\ UNCHANGED <<chainVars, persisted, cur, top, epochW, validatorMap>>

Next ==
    \/ \E parent \in DOMAIN header, v \in Validators, e \in 0..MaxEpoch :
          AddBlock(parent, v, e)
    \/ \E p \in Callers :
          \/ StartUpdate(p)
          \/ WalkExit(p)
          \/ WalkFastReturn(p)
          \/ WalkConfirm(p)
          \/ SetConfirmed(p)
          \/ StoreConfirmed(p)
          \/ WalkDescend(p)
    \/ Restart

Spec == Init /\ [][Next]_vars

\* The steps of caller p's call, from its entry to its return.
Walk(p) ==
    \/ WalkExit(p) \/ WalkFastReturn(p) \/ WalkConfirm(p)
    \/ SetConfirmed(p) \/ StoreConfirmed(p) \/ WalkDescend(p)

(* A call in progress is synchronous code on a running goroutine: once it  *)
(* has started, its next step is eventually taken.  Calls themselves come  *)
(* from block import (verifySeal), blocks from the network and restarts   *)
(* from the operator, none of which is assumed to happen.                  *)
FairSpec == Spec /\ \A p \in Callers : WF_vars(Walk(p))

---------------------------------------------------------------------------
(* The promise of the tracker, with the same chain and pointers.  Its     *)
(* Confirmable(b, t) is the reference rule: consensusSize distinct         *)
(* validators of b's epoch on the path from b up to t.                     *)
Pointer == INSTANCE ConfirmedPointer
               WITH header <- header, confirmed <- confirmed,
                    persisted <- persisted

\* A step where caller p's call of updateConfirmedBlockHeader returns.
Returns(p) == pc[p] = "walk" /\ pc'[p] = "idle" /\ confirmed' # Unset

(* Soundness of confirmation: every header that updateConfirmedBlockHeader *)
(* confirmed, in memory or in the database, has consensusSize distinct     *)
(* validators of its epoch building on it in the chain, across epoch       *)
(* changes inside the walk.                                                *)
ConfirmedSound ==
    \A c \in {confirmed, persisted} \ {Unset, Genesis} :
        \E t \in DOMAIN header : Pointer!Confirmable(c, t)

(* The confirmed block number never decreases across calls (spec 8.6):    *)
(* neither d.confirmedBlockHeader while the process lives nor the pointer *)
(* in the database, from which a restarted node reloads it.               *)
ConfirmedNeverRegresses ==
    [][/\ confirmed # Unset /\ confirmed' # Unset
           => header'[confirmed'].number >= Number(confirmed)
       /\ persisted # Unset
           => header'[persisted'].number >= Number(persisted)]_vars

(* A call confirms as far as the rule allows: when it returns, no header  *)
(* above the confirmed one on the chain it walked is confirmable from the *)
(* head it started from.  The fast return must never give up too early.  *)
WalkComplete ==
    [][\A p \in Callers :
         Returns(p) =>
           \A b \in {top[p]} \cup header[top[p]].anc :
              Number(b) > header[confirmed'].number => ~Pointer!Confirmable(b, top[p])]_vars

(* Scenario S7 of the spec: a call that advances the confirmed pointer     *)
(* moves it to the head the call started from.                             *)
ConfirmAdvancesToHead ==
    [][\A p \in Callers :
         pc[p] = "confirm" /\ pc'[p] = "store" => confirmed' = top[p]]_vars

(* Every call of updateConfirmedBlockHeader returns: the walk from the    *)
(* head reaches the confirmed header's height, returns early or confirms, *)
(* however the chain grows meanwhile.                                      *)
WalkTerminates == \A p \in Callers : pc[p] # "idle" ~> pc[p] = "idle"

(* The tracker implements its promise (ConfirmedPointer) under the         *)
(* identity mapping of the chain and both pointers: each call, a walk of  *)
(* many steps, moves d.confirmedBlockHeader only up to a confirmable       *)
(* header, the database only receives a pointer the process held, and a   *)
(* restart reloads it.                                                     *)
ConfirmationRefinesPointer == Pointer!PSpec

=============================================================================
