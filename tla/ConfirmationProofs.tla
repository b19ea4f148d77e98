------------------------- MODULE ConfirmationProofs -------------------------
(***************************************************************************)
(* Proofs about the confirmation tracker (Confirmation), for every set of  *)
(* validators, callers, MaxValidatorSize and bounds:                       *)
(*   TypeCorrect        every step keeps the state typed;                  *)
(*   ConfirmedIsSound   every confirmed header, in memory or on disk, is   *)
(*                      confirmable (ConfirmedSound);                      *)
(*   WalkRefinesPointer with one caller the walk implements the abstract   *)
(*                      pointer ConfirmedPointer.                          *)
(* They rest on an inductive invariant of the header tree (hashes are      *)
(* dense, an ancestor set is its parent's plus the parent) and of each     *)
(* caller's walk (its validatorMap holds validators of headers on the path *)
(* from curHeader up to the head it started from, of the map's epoch).     *)
(***************************************************************************)
EXTENDS Confirmation, FiniteSetTheorems, TLAPS

\* The header tree built by AddBlock from genesis.
Tree ==
    /\ IsFiniteSet(DOMAIN header)
    /\ DOMAIN header = 0..Cardinality(DOMAIN header) - 1
    /\ header[Genesis].number = 0
    /\ header[Genesis].anc = {}
    /\ \A x \in DOMAIN header \ {Genesis} :
          /\ header[x].parent \in DOMAIN header
          /\ header[x].validator \in Validators
          /\ header[x].anc = header[header[x].parent].anc \cup {header[x].parent}
    /\ \A x \in DOMAIN header :
          /\ header[x].anc \subseteq DOMAIN header
          /\ \A y \in header[x].anc : header[y].anc \subseteq header[x].anc

(* Caller p's walk: a call in progress has a pointer to compare with; the  *)
(* header it walks is on the chain below the head it started from, and     *)
(* its map holds only validators of headers of the map's epoch on the path *)
(* from that header up; a call about to confirm has a confirmable header.  *)
WalkInv(p) ==
    /\ pc[p] # "idle" => confirmed # Unset
    /\ pc[p] = "walk" =>
          /\ cur[p] \in {top[p]} \cup header[top[p]].anc
          /\ validatorMap[p] \subseteq
               {header[x].validator :
                  x \in {y \in Pointer!Path(cur[p], top[p]) : header[y].epoch = epochW[p]}}
    /\ pc[p] = "confirm" => Pointer!Confirmable(cur[p], top[p])

IInv ==
    /\ TypeOK
    /\ Tree
    /\ \A p \in Callers : WalkInv(p)
    /\ ConfirmedSound

(* With one caller, a call about to confirm moves the pointer up.          *)
OneCallerInv ==
    \A p \in Callers : pc[p] = "confirm" => Number(confirmed) < Number(cur[p])

---------------------------------------------------------------------------
(* The facts about the constants the steps use.                           *)
LEMMA ConstantsFacts ==
    /\ IsFiniteSet(Validators \cup {None})
    /\ MaxValidatorSize \in Nat \ {0}
    /\ MaxBlocks \in Nat
    /\ MaxEpoch \in Nat
    /\ None \notin Validators
BY ConfirmationAssumption, FS_AddElement

(* The abstract module counts with the same Cardinality.                  *)
LEMMA PointerCardinality ==
    \A S : Pointer!Cardinality(S) = Cardinality(S)
BY DEF Pointer!Cardinality, Cardinality

(* AddBlock inserts the new header under the next free hash and leaves     *)
(* every existing header as it was.                                        *)
LEMMA AddBlockFacts ==
    ASSUME TypeOK, Tree,
           NEW parent \in DOMAIN header, NEW v \in Validators,
           NEW e \in 0..MaxEpoch, AddBlock(parent, v, e)
    PROVE  LET h == Cardinality(DOMAIN header)
           IN  /\ h \in Nat
               /\ h \notin DOMAIN header
               /\ DOMAIN header' = 0..h
               /\ DOMAIN header' = DOMAIN header \cup {h}
               /\ \A x \in DOMAIN header : header'[x] = header[x]
               /\ header'[h] = [parent |-> parent, number |-> Number(parent) + 1,
                                validator |-> v, epoch |-> e,
                                anc |-> header[parent].anc \cup {parent}]
<1> DEFINE h == Cardinality(DOMAIN header)
<1>1. h \in Nat
  BY FS_CardinalityType DEF Tree
<1>2. DOMAIN header = 0..h - 1
  BY DEF Tree
<1>3. DOMAIN header' = DOMAIN header \cup {h}
  BY DEF AddBlock
<1> QED
  BY <1>1, <1>2, <1>3 DEF AddBlock

(* A header tree that only grows keeps every path, witness set and         *)
(* confirmability between headers it already had.                         *)
LEMMA GrowKeepsPaths ==
    ASSUME TypeOK, Tree,
           DOMAIN header \subseteq DOMAIN header',
           \A x \in DOMAIN header : header'[x] = header[x],
           NEW b \in DOMAIN header, NEW t \in DOMAIN header
    PROVE  /\ Pointer!Path(b, t)' = Pointer!Path(b, t)
           /\ Pointer!Witnesses(b, t)' = Pointer!Witnesses(b, t)
           /\ Pointer!Confirmable(b, t)' <=> Pointer!Confirmable(b, t)
<1>1. header[t].anc \subseteq DOMAIN header
  BY DEF Tree
<1>2. Pointer!Path(b, t)' = Pointer!Path(b, t)
  BY <1>1 DEF Pointer!Path
<1>3. Pointer!Path(b, t) \subseteq DOMAIN header
  BY <1>1 DEF Pointer!Path
<1>4. Pointer!Witnesses(b, t)' = Pointer!Witnesses(b, t)
  BY <1>2, <1>3 DEF Pointer!Witnesses
<1>5. header'[t] = header[t]
  OBVIOUS
<1>6. (b \in {t} \cup header[t].anc)' <=> b \in {t} \cup header[t].anc
  BY <1>5
<1> QED
  BY <1>2, <1>4, <1>6 DEF Pointer!Confirmable

(* Every step other than AddBlock leaves the chain as it is.              *)
LEMMA ChainUnchanged ==
    ASSUME [Next]_vars,
           ~\E parent \in DOMAIN header, v \in Validators, e \in 0..MaxEpoch :
               AddBlock(parent, v, e)
    PROVE  UNCHANGED chainVars
BY DEF Next, vars, chainVars, StartUpdate, WalkExit, WalkFastReturn, WalkConfirm,
       SetConfirmed, StoreConfirmed, WalkDescend, Restart

(* AddBlock keeps the shape of the header tree.                           *)
LEMMA TreeAddBlock ==
    ASSUME TypeOK, Tree,
           NEW parent \in DOMAIN header, NEW v \in Validators,
           NEW e \in 0..MaxEpoch, AddBlock(parent, v, e)
    PROVE  Tree'
<1> DEFINE h == Cardinality(DOMAIN header)
           added == header'[h]
<1>1. /\ h \in Nat
      /\ h \notin DOMAIN header
      /\ DOMAIN header' = 0..h
      /\ DOMAIN header' = DOMAIN header \cup {h}
      /\ \A x \in DOMAIN header : header'[x] = header[x]
      /\ added = [parent |-> parent, number |-> Number(parent) + 1,
                  validator |-> v, epoch |-> e,
                  anc |-> header[parent].anc \cup {parent}]
  BY AddBlockFacts, Zenon
<1>1a. added.parent = parent /\ added.validator = v
       /\ added.anc = header[parent].anc \cup {parent}
  BY <1>1
<1>2. IsFiniteSet(DOMAIN header') /\ Cardinality(DOMAIN header') = h + 1
  BY <1>1, FS_Interval
<1>3. Genesis \in DOMAIN header
  BY <1>1 DEF TypeOK, Tree, Genesis
<1>4. DOMAIN header' = 0..Cardinality(DOMAIN header') - 1
  BY <1>1, <1>2
<1>5. header'[Genesis] = header[Genesis]
  BY <1>1, <1>3
<1>6. ASSUME NEW x \in DOMAIN header' \ {Genesis}
      PROVE  /\ header'[x].parent \in DOMAIN header'
             /\ header'[x].validator \in Validators
             /\ header'[x].anc = header'[header'[x].parent].anc \cup {header'[x].parent}
  <2>1. CASE x = h
    BY <1>1, <1>1a, <2>1
  <2>2. CASE x # h
    <3>1. x \in DOMAIN header \ {Genesis} /\ header'[x] = header[x]
      BY <1>1, <2>2
    <3>2. header[x].parent \in DOMAIN header
      BY <3>1 DEF Tree
    <3> QED
      BY <1>1, <3>1, <3>2 DEF Tree
  <2> QED
    BY <2>1, <2>2
<1>7. ASSUME NEW x \in DOMAIN header'
      PROVE  /\ header'[x].anc \subseteq DOMAIN header'
             /\ \A y \in header'[x].anc : header'[y].anc \subseteq header'[x].anc
  <2>1. header[parent].anc \subseteq DOMAIN header
        /\ \A y \in header[parent].anc : header[y].anc \subseteq header[parent].anc
    BY DEF Tree
  <2>2. CASE x = h
    BY <1>1, <1>1a, <2>1, <2>2
  <2>3. CASE x # h
    <3>1. x \in DOMAIN header /\ header'[x] = header[x]
      BY <1>1, <2>3
    <3>2. header[x].anc \subseteq DOMAIN header
          /\ \A y \in header[x].anc : header[y].anc \subseteq header[x].anc
      BY <3>1 DEF Tree
    <3> QED
      BY <1>1, <3>1, <3>2
  <2> QED
    BY <2>2, <2>3
<1> QED
  BY <1>2, <1>4, <1>5, <1>6, <1>7 DEF Tree

(* Every step keeps the shape of the header tree.                         *)
LEMMA TreeNext ==
    ASSUME TypeOK, Tree, [Next]_vars
    PROVE  Tree'
<1>1. CASE \E parent \in DOMAIN header, v \in Validators, e \in 0..MaxEpoch :
               AddBlock(parent, v, e)
  BY <1>1, TreeAddBlock
<1>2. CASE ~\E parent \in DOMAIN header, v \in Validators, e \in 0..MaxEpoch :
               AddBlock(parent, v, e)
  BY <1>2, ChainUnchanged DEF chainVars, Tree
<1> QED
  BY <1>1, <1>2

(* A new header keeps the invariant: the tree grows and every header a     *)
(* walk or a pointer refers to, with the paths above it, stays as it was.  *)
LEMMA AddBlockInv ==
    ASSUME IInv,
           NEW parent \in DOMAIN header, NEW v \in Validators,
           NEW e \in 0..MaxEpoch, AddBlock(parent, v, e)
    PROVE  IInv'
<1> DEFINE h == Cardinality(DOMAIN header)
<1>1. TypeOK /\ Tree
  BY DEF IInv
<1>2. /\ h \in Nat
      /\ DOMAIN header' = DOMAIN header \cup {h}
      /\ \A x \in DOMAIN header : header'[x] = header[x]
      /\ header'[h] = [parent |-> parent, number |-> Number(parent) + 1,
                       validator |-> v, epoch |-> e,
                       anc |-> header[parent].anc \cup {parent}]
  BY <1>1, AddBlockFacts, Zenon
<1>3. UNCHANGED <<confirmed, persisted, walkVars>>
  BY DEF AddBlock
<1>4. TypeOK'
  <2>1. header[parent].anc \subseteq DOMAIN header
    BY <1>1 DEF Tree
  <2>2. header'[h] \in Headers
    BY <1>1, <1>2, <2>1 DEF TypeOK, Headers, Number
  <2>3. header' = [x \in DOMAIN header' |-> header'[x]]
    BY DEF AddBlock
  <2>4. \A x \in DOMAIN header' : header'[x] \in Headers
    BY <1>1, <1>2, <2>2 DEF TypeOK
  <2>5. header' \in [DOMAIN header' -> Headers] /\ DOMAIN header' \subseteq Nat
    BY <1>1, <1>2, <2>3, <2>4 DEF TypeOK
  <2>6. head' \in DOMAIN header'
    BY <1>1, <1>2 DEF AddBlock, TypeOK
  <2> QED
    BY <1>1, <1>2, <1>3, <2>5, <2>6 DEF TypeOK, walkVars
<1>5. Tree'
  BY <1>1, TreeAddBlock
<1>6. ASSUME NEW b \in DOMAIN header, NEW t \in DOMAIN header
      PROVE  /\ Pointer!Path(b, t)' = Pointer!Path(b, t)
             /\ Pointer!Path(b, t) \subseteq DOMAIN header
             /\ header'[t] = header[t]
             /\ Pointer!Confirmable(b, t)' <=> Pointer!Confirmable(b, t)
  <2>1. DOMAIN header \subseteq DOMAIN header'
    BY <1>2
  <2>2. Pointer!Path(b, t) \subseteq DOMAIN header
    BY <1>1 DEF Tree, Pointer!Path
  <2> QED
    BY <1>1, <1>2, <2>1, <2>2, GrowKeepsPaths
<1>7. ASSUME NEW p \in Callers
      PROVE  WalkInv(p)'
  <2>1. WalkInv(p) /\ cur[p] \in DOMAIN header /\ top[p] \in DOMAIN header
    BY <1>1 DEF IInv, TypeOK
  <2>2. (pc[p] = "walk" =>
           /\ cur[p] \in {top[p]} \cup header[top[p]].anc
           /\ validatorMap[p] \subseteq
                {header[x].validator :
                   x \in {y \in Pointer!Path(cur[p], top[p]) : header[y].epoch = epochW[p]}})'
    <3>1. \A y \in Pointer!Path(cur[p], top[p]) : header'[y] = header[y]
      BY <1>2, <1>6, <2>1
    <3> QED
      BY <1>3, <1>6, <2>1, <3>1 DEF WalkInv, walkVars
  <2> QED
    BY <1>3, <1>6, <2>1, <2>2 DEF WalkInv, walkVars
<1>8. ConfirmedSound'
  <2>1. SUFFICES ASSUME NEW c \in {confirmed, persisted} \ {Unset, Genesis}
                 PROVE  \E t \in DOMAIN header' : Pointer!Confirmable(c, t)'
    BY <1>3 DEF ConfirmedSound
  <2>2. PICK t \in DOMAIN header : Pointer!Confirmable(c, t)
    BY DEF IInv, ConfirmedSound
  <2>3. c \in DOMAIN header
    BY <1>1 DEF TypeOK
  <2> QED
    BY <1>2, <1>6, <2>2, <2>3
<1> QED
  BY <1>4, <1>5, <1>7, <1>8 DEF IInv

(* Inside the loop, curHeader is above the confirmed header, hence not     *)
(* genesis: it has a parent, a validator, and its parent's ancestors.      *)
LEMMA InLoopFacts ==
    ASSUME TypeOK, Tree, confirmed # Unset,
           NEW p \in Callers, InLoop(p)
    PROVE  LET x == cur[p]
           IN  /\ x \in DOMAIN header \ {Genesis}
               /\ header[x].parent \in DOMAIN header
               /\ header[x].validator \in Validators
               /\ header[x].anc = header[header[x].parent].anc \cup {header[x].parent}
<1>1. Number(confirmed) \in Nat /\ Number(cur[p]) > Number(confirmed)
  BY DEF TypeOK, InLoop, Headers, Number
<1>2. cur[p] \in DOMAIN header \ {Genesis}
  BY <1>1 DEF TypeOK, Tree, Number
<1> QED
  BY <1>2 DEF Tree

(* Genesis is in every tree.                                               *)
LEMMA GenesisInTree ==
    ASSUME TypeOK, Tree
    PROVE  Genesis \in DOMAIN header
<1>1. Cardinality(DOMAIN header) \in Nat
  BY FS_CardinalityType DEF Tree
<1> QED
  BY <1>1 DEF TypeOK, Tree, Genesis

(* Every path lies in the tree.                                            *)
LEMMA PathInTree ==
    ASSUME TypeOK, Tree, NEW b, NEW t \in DOMAIN header
    PROVE  Pointer!Path(b, t) \subseteq DOMAIN header
BY DEF Tree, Pointer!Path

(* The witnesses of a header are validators or the genesis validator,      *)
(* finitely many.                                                          *)
LEMMA WitnessesFinite ==
    ASSUME TypeOK, Tree, NEW b \in DOMAIN header, NEW t \in DOMAIN header
    PROVE  IsFiniteSet(Pointer!Witnesses(b, t))
<1>1. Pointer!Witnesses(b, t) \subseteq Validators \cup {None}
  <2>1. Pointer!Path(b, t) \subseteq DOMAIN header
    BY PathInTree
  <2> QED
    BY <2>1 DEF TypeOK, Headers, Pointer!Witnesses
<1> QED
  BY <1>1, ConstantsFacts, FS_Subset

(* One step down: the path from a header up to t lies in the path from     *)
(* its parent, which contains the header itself.                           *)
LEMMA PathDescend ==
    ASSUME TypeOK, Tree, NEW t \in DOMAIN header,
           NEW b \in ({t} \cup header[t].anc) \ {Genesis}
    PROVE  LET q == header[b].parent
           IN  /\ q \in {t} \cup header[t].anc
               /\ b \in Pointer!Path(q, t)
               /\ Pointer!Path(b, t) \subseteq Pointer!Path(q, t)
<1> DEFINE q == header[b].parent
<1>1. b \in DOMAIN header
  BY DEF Tree
<1>2. q \in header[b].anc
  BY <1>1 DEF Tree
<1>3. b # t => header[b].anc \subseteq header[t].anc
  BY DEF Tree
<1>4. q \in {t} \cup header[t].anc
  BY <1>2, <1>3
<1>5. b \in Pointer!Path(q, t)
  BY <1>2 DEF Pointer!Path
<1>6. \A x \in {t} \cup header[t].anc : b \in header[x].anc => q \in header[x].anc
  <2> SUFFICES ASSUME NEW x \in {t} \cup header[t].anc, b \in header[x].anc
               PROVE  q \in header[x].anc
    OBVIOUS
  <2>1. x \in DOMAIN header
    BY DEF Tree
  <2>2. header[b].anc \subseteq header[x].anc
    BY <2>1 DEF Tree
  <2> QED
    BY <1>2, <2>2
<1>7. Pointer!Path(b, t) \subseteq Pointer!Path(q, t)
  BY <1>2, <1>6 DEF Pointer!Path
<1> QED
  BY <1>4, <1>5, <1>7

(* The map after adding curHeader's validator holds only witnesses of      *)
(* curHeader from the head the walk started at.                            *)
LEMMA MapWithinWitnesses ==
    ASSUME TypeOK, Tree, confirmed # Unset,
           NEW p \in Callers, WalkInv(p), pc[p] = "walk", InLoop(p)
    PROVE  MapWithCur(p) \subseteq Pointer!Witnesses(cur[p], top[p])
<1> DEFINE x == cur[p]
           t == top[p]
<1>1. x \in {t} \cup header[t].anc
      /\ validatorMap[p] \subseteq
           {header[y].validator :
              y \in {z \in Pointer!Path(x, t) : header[z].epoch = epochW[p]}}
  BY DEF WalkInv
<1>2. x \in Pointer!Path(x, t)
  BY <1>1 DEF Pointer!Path
<1>3. header[x].validator \in Pointer!Witnesses(x, t)
  BY <1>2 DEF Pointer!Witnesses
<1>4. MapAtEpoch(p) \subseteq Pointer!Witnesses(x, t)
  <2>1. CASE header[x].epoch # epochW[p]
    BY <2>1 DEF MapAtEpoch
  <2>2. CASE header[x].epoch = epochW[p]
    BY <1>1, <2>2 DEF MapAtEpoch, Pointer!Witnesses
  <2> QED
    BY <2>1, <2>2
<1> QED
  BY <1>3, <1>4 DEF MapWithCur

(* A step that leaves the chain alone keeps every path and its witnesses.  *)
LEMMA SameChainPaths ==
    ASSUME header' = header, NEW b, NEW t
    PROVE  /\ Pointer!Path(b, t)' = Pointer!Path(b, t)
           /\ (Pointer!Confirmable(b, t)' <=> Pointer!Confirmable(b, t))
BY DEF Pointer!Path, Pointer!Witnesses, Pointer!Confirmable

(* A step of caller p that leaves the chain alone keeps the walk invariant *)
(* of every other caller, as long as a pointer stays set while they walk.  *)
LEMMA OtherCallers ==
    ASSUME IInv, header' = header, NEW p \in Callers,
           \A q \in Callers \ {p} :
              /\ pc'[q] = pc[q] /\ cur'[q] = cur[q] /\ top'[q] = top[q]
              /\ epochW'[q] = epochW[q] /\ validatorMap'[q] = validatorMap[q]
              /\ pc[q] # "idle" => confirmed' # Unset
    PROVE  \A q \in Callers \ {p} : WalkInv(q)'
<1> SUFFICES ASSUME NEW q \in Callers \ {p} PROVE WalkInv(q)'
  OBVIOUS
<1>1. WalkInv(q)
  BY DEF IInv
<1>2. Pointer!Path(cur[q], top[q])' = Pointer!Path(cur[q], top[q])
      /\ (Pointer!Confirmable(cur[q], top[q])' <=> Pointer!Confirmable(cur[q], top[q]))
  BY SameChainPaths
<1> QED
  BY <1>1, <1>2 DEF WalkInv

(* A call starts: the pointer is set, and the walk is at the head.        *)
LEMMA StartUpdateInv ==
    ASSUME IInv, NEW p \in Callers, StartUpdate(p)
    PROVE  IInv'
<1>1. TypeOK /\ Tree /\ ConfirmedSound
  BY DEF IInv
<1>2. Genesis \in DOMAIN header
  BY <1>1, GenesisInTree
<1>3. confirmed' \in {confirmed, persisted, Genesis} /\ confirmed' # Unset
  BY <1>1, <1>2 DEF StartUpdate, LoadConfirmed, TypeOK, Unset, Genesis
<1>4. header' = header /\ head' = head /\ persisted' = persisted
  BY DEF StartUpdate, chainVars
<1>5. TypeOK'
  BY <1>1, <1>2, <1>3, <1>4 DEF StartUpdate, TypeOK
<1>6. Tree'
  BY <1>1, <1>4 DEF Tree
<1>7. \A q \in Callers \ {p} : WalkInv(q)'
  BY <1>3, <1>4, OtherCallers DEF StartUpdate
<1>8. WalkInv(p)'
  BY <1>1, <1>3, <1>4 DEF StartUpdate, WalkInv, TypeOK
<1>9. ConfirmedSound'
  <2>1. \A c \in {confirmed', persisted'} \ {Unset, Genesis} :
           \E t \in DOMAIN header : Pointer!Confirmable(c, t)
    BY <1>1, <1>3, <1>4 DEF ConfirmedSound
  <2> QED
    BY <2>1, <1>4, SameChainPaths DEF ConfirmedSound
<1> QED
  BY <1>5, <1>6, <1>7, <1>8, <1>9 DEF IInv

(* A call returns with nothing else changed: WalkExit and the fast return. *)
LEMMA FinishInv ==
    ASSUME IInv, NEW p \in Callers, Finish(p),
           UNCHANGED <<chainVars, confirmed, persisted, cur, top, epochW, validatorMap>>
    PROVE  IInv'
<1>1. TypeOK /\ Tree /\ ConfirmedSound
  BY DEF IInv
<1>2. header' = header
  BY DEF chainVars
<1>3. TypeOK' /\ Tree'
  BY <1>1 DEF TypeOK, Tree, Finish, chainVars
<1>4. \A q \in Callers \ {p} : WalkInv(q)'
  BY <1>1, <1>2, OtherCallers DEF Finish, TypeOK, WalkInv, IInv
<1>5. WalkInv(p)'
  BY <1>1 DEF Finish, TypeOK, WalkInv
<1>6. ConfirmedSound'
  BY <1>1, <1>2, SameChainPaths DEF ConfirmedSound
<1> QED
  BY <1>3, <1>4, <1>5, <1>6 DEF IInv

(* WalkConfirm: consensusSize validators of curHeader's epoch are in the   *)
(* map, so curHeader is confirmable from the head the call started at.     *)
LEMMA WalkConfirmInv ==
    ASSUME IInv, NEW p \in Callers, WalkConfirm(p)
    PROVE  IInv'
<1>1. TypeOK /\ Tree /\ ConfirmedSound /\ WalkInv(p)
  BY DEF IInv
<1>2. header' = header
  BY DEF WalkConfirm, chainVars
<1>3. confirmed # Unset /\ pc[p] = "walk" /\ InLoop(p)
  BY <1>1 DEF WalkConfirm, WalkInv
<1>4. Pointer!Confirmable(cur[p], top[p])
  <2>1. cur[p] \in DOMAIN header /\ top[p] \in DOMAIN header
    BY <1>1 DEF TypeOK
  <2>2. MapWithCur(p) \subseteq Pointer!Witnesses(cur[p], top[p])
    BY <1>1, <1>3, MapWithinWitnesses
  <2>3. IsFiniteSet(Pointer!Witnesses(cur[p], top[p]))
    BY <1>1, <2>1, WitnessesFinite
  <2>4. Cardinality(MapWithCur(p)) <= Cardinality(Pointer!Witnesses(cur[p], top[p]))
    BY <2>2, <2>3, FS_Subset
  <2>5. Cardinality(MapWithCur(p)) >= ConsensusSize
    BY DEF WalkConfirm
  <2>6. Cardinality(MapWithCur(p)) \in Nat
        /\ Cardinality(Pointer!Witnesses(cur[p], top[p])) \in Nat
    BY <2>2, <2>3, FS_Subset, FS_CardinalityType
  <2>7. ConsensusSize \in Nat /\ Pointer!ConsensusSize = ConsensusSize
    BY ConstantsFacts DEF ConsensusSize, Pointer!ConsensusSize
  <2>9. Cardinality(Pointer!Witnesses(cur[p], top[p])) >= ConsensusSize
    BY <2>4, <2>5, <2>6, <2>7
  <2>8. cur[p] \in {top[p]} \cup header[top[p]].anc
    BY <1>1, <1>3 DEF WalkInv
  <2> QED
    BY <2>7, <2>8, <2>9, PointerCardinality DEF Pointer!Confirmable
<1>5. TypeOK' /\ Tree'
  BY <1>1 DEF TypeOK, Tree, WalkConfirm, chainVars
<1>6. \A q \in Callers \ {p} : WalkInv(q)'
  BY <1>1, <1>2, <1>3, OtherCallers DEF WalkConfirm, TypeOK, IInv
<1>7. WalkInv(p)'
  BY <1>1, <1>2, <1>3, <1>4, SameChainPaths DEF WalkConfirm, TypeOK, WalkInv
<1>8. ConfirmedSound'
  BY <1>1, <1>2, SameChainPaths DEF WalkConfirm, ConfirmedSound
<1> QED
  BY <1>5, <1>6, <1>7, <1>8 DEF IInv

(* SetConfirmed: the pointer moves to the header the call found            *)
(* confirmable.                                                            *)
LEMMA SetConfirmedInv ==
    ASSUME IInv, NEW p \in Callers, SetConfirmed(p)
    PROVE  IInv'
<1>1. TypeOK /\ Tree /\ ConfirmedSound /\ WalkInv(p)
  BY DEF IInv
<1>2. header' = header /\ confirmed' = cur[p]
  BY DEF SetConfirmed, chainVars
<1>3. Pointer!Confirmable(cur[p], top[p]) /\ top[p] \in DOMAIN header
  BY <1>1 DEF SetConfirmed, WalkInv, TypeOK
<1>4. cur[p] \in DOMAIN header /\ confirmed' # Unset
  BY <1>1, <1>2 DEF TypeOK, Unset
<1>5. TypeOK' /\ Tree'
  BY <1>1, <1>4 DEF TypeOK, Tree, SetConfirmed, chainVars
<1>6. \A q \in Callers \ {p} : WalkInv(q)'
  BY <1>1, <1>2, <1>4, OtherCallers DEF SetConfirmed, TypeOK, IInv
<1>7. WalkInv(p)'
  BY <1>1, <1>4 DEF SetConfirmed, TypeOK, WalkInv
<1>8. ConfirmedSound'
  <2>1. \A c \in {confirmed', persisted'} \ {Unset, Genesis} :
           \E t \in DOMAIN header : Pointer!Confirmable(c, t)
    BY <1>1, <1>2, <1>3 DEF SetConfirmed, ConfirmedSound
  <2> QED
    BY <2>1, <1>2, SameChainPaths DEF ConfirmedSound
<1> QED
  BY <1>5, <1>6, <1>7, <1>8 DEF IInv

(* StoreConfirmed: the database receives the pointer as it reads now.     *)
LEMMA StoreConfirmedInv ==
    ASSUME IInv, NEW p \in Callers, StoreConfirmed(p)
    PROVE  IInv'
<1>1. TypeOK /\ Tree /\ ConfirmedSound
  BY DEF IInv
<1>2. header' = header /\ persisted' = confirmed /\ confirmed' = confirmed
  BY DEF StoreConfirmed, chainVars
<1>3. TypeOK' /\ Tree'
  BY <1>1, <1>2 DEF TypeOK, Tree, StoreConfirmed, Finish, chainVars
<1>4. \A q \in Callers \ {p} : WalkInv(q)'
  BY <1>1, <1>2, OtherCallers DEF StoreConfirmed, Finish, TypeOK, WalkInv, IInv
<1>5. WalkInv(p)'
  BY <1>1 DEF StoreConfirmed, Finish, TypeOK, WalkInv
<1>6. ConfirmedSound'
  <2>1. \A c \in {confirmed', persisted'} \ {Unset, Genesis} :
           \E t \in DOMAIN header : Pointer!Confirmable(c, t)
    BY <1>1, <1>2 DEF ConfirmedSound
  <2> QED
    BY <2>1, <1>2, SameChainPaths DEF ConfirmedSound
<1> QED
  BY <1>3, <1>4, <1>5, <1>6 DEF IInv

(* Restart: the in-memory pointer is gone and no call is in progress.     *)
LEMMA RestartInv ==
    ASSUME IInv, Restart
    PROVE  IInv'
<1>1. TypeOK /\ Tree /\ ConfirmedSound
  BY DEF IInv
<1>2. header' = header /\ persisted' = persisted /\ confirmed' = Unset
  BY DEF Restart, chainVars
<1>3. TypeOK' /\ Tree'
  BY <1>1, <1>2 DEF TypeOK, Tree, Restart, chainVars
<1>4. \A q \in Callers : WalkInv(q)'
  BY DEF Restart, WalkInv
<1>5. ConfirmedSound'
  <2>1. \A c \in {confirmed', persisted'} \ {Unset, Genesis} :
           \E t \in DOMAIN header : Pointer!Confirmable(c, t)
    BY <1>1, <1>2 DEF ConfirmedSound
  <2> QED
    BY <2>1, <1>2, SameChainPaths DEF ConfirmedSound
<1> QED
  BY <1>3, <1>4, <1>5 DEF IInv

(* WalkDescend: the walk moves to the parent, and the map, with curHeader's *)
(* validator added, holds validators of the path from the parent up.       *)
LEMMA WalkDescendInv ==
    ASSUME IInv, NEW p \in Callers, WalkDescend(p)
    PROVE  IInv'
<1> DEFINE x == cur[p]
           t == top[p]
           q == header[x].parent
           Above(b, ep) == {header[y].validator :
                              y \in {z \in Pointer!Path(b, t) : header[z].epoch = ep}}
<1>1. TypeOK /\ Tree /\ ConfirmedSound /\ WalkInv(p)
  BY DEF IInv
<1>2. header' = header /\ confirmed' = confirmed /\ persisted' = persisted
  BY DEF WalkDescend, chainVars
<1>3. confirmed # Unset /\ pc[p] = "walk" /\ InLoop(p)
  BY <1>1 DEF WalkDescend, WalkInv
<1>4. /\ x \in DOMAIN header \ {Genesis}
      /\ q \in DOMAIN header
      /\ header[x].validator \in Validators
  BY <1>1, <1>3, InLoopFacts
<1>5. /\ x \in {t} \cup header[t].anc
      /\ validatorMap[p] \subseteq Above(x, epochW[p])
      /\ t \in DOMAIN header
  BY <1>1, <1>3 DEF WalkInv, TypeOK
<1>6. /\ q \in {t} \cup header[t].anc
      /\ x \in Pointer!Path(q, t)
      /\ Pointer!Path(x, t) \subseteq Pointer!Path(q, t)
  BY <1>1, <1>4, <1>5, PathDescend
<1>7. MapWithCur(p) \subseteq Above(q, header[x].epoch)
  <2>1. header[x].validator \in Above(q, header[x].epoch)
    BY <1>6
  <2>2. CASE header[x].epoch # epochW[p]
    BY <2>1, <2>2 DEF MapWithCur, MapAtEpoch
  <2>3. CASE header[x].epoch = epochW[p]
    <3>1. Above(x, epochW[p]) \subseteq Above(q, header[x].epoch)
      BY <1>6, <2>3
    <3> QED
      BY <1>5, <2>1, <2>3, <3>1 DEF MapWithCur, MapAtEpoch
  <2> QED
    BY <2>2, <2>3
<1>8. MapWithCur(p) \subseteq Validators
  BY <1>1, <1>4 DEF MapWithCur, MapAtEpoch, TypeOK
<1>9. header[x].epoch \in 0..MaxEpoch
  BY <1>1, <1>4 DEF TypeOK, Headers
<1>10. TypeOK' /\ Tree'
  BY <1>1, <1>2, <1>4, <1>8, <1>9 DEF TypeOK, Tree, WalkDescend, chainVars
<1>11. \A r \in Callers \ {p} : WalkInv(r)'
  BY <1>1, <1>2, OtherCallers DEF WalkDescend, TypeOK, WalkInv, IInv
<1>12. WalkInv(p)'
  <2>1. cur'[p] = q /\ epochW'[p] = header[x].epoch /\ validatorMap'[p] = MapWithCur(p)
        /\ pc'[p] = "walk" /\ top'[p] = t
    BY <1>1, <1>3 DEF WalkDescend, TypeOK
  <2>2. Pointer!Path(cur[p], top[p])' = Pointer!Path(q, t)
    BY <1>2, <2>1 DEF Pointer!Path
  <2>3. (cur[p] \in {top[p]} \cup header[top[p]].anc)'
    BY <1>2, <1>6, <2>1
  <2>4. (validatorMap[p] \subseteq
           {header[y].validator :
              y \in {z \in Pointer!Path(cur[p], top[p]) : header[z].epoch = epochW[p]}})'
    BY <1>2, <1>7, <2>1, <2>2
  <2> QED
    BY <1>2, <1>3, <2>1, <2>3, <2>4 DEF WalkInv
<1>13. ConfirmedSound'
  BY <1>1, <1>2, SameChainPaths DEF ConfirmedSound
<1> QED
  BY <1>10, <1>11, <1>12, <1>13 DEF IInv

---------------------------------------------------------------------------
(* The initial state: genesis alone, no pointer, no call.                 *)
LEMMA IInvInit ==
    Init => IInv
<1> SUFFICES ASSUME Init PROVE IInv
  OBVIOUS
<1>1. DOMAIN header = {Genesis}
  BY DEF Init
<1>2. IsFiniteSet(DOMAIN header) /\ Cardinality(DOMAIN header) = 1
  BY <1>1, FS_Singleton
<1>3. TypeOK
  BY <1>1, ConstantsFacts DEF Init, TypeOK, Headers, Genesis, Unset
<1>4. Tree
  BY <1>1, <1>2 DEF Init, Tree, Genesis
<1>5. \A p \in Callers : WalkInv(p)
  BY DEF Init, WalkInv
<1>6. ConfirmedSound
  BY DEF Init, ConfirmedSound
<1> QED
  BY <1>3, <1>4, <1>5, <1>6 DEF IInv

(* Every step keeps the invariant: one case per action.                   *)
LEMMA IInvNext ==
    IInv /\ [Next]_vars => IInv'
<1> SUFFICES ASSUME IInv, [Next]_vars PROVE IInv'
  OBVIOUS
<1>1. CASE \E parent \in DOMAIN header, v \in Validators, e \in 0..MaxEpoch :
              AddBlock(parent, v, e)
  BY <1>1, AddBlockInv
<1>2. ASSUME NEW p \in Callers, StartUpdate(p) PROVE IInv'
  BY <1>2, StartUpdateInv
<1>3. ASSUME NEW p \in Callers, WalkExit(p) \/ WalkFastReturn(p) PROVE IInv'
  BY <1>3, FinishInv DEF WalkExit, WalkFastReturn
<1>4. ASSUME NEW p \in Callers, WalkConfirm(p) PROVE IInv'
  BY <1>4, WalkConfirmInv
<1>5. ASSUME NEW p \in Callers, SetConfirmed(p) PROVE IInv'
  BY <1>5, SetConfirmedInv
<1>6. ASSUME NEW p \in Callers, StoreConfirmed(p) PROVE IInv'
  BY <1>6, StoreConfirmedInv
<1>7. ASSUME NEW p \in Callers, WalkDescend(p) PROVE IInv'
  BY <1>7, WalkDescendInv
<1>8. CASE Restart
  BY <1>8, RestartInv
<1>9. CASE UNCHANGED vars
  <2>1. TypeOK /\ Tree /\ ConfirmedSound /\ \A p \in Callers : WalkInv(p)
    BY DEF IInv
  <2>2. header' = header
    BY <1>9 DEF vars
  <2>3. TypeOK' /\ Tree'
    BY <1>9, <2>1 DEF vars, TypeOK, Tree
  <2>5. ASSUME NEW p \in Callers PROVE WalkInv(p)'
    <3>1. Pointer!Path(cur[p], top[p])' = Pointer!Path(cur[p], top[p])
          /\ (Pointer!Confirmable(cur[p], top[p])' <=> Pointer!Confirmable(cur[p], top[p]))
      BY <1>9 DEF vars, Pointer!Path, Pointer!Witnesses, Pointer!Confirmable
    <3> QED
      BY <1>9, <2>1, <3>1 DEF vars, WalkInv
  <2>4. ConfirmedSound'
    BY <1>9, <2>1, <2>2, SameChainPaths DEF vars, ConfirmedSound
  <2> QED
    BY <2>3, <2>4, <2>5 DEF IInv
<1> QED
  BY <1>1, <1>2, <1>3, <1>4, <1>5, <1>6, <1>7, <1>8, <1>9 DEF Next

(* The state stays typed: every header record, pointer and local of a     *)
(* call of updateConfirmedBlockHeader, whatever the interleaving of the    *)
(* callers, forks and restarts.                                            *)
THEOREM TypeCorrect == Spec => []TypeOK
<1>1. IInv => TypeOK
  BY DEF IInv
<1> QED
  BY <1>1, IInvInit, IInvNext, PTL DEF Spec

(* Confirmation is sound for any number of concurrent callers: every      *)
(* header in d.confirmedBlockHeader or in the database has consensusSize   *)
(* distinct validators of its epoch on a chain above it.                   *)
THEOREM ConfirmedIsSound == Spec => []ConfirmedSound
<1>1. IInv => ConfirmedSound
  BY DEF IInv
<1> QED
  BY <1>1, IInvInit, IInvNext, PTL DEF Spec

---------------------------------------------------------------------------
(* With one caller, a call about to confirm still has the pointer below    *)
(* the header it found: nothing else moves the pointer meanwhile.          *)
LEMMA OneCallerNext ==
    ASSUME \A p, q \in Callers : p = q,
           IInv, OneCallerInv, [Next]_vars
    PROVE  OneCallerInv'
<1> SUFFICES ASSUME NEW p \in Callers, pc'[p] = "confirm"
             PROVE  Number(confirmed)' < Number(cur[p])'
  BY DEF OneCallerInv
<1>1. TypeOK /\ WalkInv(p)
  BY DEF IInv
<1>2. CASE \E parent \in DOMAIN header, v \in Validators, e \in 0..MaxEpoch :
              AddBlock(parent, v, e)
  <2>1. PICK parent \in DOMAIN header, v \in Validators, e \in 0..MaxEpoch :
              AddBlock(parent, v, e)
    BY <1>2
  <2>2. \A x \in DOMAIN header : header'[x] = header[x]
    BY <2>1, AddBlockFacts DEF IInv
  <2>3. pc[p] = "confirm" /\ confirmed' = confirmed /\ cur' = cur
    BY <2>1 DEF AddBlock, walkVars
  <2>4. confirmed \in DOMAIN header /\ cur[p] \in DOMAIN header
    BY <1>1, <2>3 DEF TypeOK, WalkInv
  <2> QED
    BY <2>2, <2>3, <2>4 DEF OneCallerInv, Number
<1>3. ASSUME NEW q \in Callers,
             \/ StartUpdate(q) \/ WalkExit(q) \/ WalkFastReturn(q)
             \/ SetConfirmed(q) \/ StoreConfirmed(q) \/ WalkDescend(q)
      PROVE  FALSE
  <2>1. q = p
    OBVIOUS
  <2> QED
    BY <1>1, <1>3, <2>1 DEF StartUpdate, WalkExit, WalkFastReturn, SetConfirmed,
                           StoreConfirmed, WalkDescend, Finish, TypeOK
<1>4. ASSUME NEW q \in Callers, WalkConfirm(q)
      PROVE  Number(confirmed)' < Number(cur[p])'
  <2>1. q = p /\ header' = header /\ confirmed' = confirmed /\ cur' = cur
    BY <1>4 DEF WalkConfirm, chainVars
  <2> QED
    BY <1>4, <2>1 DEF WalkConfirm, InLoop, Number
<1>5. CASE Restart
  BY <1>1, <1>5 DEF Restart
<1>6. CASE UNCHANGED vars
  BY <1>6 DEF vars, OneCallerInv, Number
<1> QED
  BY <1>2, <1>3, <1>4, <1>5, <1>6 DEF Next

(* The walk's steps under the identity mapping: AddBlock grows the chain, *)
(* the entry loads an unset pointer, SetConfirmed advances it (one caller),*)
(* StoreConfirmed persists it, a restart forgets it; the rest stutter.    *)
LEMMA RefineStep ==
    ASSUME IInv, OneCallerInv, [Next]_vars
    PROVE  [Pointer!PNext]_Pointer!pvars
<1>1. TypeOK /\ \A p \in Callers : WalkInv(p)
  BY DEF IInv
<1>2. CASE \E parent \in DOMAIN header, v \in Validators, e \in 0..MaxEpoch :
              AddBlock(parent, v, e)
  <2>1. PICK parent \in DOMAIN header, v \in Validators, e \in 0..MaxEpoch :
              AddBlock(parent, v, e)
    BY <1>2
  <2>2. /\ DOMAIN header \subseteq DOMAIN header'
        /\ \A x \in DOMAIN header : header'[x] = header[x]
    BY <2>1, AddBlockFacts DEF IInv
  <2>3. UNCHANGED <<confirmed, persisted>>
    BY <2>1 DEF AddBlock
  <2> QED
    BY <2>2, <2>3 DEF Pointer!PNext, Pointer!Grow
<1>3. ASSUME NEW p \in Callers, StartUpdate(p)
      PROVE  [Pointer!PNext]_Pointer!pvars
  <2>1. header' = header /\ persisted' = persisted
    BY <1>3 DEF StartUpdate, chainVars
  <2>2. CASE confirmed # Unset
    BY <1>3, <2>1, <2>2 DEF StartUpdate, Pointer!pvars
  <2>3. CASE confirmed = Unset
    <3>1. Pointer!Load
      BY <1>3, <2>1, <2>3 DEF StartUpdate, LoadConfirmed, Pointer!Load,
                              Unset, Pointer!Unset, Genesis, Pointer!Genesis
    <3> QED
      BY <3>1 DEF Pointer!PNext
  <2> QED
    BY <2>2, <2>3
<1>4. ASSUME NEW p \in Callers,
             WalkExit(p) \/ WalkFastReturn(p) \/ WalkConfirm(p) \/ WalkDescend(p)
      PROVE  UNCHANGED Pointer!pvars
  BY <1>4 DEF WalkExit, WalkFastReturn, WalkConfirm, WalkDescend, chainVars, Pointer!pvars
<1>5. ASSUME NEW p \in Callers, SetConfirmed(p)
      PROVE  Pointer!Advance
  <2>1. WalkInv(p) /\ pc[p] = "confirm"
    BY <1>1, <1>5 DEF SetConfirmed
  <2>2. confirmed # Unset /\ Pointer!Confirmable(cur[p], top[p])
    BY <2>1 DEF WalkInv
  <2>3. Number(confirmed) < Number(cur[p])
    BY <2>1 DEF OneCallerInv
  <2>4. cur[p] \in DOMAIN header /\ top[p] \in DOMAIN header
    BY <1>1 DEF TypeOK
  <2>5. header' = header /\ persisted' = persisted /\ confirmed' = cur[p]
    BY <1>5 DEF SetConfirmed, chainVars
  <2> QED
    BY <2>2, <2>3, <2>4, <2>5 DEF Pointer!Advance, Number, Pointer!Number, Unset,
                                  Pointer!Unset
<1>6. ASSUME NEW p \in Callers, StoreConfirmed(p)
      PROVE  Pointer!Persist
  <2>1. WalkInv(p) /\ pc[p] = "store"
    BY <1>1, <1>6 DEF StoreConfirmed
  <2>2. confirmed # Unset
    BY <2>1 DEF WalkInv
  <2> QED
    BY <1>6, <2>2 DEF StoreConfirmed, chainVars, Pointer!Persist, Unset, Pointer!Unset
<1>7. CASE Restart
  BY <1>7 DEF Restart, chainVars, Pointer!PNext, Pointer!Forget, Unset, Pointer!Unset
<1>8. CASE UNCHANGED vars
  BY <1>8 DEF vars, Pointer!pvars
<1> QED
  BY <1>2, <1>3, <1>4, <1>5, <1>6, <1>7, <1>8 DEF Next, Pointer!PNext

(* With one caller of updateConfirmedBlockHeader, the tracker implements   *)
(* its promise ConfirmedPointer (ConfirmationRefinesPointer): each call,   *)
(* a walk of many steps, moves d.confirmedBlockHeader up to a confirmable  *)
(* header once at most, the database receives only pointers the process    *)
(* held, and a restart reloads it.  With two callers a slower call can     *)
(* move the pointer down (run confirmation_two_callers).                   *)
THEOREM WalkRefinesPointer ==
    ASSUME \A p, q \in Callers : p = q
    PROVE  Spec => ConfirmationRefinesPointer
<1>1. Init => Pointer!PInit
  BY DEF Init, Pointer!PInit, Genesis, Pointer!Genesis, Unset, Pointer!Unset
<1>2. Init => IInv /\ OneCallerInv
  BY IInvInit DEF Init, OneCallerInv
<1>3. IInv /\ OneCallerInv /\ [Next]_vars => (IInv /\ OneCallerInv)'
  BY IInvNext, OneCallerNext
<1>4. IInv /\ OneCallerInv /\ [Next]_vars => [Pointer!PNext]_Pointer!pvars
  BY RefineStep
<1> QED
  BY <1>1, <1>2, <1>3, <1>4, PTL DEF Spec, ConfirmationRefinesPointer, Pointer!PSpec

=============================================================================
