--------------------------- MODULE ProducerProofs ---------------------------
(***************************************************************************)
(* Proofs about block production (Producer), for every set of nodes and    *)
(* accounts, every schedule, block interval and bound: every step keeps   *)
(* the state typed (TypeCorrect).                                          *)
(***************************************************************************)
EXTENDS Producer, SlotsProofs

---------------------------------------------------------------------------
(* NextSlot of a time that is not negative is not negative.               *)
LEMMA NextSlotNat ==
    ASSUME NEW t \in Nat, NEW i \in Nat \ {0}
    PROVE  NextSlot(t, i) \in Nat
<1> DEFINE q == (t + i - 1) \div i
<1>1. q \in Int /\ q * i <= t + i - 1 /\ t + i - 1 < q * i + i
  BY DivBounds
<1>2. q \in Nat
  BY <1>1, SMT
<1>3. NextSlot(t, i) = q * i
  BY DEF NextSlot, GoQuo
<1> QED
  BY <1>2, <1>3, SMT

---------------------------------------------------------------------------
(* The facts about the constants the typing steps use.                    *)
LEMMA ConstantsFacts ==
    /\ Nodes \subseteq Accounts
    /\ Keys \in [Nodes -> SUBSET Accounts]
    /\ MaxAuthorize \in Nat
    /\ BlockInterval \in Nat \ {0}
    /\ NoNode \notin Accounts
    /\ Nodes # {}
<1>1. Schedule[1] \in Nodes
  BY ProducerAssumption
<1> QED
  BY <1>1, ProducerAssumption

(* The constant records: genesis is a block and NoWork is work.            *)
LEMMA ConstantsTyped ==
    Genesis \in Block /\ NoWork \in Work
<1>1. (CHOOSE n \in Nodes : TRUE) \in Accounts
  BY ConstantsFacts
<1> QED
  BY <1>1 DEF Genesis, Block, NoWork, Work

(* The header Seal signs, before verification gives it its verdict.       *)
LEMMA SealedHeaderTyped ==
    ASSUME NEW t \in Nat, NEW w \in Work, NEW s \in Accounts
    PROVE  [time |-> t, height |-> w.parent.height + 1,
            validator |-> w.validator, signer |-> s,
            parentTime |-> w.parent.time, ok |-> FALSE] \in Block
BY DEF Block, Work

(* Verification's verdict keeps a block a block.                           *)
LEMMA VerdictTyped ==
    ASSUME NEW b \in Block, NEW parent
    PROVE  [b EXCEPT !.ok = Verified(b, parent)] \in Block
BY DEF Block, Verified

(* Seal's wake time and delay keep work work.                              *)
LEMMA WakeTyped ==
    ASSUME NEW w \in Work, NEW x \in Nat, NEW y \in BOOLEAN
    PROVE  [w EXCEPT !.wake = x, !.delay = y] \in Work
BY DEF Work

(* Every step keeps the state typed.                                       *)
LEMMA TypeNext == TypeOK /\ [Next]_vars => TypeOK'
<1> SUFFICES ASSUME TypeOK, [Next]_vars PROVE TypeOK'
  OBVIOUS
<1> USE ConstantsFacts DEF TypeOK, authVars
<1>1. CASE Tick
  BY <1>1 DEF Tick
<1>2. ASSUME NEW n \in Nodes, CheckValidator(n) PROVE TypeOK'
  <2>1. NewHeader(n) \in Work
    <3>1. NoWork \in Work /\ head[n] \in Block /\ now \in Nat
      BY ConstantsTyped
    <3> QED
      BY <3>1 DEF NewHeader, Work
  <2>2. Prepare(n, NewHeader(n)) \in Work
    BY <2>1 DEF Prepare, Work
  <2> QED
    BY <1>2, <2>2 DEF CheckValidator
<1>3. ASSUME NEW n \in Nodes, SealStart(n) PROVE TypeOK'
  <2> DEFINE ns == NextSlot(now, BlockInterval)
  <2>1. ns \in Nat
    BY NextSlotNat
  <2>2. [work[n] EXCEPT !.wake = ns, !.delay = ns - now > 0] \in Work
    <3>1. work[n] \in Work /\ (ns - now > 0) \in BOOLEAN
      OBVIOUS
    <3> QED
      BY <2>1, <3>1, WakeTyped, Zenon
  <2>3. work' = [work EXCEPT ![n] = [work[n] EXCEPT !.wake = ns,
                                                     !.delay = ns - now > 0]]
    BY <1>3 DEF SealStart
  <2> QED
    BY <1>3, <2>2, <2>3 DEF SealStart
<1>4. ASSUME NEW n \in Nodes, SealStop(n) PROVE TypeOK'
  BY <1>4 DEF SealStop
<1>5. ASSUME NEW n \in Nodes, SealSign(n) PROVE TypeOK'
  <2> DEFINE w  == work[n]
             b0 == [time |-> w.time, height |-> w.parent.height + 1,
                    validator |-> w.validator, signer |-> signer[n],
                    parentTime |-> w.parent.time, ok |-> FALSE]
             b  == [b0 EXCEPT !.ok = Verified(b0, w.parent)]
  <2>1. b0 \in Block
    <3>1. w \in Work /\ w.time \in Nat /\ signer[n] \in Accounts
      BY DEF Work
    <3> QED
      BY <3>1, SealedHeaderTyped
  <2>2. b \in Block
    BY <2>1, VerdictTyped
  <2>3. /\ blocks' = blocks \cup {b}
        /\ head' = IF b.ok /\ b.height > head[n].height
                   THEN [head EXCEPT ![n] = b] ELSE head
    BY <1>5 DEF SealSign
  <2>4. /\ pc' = [pc EXCEPT ![n] = "idle"]
        /\ UNCHANGED <<now, work, tried, signer, signFn, authorizing, authorized>>
    BY <1>5 DEF SealSign
  <2> QED
    BY <2>2, <2>3, <2>4
<1>6. ASSUME NEW n \in Nodes, SealSignError(n) PROVE TypeOK'
  BY <1>6 DEF SealSignError
<1>7. ASSUME NEW n \in Nodes, AuthorizeSignFn(n) PROVE TypeOK'
  BY <1>7 DEF AuthorizeSignFn
<1>8. ASSUME NEW n \in Nodes, NEW acc \in Keys[n], AuthorizeSigner(n, acc)
      PROVE TypeOK'
  BY <1>8 DEF AuthorizeSigner
<1>9. ASSUME NEW n \in Nodes, NEW b \in blocks, Receive(n, b) PROVE TypeOK'
  BY <1>9 DEF Receive
<1>10. CASE UNCHANGED vars
  BY <1>10 DEF vars
<1> QED
  BY <1>1, <1>2, <1>3, <1>4, <1>5, <1>6, <1>7, <1>8, <1>9, <1>10 DEF Next

(* Every state of a run is typed.                                          *)
THEOREM TypeCorrect == Spec => []TypeOK
<1>1. Init => TypeOK
  BY ConstantsTyped, ConstantsFacts DEF Init, TypeOK
<1> QED
  BY <1>1, TypeNext, PTL DEF Spec

=============================================================================
