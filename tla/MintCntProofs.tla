---------------------------- MODULE MintCntProofs ----------------------------
(***************************************************************************)
(* Proofs about MintCnt for every validator set and every epoch and block  *)
(* interval.                                                               *)
(*                                                                         *)
(*   TypeCorrect    Spec => []TypeOK, whatever MaxLost is.                 *)
(*   CountsCorrect  with a store that loses no node (MaxLost = 0), the     *)
(*                  mint counts are the production counts of the current   *)
(*                  epoch.                                                 *)
(*                                                                         *)
(* MintCntCounts is not inductive alone: a block in a new epoch must start *)
(* a count of 1, which is right only because no earlier block of the      *)
(* chain is in that epoch.  The strengthening says the last block is the   *)
(* latest one, so every earlier epoch is at most the current one.          *)
(***************************************************************************)
EXTENDS MintCnt, FiniteSetTheorems, SequenceTheorems, TLAPS

Block == [time : Nat, validator : Validators \cup {0}]

\* The production count of validator w in epoch e on a sequence of blocks.
ProducedIn(s, e, w) ==
    Cardinality({i \in 2..Len(s) : Epoch(s[i].time) = e /\ s[i].validator = w})

\* Appending a block adds one to its own validator's count in its epoch.
LEMMA ProducedAppend ==
    ASSUME NEW s \in Seq(Block), Len(s) >= 1, NEW b \in Block, NEW e, NEW w
    PROVE  ProducedIn(Append(s, b), e, w) =
             ProducedIn(s, e, w) + (IF Epoch(b.time) = e /\ b.validator = w THEN 1 ELSE 0)
<1> DEFINE S  == {i \in 2..Len(s) : Epoch(s[i].time) = e /\ s[i].validator = w}
           S2 == {i \in 2..Len(Append(s, b)) :
                    Epoch(Append(s, b)[i].time) = e /\ Append(s, b)[i].validator = w}
<1>1. /\ Len(Append(s, b)) = Len(s) + 1
      /\ \A i \in 1..Len(s) : Append(s, b)[i] = s[i]
      /\ Append(s, b)[Len(s) + 1] = b
      /\ Len(s) \in Nat
  BY AppendProperties, LenProperties
<1>2. IsFiniteSet(S)
  <2>1. IsFiniteSet(2..Len(s))
    BY <1>1, FS_Interval
  <2>2. QED
    BY <2>1, FS_Subset
<1>3. Len(s) + 1 \notin S
  BY <1>1
<1>4. CASE Epoch(b.time) = e /\ b.validator = w
  <2>1. S2 = S \cup {Len(s) + 1}
    BY <1>1, <1>4
  <2>2. Cardinality(S2) = Cardinality(S) + 1
    BY <1>2, <1>3, <2>1, FS_AddElement
  <2>3. QED
    BY <1>4, <2>2 DEF ProducedIn
<1>5. CASE ~(Epoch(b.time) = e /\ b.validator = w)
  <2>1. S2 = S
    BY <1>1, <1>5
  <2>2. ProducedIn(s, e, w) \in Nat
    BY <1>2, FS_CardinalityType DEF ProducedIn
  <2>3. ProducedIn(Append(s, b), e, w) = ProducedIn(s, e, w)
    BY <2>1 DEF ProducedIn
  <2>4. (IF Epoch(b.time) = e /\ b.validator = w THEN 1 ELSE 0) = 0
    BY <1>5
  <2>5. QED
    BY <2>2, <2>3, <2>4
<1>6. QED
  BY <1>4, <1>5

---------------------------------------------------------------------------
\* Every step keeps TypeOK: Finalize appends a block with a later time and
\* writes a positive count.
LEMMA TypeOKNext == TypeOK /\ [Next]_vars => TypeOK'
<1> SUFFICES ASSUME TypeOK, [Next]_vars PROVE TypeOK'
  OBVIOUS
<1>1. ASSUME NEW v \in Validators, NEW d \in 0..EpochInterval,
             Finalize(v, LastBlock.time + BlockInterval + d)
      PROVE  TypeOK'
  <2> DEFINE t == LastBlock.time + BlockInterval + d
             tp == LastBlock.time
  <2>1. LastBlock \in Block
    <3>1. chain \in Seq(Block) /\ Len(chain) \in 1..Len(chain)
      BY LenProperties DEF TypeOK, Block
    <3>2. QED
      BY <3>1, ElementOfSeq DEF LastBlock
  <2>2. t \in Nat
    BY <2>1, MintCntAssumption DEF Block
  <2>3. chain' \in Seq(Block) /\ Len(chain') >= 1
    BY <1>1, <2>2, AppendProperties, LenProperties DEF Finalize, TypeOK, Block
  <2>4. NewCount(tp, t, v) \in Nat \ {0}
    BY MintCntAssumption DEF NewCount, Present, TypeOK
  <2> DEFINE k == MintKey(tp, t, v)
             m == ElectedMintCnt(tp, t)
  <2>5. k \in Keys
    BY <2>2, MintCntAssumption DEF MintKey, Epoch, Keys
  <2>6. DOMAIN m \subseteq Keys /\ \A j \in DOMAIN m : m[j] \in Nat \ {0}
    BY DEF ElectedMintCnt, TypeOK
  <2>7. mintCnt' = IF Readable(k)
                     THEN [j \in DOMAIN m \cup {k} |->
                             IF j = k THEN NewCount(tp, t, v) ELSE m[j]]
                     ELSE m
    BY <1>1 DEF Finalize
  <2>8. /\ DOMAIN mintCnt' \subseteq Keys
        /\ \A j \in DOMAIN mintCnt' : mintCnt'[j] \in Nat \ {0}
    BY <2>4, <2>5, <2>6, <2>7
  <2>9. QED
    BY <1>1, <2>3, <2>8 DEF Finalize, TypeOK, Block
<1>2. ASSUME NEW k \in DOMAIN mintCnt, LoseNode(k) PROVE TypeOK'
  BY <1>2 DEF LoseNode, TypeOK
<1>3. CASE UNCHANGED vars
  BY <1>3 DEF vars, TypeOK
<1>4. QED
  BY <1>1, <1>2, <1>3 DEF Next

\* Spec => []TypeOK: the chain, the counts and the lost keys keep their types
\* through every Finalize of updateMintCnt and every storage fault.
THEOREM TypeCorrect == Spec => []TypeOK
<1>1. Init => TypeOK
  BY DEF Init, TypeOK
<1>2. QED
  BY <1>1, TypeOKNext, PTL DEF Spec

---------------------------------------------------------------------------
\* Epochs are monotone in time.
LEMMA EpochMonotone ==
    ASSUME NEW a \in Nat, NEW b \in Nat, a <= b
    PROVE  Epoch(a) <= Epoch(b) /\ Epoch(a) \in Nat
BY MintCntAssumption DEF Epoch

\* A production count is a natural number.
LEMMA ProducedNat ==
    ASSUME TypeOK, NEW e, NEW w
    PROVE  Produced(e, w) \in Nat
<1>1. Len(chain) \in Nat
  BY LenProperties DEF TypeOK
<1>2. IsFiniteSet(2..Len(chain))
  BY <1>1, FS_Interval
<1>3. IsFiniteSet({i \in 2..Len(chain) : Epoch(chain[i].time) = e /\ chain[i].validator = w})
  BY <1>2, FS_Subset
<1>4. QED
  BY <1>3, FS_CardinalityType DEF Produced

\* A finalized block adds one to its own validator's count in its own epoch.
LEMMA FinalizeProduced ==
    ASSUME TypeOK, NEW v \in Validators, NEW d \in 0..EpochInterval,
           Finalize(v, LastBlock.time + BlockInterval + d)
    PROVE  \A e, w : Produced(e, w)' =
              Produced(e, w) + (IF Epoch(LastBlock.time + BlockInterval + d) = e /\ v = w
                                  THEN 1 ELSE 0)
<1> DEFINE t == LastBlock.time + BlockInterval + d
           b == [time |-> t, validator |-> v]
<1>1. LastBlock \in Block /\ chain \in Seq(Block) /\ Len(chain) >= 1
  <2>1. chain \in Seq(Block) /\ Len(chain) \in 1..Len(chain)
    BY LenProperties DEF TypeOK, Block
  <2> QED
    BY <2>1, ElementOfSeq DEF LastBlock
<1>2. b \in Block
  BY <1>1, MintCntAssumption DEF Block
<1>3. chain' = Append(chain, b)
  BY DEF Finalize
<1> SUFFICES ASSUME NEW e, NEW w
             PROVE  Produced(e, w)' = Produced(e, w) + (IF Epoch(t) = e /\ v = w THEN 1 ELSE 0)
  OBVIOUS
<1>4. ProducedIn(Append(chain, b), e, w) =
        ProducedIn(chain, e, w) + (IF Epoch(b.time) = e /\ b.validator = w THEN 1 ELSE 0)
  BY <1>1, <1>2, ProducedAppend
<1> QED
  BY <1>3, <1>4 DEF Produced, ProducedIn

\* The inductive invariant of a fault-free store.
IInv ==
    /\ TypeOK
    /\ lostNodes = {}
    /\ \A i \in 1..Len(chain) : chain[i].time <= LastBlock.time
    /\ MintCntCounts

LEMMA IInvInit == Init => IInv
<1> SUFFICES ASSUME Init PROVE IInv
  OBVIOUS
<1>1. Len(chain) = 1 /\ LastBlock = chain[1]
  BY DEF Init, LastBlock
<1>2. \A e, w : Produced(e, w) = 0
  <2> SUFFICES ASSUME NEW e, NEW w PROVE Produced(e, w) = 0
    OBVIOUS
  <2>1. {i \in 2..Len(chain) : Epoch(chain[i].time) = e /\ chain[i].validator = w} = {}
    BY <1>1
  <2>2. QED
    BY <2>1, FS_EmptySet DEF Produced
<1>3. TypeOK
  BY DEF Init, TypeOK
<1>4. MintCntCounts
  BY <1>2 DEF Init, MintCntCounts
<1>5. \A i \in 1..Len(chain) : chain[i].time <= LastBlock.time
  BY <1>1 DEF Init
<1>6. QED
  BY <1>3, <1>4, <1>5 DEF Init, IInv

\* With no lost node the trie reads are exact: a stored count reads, and the
\* iterator finds it.
LEMMA ExactReads ==
    ASSUME TypeOK, lostNodes = {}, NEW e \in Nat, NEW v
    PROVE  <<e, v>> \in DOMAIN mintCnt => IterNext(e) /\ Present(<<e, v>>)
BY DEF IterNext, Present, Readable

LEMMA IInvFinalize ==
    ASSUME IInv, NEW v \in Validators, NEW d \in 0..EpochInterval,
           Finalize(v, LastBlock.time + BlockInterval + d)
    PROVE  IInv'
<1> DEFINE tp == LastBlock.time
           t  == tp + BlockInterval + d
           e0 == Epoch(tp)
           e1 == Epoch(t)
           b  == [time |-> t, validator |-> v]
           k  == <<e1, v>>
<1>1. LastBlock \in Block /\ chain \in Seq(Block) /\ Len(chain) >= 1
  <2>1. chain \in Seq(Block) /\ Len(chain) \in 1..Len(chain)
    BY LenProperties DEF IInv, TypeOK, Block
  <2>2. QED
    BY <2>1, ElementOfSeq DEF LastBlock
<1>2. /\ tp \in Nat /\ t \in Nat /\ tp <= t
      /\ e0 \in Nat /\ e1 \in Nat /\ e0 <= e1
      /\ b \in Block
  <2>1. tp \in Nat /\ t \in Nat /\ tp <= t
    BY <1>1, MintCntAssumption DEF Block
  <2>2. e0 \in Nat /\ e1 \in Nat /\ e0 <= e1
    BY <2>1, EpochMonotone
  <2>3. QED
    BY <2>1, <2>2 DEF Block
<1>0. PICK E1 : E1 = e1
  OBVIOUS
<1>3. /\ chain' = Append(chain, b)
      /\ Len(chain') = Len(chain) + 1
      /\ \A i \in 1..Len(chain) : chain'[i] = chain[i]
      /\ LastBlock' = b
  <2>1. chain' = Append(chain, b)
    BY DEF Finalize
  <2>2. /\ Len(Append(chain, b)) = Len(chain) + 1
        /\ \A i \in 1..Len(chain) : Append(chain, b)[i] = chain[i]
        /\ Append(chain, b)[Len(chain) + 1] = b
    BY <1>1, <1>2, AppendProperties
  <2>3. QED
    BY <2>1, <2>2 DEF LastBlock
<1>4. \A e, w : Produced(e, w)' = Produced(e, w) + (IF e1 = e /\ v = w THEN 1 ELSE 0)
  BY FinalizeProduced DEF IInv
<1>5. UNCHANGED lostNodes /\ \A j : Readable(j)
  BY DEF Finalize, IInv, Readable
<1>6. (\A i \in 1..Len(chain) : chain[i].time <= LastBlock.time)'
  <2> SUFFICES ASSUME NEW i \in 1..Len(chain') PROVE chain'[i].time <= t
    BY <1>3
  <2>1. CASE i = Len(chain) + 1
    BY <1>2, <1>3, <2>1, LenProperties, AppendProperties DEF LastBlock
  <2>2. CASE i \in 1..Len(chain)
    <3>1. chain[i] \in Block
      BY <1>1, <2>2, ElementOfSeq
    <3>2. QED
      BY <1>2, <1>3, <2>2, <3>1 DEF IInv, Block
  <2>3. QED
    BY <1>1, <1>3, <2>1, <2>2, LenProperties
<1>7. TypeOK'
  BY TypeOKNext DEF IInv, Next
<1>8. MintCntCounts'
  <2>1. \A j \in DOMAIN mintCnt : j[1] = e0
    BY DEF IInv, MintCntCounts
  <2>2. \A w \in Validators :
          IF Produced(e0, w) = 0 THEN <<e0, w>> \notin DOMAIN mintCnt
          ELSE <<e0, w>> \in DOMAIN mintCnt /\ mintCnt[<<e0, w>>] = Produced(e0, w)
    BY DEF IInv, MintCntCounts
  <2>3. LastBlock'.time = t
    BY <1>3
  <2>4. CASE e1 = e0
    <3>1. ElectedMintCnt(tp, t) = mintCnt
      BY <2>4 DEF ElectedMintCnt
    <3>2. Produced(e0, v) \in Nat
      BY ProducedNat DEF IInv
    <3>3. NewCount(tp, t, v) = Produced(e0, v) + 1
      <4>1. CASE Produced(e0, v) = 0
        BY <2>2, <2>4, <4>1 DEF NewCount, Present
      <4>2. CASE Produced(e0, v) # 0
        <5>1. <<e0, v>> \in DOMAIN mintCnt /\ mintCnt[<<e0, v>>] = Produced(e0, v)
          BY <2>2, <4>2
        <5>2. IterNext(e0) /\ Present(<<e0, v>>)
          BY <1>2, <5>1, ExactReads DEF IInv
        <5>3. QED
          BY <2>4, <5>1, <5>2 DEF NewCount
      <4>3. QED
        BY <4>1, <4>2
    <3>4. mintCnt' = [j \in DOMAIN mintCnt \cup {k} |->
                        IF j = k THEN NewCount(tp, t, v) ELSE mintCnt[j]]
      BY <1>5, <3>1 DEF Finalize, MintKey
    <3>5. \A j \in DOMAIN mintCnt' : j[1] = e1
      BY <2>1, <2>4, <3>4
    <3>6. ASSUME NEW w \in Validators
          PROVE  IF Produced(E1, w)' = 0 THEN <<e1, w>> \notin DOMAIN mintCnt'
                 ELSE <<e1, w>> \in DOMAIN mintCnt' /\ mintCnt'[<<e1, w>>] = Produced(E1, w)'
      <4>1. Produced(e0, w) \in Nat
        BY ProducedNat DEF IInv
      <4>2. CASE w = v
        <5>1. Produced(E1, v)' = Produced(E1, v) + (IF e1 = e1 /\ v = v THEN 1 ELSE 0)
          BY <1>0, <1>4
        <5>2. Produced(E1, v)' = Produced(e0, v) + 1
          BY <1>0, <2>4, <5>1
        <5>3. k \in DOMAIN mintCnt' /\ mintCnt'[k] = NewCount(tp, t, v)
          BY <3>4
        <5>4. QED
          BY <1>0, <3>2, <3>3, <4>2, <5>2, <5>3
      <4>3. CASE w # v
        <5>0. Produced(E1, w)' = Produced(E1, w) + (IF e1 = e1 /\ v = w THEN 1 ELSE 0)
          BY <1>0, <1>4
        <5>1. Produced(E1, w)' = Produced(e0, w)
          BY <1>0, <2>4, <4>1, <4>3, <5>0
        <5>2. <<e1, w>> # k
          BY <4>3
        <5>3. QED
          BY <2>2, <2>4, <3>4, <5>1, <5>2
      <4>4. QED
        BY <4>2, <4>3
    <3>7. QED
      BY <1>0, <2>3, <3>5, <3>6 DEF MintCntCounts
  <2>5. CASE e1 # e0
    <3>1. DOMAIN ElectedMintCnt(tp, t) = {}
      BY <2>1, <2>5 DEF ElectedMintCnt
    <3>2. NewCount(tp, t, v) = 1
      BY <2>5 DEF NewCount
    <3>3. mintCnt' = [j \in {k} |-> 1]
      BY <1>5, <3>1, <3>2 DEF Finalize, MintKey
    <3>4. \A w : Produced(E1, w) = 0
      <4> SUFFICES ASSUME NEW w PROVE Produced(E1, w) = 0
        OBVIOUS
      <4>1. \A i \in 1..Len(chain) : Epoch(chain[i].time) \in Nat /\ Epoch(chain[i].time) < e1
        <5> SUFFICES ASSUME NEW i \in 1..Len(chain)
                     PROVE  Epoch(chain[i].time) \in Nat /\ Epoch(chain[i].time) < e1
          OBVIOUS
        <5>1. chain[i] \in Block
          BY <1>1, ElementOfSeq
        <5>2. chain[i].time \in Nat /\ chain[i].time <= tp
          BY <5>1 DEF IInv, Block
        <5>3. Epoch(chain[i].time) <= e0 /\ Epoch(chain[i].time) \in Nat
          BY <1>2, <5>2, EpochMonotone
        <5>4. QED
          BY <1>2, <2>5, <5>3
      <4>2. {i \in 2..Len(chain) : Epoch(chain[i].time) = e1 /\ chain[i].validator = w} = {}
        BY <4>1
      <4>3. QED
        BY <1>0, <4>2, FS_EmptySet DEF Produced
    <3>5. ASSUME NEW w \in Validators
          PROVE  IF Produced(E1, w)' = 0 THEN <<e1, w>> \notin DOMAIN mintCnt'
                 ELSE <<e1, w>> \in DOMAIN mintCnt' /\ mintCnt'[<<e1, w>>] = Produced(E1, w)'
      <4>0. Produced(E1, w)' = Produced(E1, w) + (IF e1 = e1 /\ v = w THEN 1 ELSE 0)
        BY <1>0, <1>4
      <4>1. Produced(E1, w)' = IF v = w THEN 1 ELSE 0
        BY <1>0, <3>4, <4>0
      <4>2. QED
        BY <3>3, <4>1
    <3>6. QED
      BY <1>0, <2>3, <3>3, <3>5 DEF MintCntCounts
  <2>6. QED
    BY <2>4, <2>5
<1>9. QED
  BY <1>5, <1>6, <1>7, <1>8 DEF IInv

LEMMA IInvNext ==
    ASSUME MaxLost = 0
    PROVE  IInv /\ [Next]_vars => IInv'
<1> SUFFICES ASSUME IInv, [Next]_vars PROVE IInv'
  OBVIOUS
<1>1. ASSUME NEW v \in Validators, NEW d \in 0..EpochInterval,
             Finalize(v, LastBlock.time + BlockInterval + d)
      PROVE  IInv'
  BY <1>1, IInvFinalize
<1>2. ASSUME NEW k \in DOMAIN mintCnt, LoseNode(k) PROVE FALSE
  <2>1. Cardinality(lostNodes) = 0
    BY FS_EmptySet DEF IInv
  <2>2. QED
    BY <1>2, <2>1 DEF LoseNode
<1>3. CASE UNCHANGED vars
  BY <1>3 DEF vars, IInv, TypeOK, MintCntCounts, Produced, LastBlock
<1>4. QED
  BY <1>1, <1>2, <1>3 DEF Next

\* With a store that loses no mintCnt node, every finalized block keeps the
\* mint counts equal to the validators' production counts in the current
\* epoch, across epoch changes and skipped epochs: the counts the election
\* reads to kick out under-producers are exact.
THEOREM CountsCorrect ==
    ASSUME MaxLost = 0
    PROVE  Spec => []MintCntCounts
<1>1. Init => IInv
  BY IInvInit
<1>2. IInv /\ [Next]_vars => IInv'
  BY IInvNext
<1>3. IInv => MintCntCounts
  BY DEF IInv
<1>4. QED
  BY <1>1, <1>2, <1>3, PTL DEF Spec

---------------------------------------------------------------------------
(* Storage faults, for any number of lost nodes.  MintCntNeverOvercounts   *)
(* is inductive with TypeOK: updateMintCnt writes either 1 or one more     *)
(* than the count it read for the block's own key, and the block adds one  *)
(* to that key's production count; every other count is kept or deleted.  *)
OInv == TypeOK /\ MintCntNeverOvercounts

LEMMA OInvFinalize ==
    ASSUME OInv, NEW v \in Validators, NEW d \in 0..EpochInterval,
           Finalize(v, LastBlock.time + BlockInterval + d)
    PROVE  MintCntNeverOvercounts'
<1> DEFINE tp == LastBlock.time
           t  == tp + BlockInterval + d
           k  == MintKey(tp, t, v)
           m  == ElectedMintCnt(tp, t)
<1>1. TypeOK /\ MintCntNeverOvercounts
  BY DEF OInv
<1>2. \A e, w : Produced(e, w)' = Produced(e, w) + (IF Epoch(t) = e /\ v = w THEN 1 ELSE 0)
  BY <1>1, FinalizeProduced
<1>3. \A e, w : Produced(e, w) \in Nat
  BY <1>1, ProducedNat
<1>4. DOMAIN m \subseteq DOMAIN mintCnt /\ \A j \in DOMAIN m : m[j] = mintCnt[j]
  BY DEF ElectedMintCnt
<1>5. \A j \in DOMAIN m : m[j] <= Produced(j[1], j[2])'
  <2> SUFFICES ASSUME NEW j \in DOMAIN m PROVE m[j] <= Produced(j[1], j[2])'
    OBVIOUS
  <2>1. m[j] = mintCnt[j] /\ mintCnt[j] <= Produced(j[1], j[2])
    BY <1>1, <1>4 DEF MintCntNeverOvercounts
  <2>2. mintCnt[j] \in Nat
    BY <1>1, <1>4 DEF TypeOK
  <2> QED
    BY <1>2, <1>3, <2>1, <2>2
<1>6. \A e, w : e = Epoch(t) /\ w = v => NewCount(tp, t, v) <= Produced(e, w)'
  <2> SUFFICES ASSUME NEW e, NEW w, e = Epoch(t), w = v
               PROVE  NewCount(tp, t, v) <= Produced(e, w)'
    OBVIOUS
  <2>2. Produced(e, w)' = Produced(Epoch(t), v) + 1
    BY <1>2
  <2>3. CASE Epoch(t) = Epoch(tp) /\ IterNext(Epoch(tp)) /\ Present(<<Epoch(tp), v>>)
    <3>1. <<Epoch(tp), v>> \in DOMAIN mintCnt
      BY <2>3 DEF Present
    <3>2. mintCnt[<<Epoch(tp), v>>] <= Produced(Epoch(tp), v)
          /\ mintCnt[<<Epoch(tp), v>>] \in Nat
      BY <1>1, <3>1 DEF MintCntNeverOvercounts, TypeOK
    <3>3. NewCount(tp, t, v) = mintCnt[<<Epoch(tp), v>>] + 1
      BY <2>3 DEF NewCount
    <3> QED
      BY <1>3, <2>2, <2>3, <3>2, <3>3
  <2>4. CASE ~(Epoch(t) = Epoch(tp) /\ IterNext(Epoch(tp)) /\ Present(<<Epoch(tp), v>>))
    <3>1. NewCount(tp, t, v) = 1
      BY <2>4 DEF NewCount
    <3> QED
      BY <1>3, <2>2, <3>1
  <2> QED
    BY <2>3, <2>4
<1>7. mintCnt' = IF Readable(k)
                   THEN [j \in DOMAIN m \cup {k} |->
                           IF j = k THEN NewCount(tp, t, v) ELSE m[j]]
                   ELSE m
  BY DEF Finalize
<1>8. k = <<Epoch(t), v>>
  BY DEF MintKey
<1> SUFFICES ASSUME NEW j \in DOMAIN mintCnt'
             PROVE  mintCnt'[j] <= Produced(j[1], j[2])'
  BY DEF MintCntNeverOvercounts
<1>9. CASE Readable(k) /\ j = k
  <2>1. mintCnt'[j] = NewCount(tp, t, v)
    BY <1>7, <1>9
  <2>2. j[1] = Epoch(t) /\ j[2] = v
    BY <1>8, <1>9
  <2> QED
    BY <1>6, <2>1, <2>2
<1>10. CASE ~(Readable(k) /\ j = k)
  <2>1. j \in DOMAIN m /\ mintCnt'[j] = m[j]
    BY <1>7, <1>10
  <2> QED
    BY <1>5, <2>1
<1> QED
  BY <1>9, <1>10

(* Whatever nodes of the mintCnt trie the store loses, and wherever the    *)
(* prefix iterator stops, no stored count exceeds the blocks its validator *)
(* produced in its epoch: a fault can hide blocks from the election, never *)
(* invent them.                                                            *)
THEOREM NeverOvercounts == Spec => []MintCntNeverOvercounts
<1>1. Init => OInv
  <2> SUFFICES ASSUME Init PROVE OInv
    OBVIOUS
  <2>1. DOMAIN mintCnt = {}
    BY DEF Init
  <2> QED
    BY <2>1 DEF Init, OInv, TypeOK, MintCntNeverOvercounts
<1>2. OInv /\ [Next]_vars => OInv'
  <2> SUFFICES ASSUME OInv, [Next]_vars PROVE OInv'
    OBVIOUS
  <2>1. TypeOK'
    BY TypeOKNext DEF OInv
  <2>2. ASSUME NEW v \in Validators, NEW d \in 0..EpochInterval,
               Finalize(v, LastBlock.time + BlockInterval + d)
        PROVE  MintCntNeverOvercounts'
    BY <2>2, OInvFinalize
  <2>3. ASSUME NEW k \in DOMAIN mintCnt, LoseNode(k) PROVE MintCntNeverOvercounts'
    <3>1. mintCnt' = mintCnt /\ \A e, w : Produced(e, w)' = Produced(e, w)
      BY <2>3 DEF LoseNode, Produced
    <3> QED
      BY <3>1 DEF OInv, MintCntNeverOvercounts
  <2>4. CASE UNCHANGED vars
    <3>1. mintCnt' = mintCnt /\ \A e, w : Produced(e, w)' = Produced(e, w)
      BY <2>4 DEF vars, Produced
    <3> QED
      BY <2>1, <3>1 DEF OInv, MintCntNeverOvercounts
  <2> QED
    BY <2>1, <2>2, <2>3, <2>4 DEF Next, OInv
<1>3. OInv => MintCntNeverOvercounts
  BY DEF OInv
<1> QED
  BY <1>1, <1>2, <1>3, PTL DEF Spec

=============================================================================
