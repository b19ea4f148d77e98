------------------------- MODULE DposContextProofs -------------------------
(***************************************************************************)
(* Proofs about DposContext for every set of addresses.                    *)
(*                                                                         *)
(*   TypeCorrect        Spec => []TypeOK, whatever MaxLost is.             *)
(*   VotingConsistent   with a store that loses no node (MaxLost = 0), the *)
(*                      delegate and vote tries stay one voting relation   *)
(*                      and every vote is for a candidate.                 *)
(*                                                                         *)
(* Neither invariant is inductive alone.  Consistency of the tries is      *)
(* preserved by KickoutCandidate only because the vote rows it clears are  *)
(* exactly the votes for c, which needs VotesForCandidates' partner        *)
(* VoteDelegateConsistent, and every step needs TypeOK and that no key is  *)
(* lost: the inductive invariant is their conjunction, IInv.               *)
(***************************************************************************)
EXTENDS DposContext, FiniteSetTheorems, TLAPS

\* Spec => []TypeOK: every operation keeps the tries over Addr.
THEOREM TypeCorrect == Spec => []TypeOK
<1>1. Init => TypeOK
  BY DEF Init, TypeOK
<1>2. TypeOK /\ [Next]_vars => TypeOK'
  <2> SUFFICES ASSUME TypeOK, [Next]_vars PROVE TypeOK'
    OBVIOUS
  <2>1. ASSUME NEW c \in Addr, BecomeCandidate(c) PROVE TypeOK'
    BY <2>1 DEF BecomeCandidate, TypeOK
  <2>2. ASSUME NEW c \in Addr, KickoutCandidate(c) PROVE TypeOK'
    BY <2>2 DEF KickoutCandidate, TypeOK
  <2>3. ASSUME NEW v \in Addr, NEW c \in Addr, Delegate(v, c) PROVE TypeOK'
    BY <2>3 DEF Delegate, OldDelegateRow, TypeOK
  <2>4. ASSUME NEW v \in Addr, NEW c \in Addr, UnDelegate(v, c) PROVE TypeOK'
    BY <2>4 DEF UnDelegate, TypeOK
  <2>5. ASSUME NEW k \in TrieKeys, LoseNode(k) PROVE TypeOK'
    BY <2>5 DEF LoseNode, TypeOK
  <2>6. CASE UNCHANGED vars
    BY <2>6 DEF vars, TypeOK
  <2>7. QED
    BY <2>1, <2>2, <2>3, <2>4, <2>5, <2>6 DEF Next
<1>3. QED
  BY <1>1, <1>2, PTL DEF Spec

---------------------------------------------------------------------------
\* The inductive invariant of a fault-free store.
IInv ==
    /\ TypeOK
    /\ lostNodes = {}
    /\ VoteDelegateConsistent
    /\ VotesForCandidates

\* With no lost node, KickoutCandidate visits every delegate row of c.
LEMMA KickoutVisitsAll ==
    ASSUME IInv, NEW c \in Addr
    PROVE  KickoutVisited(c) = {v \in Addr : <<c, v>> \in delegateTrie}
BY DEF IInv, KickoutVisited, Readable

LEMMA IInvInit == Init => IInv
BY AddrAssumption DEF Init, IInv, TypeOK, VoteDelegateConsistent, VotesForCandidates

LEMMA IInvNext ==
    ASSUME MaxLost = 0
    PROVE  IInv /\ [Next]_vars => IInv'
<1> SUFFICES ASSUME IInv, [Next]_vars PROVE IInv'
  OBVIOUS
<1>0. TypeOK'
  BY TypeCorrect DEF IInv, TypeOK, Next, vars, BecomeCandidate, KickoutCandidate,
     Delegate, OldDelegateRow, UnDelegate, LoseNode
<1>1. ASSUME NEW c \in Addr, BecomeCandidate(c) PROVE IInv'
  BY <1>0, <1>1 DEF BecomeCandidate, IInv, VoteDelegateConsistent, VotesForCandidates
<1>2. ASSUME NEW c \in Addr, KickoutCandidate(c) PROVE IInv'
  <2>1. KickoutVisited(c) = {v \in Addr : <<c, v>> \in delegateTrie}
    BY KickoutVisitsAll
  <2>2. \A v \in Addr : KickoutClearsVote(c, v) <=> voteTrie[v] = c
    BY <2>1 DEF KickoutClearsVote, IInv, Readable, VoteDelegateConsistent
  <2>3. candidateTrie' = candidateTrie \ {c}
    BY <1>2 DEF KickoutCandidate, IInv, Readable
  <2>4. VoteDelegateConsistent'
    BY <1>2, <2>1, <2>2, AddrAssumption DEF KickoutCandidate, IInv, TypeOK, VoteDelegateConsistent
  <2>5. VotesForCandidates'
    BY <1>2, <2>2, <2>3 DEF KickoutCandidate, IInv, TypeOK, VotesForCandidates
  <2>6. QED
    BY <1>0, <1>2, <2>4, <2>5 DEF KickoutCandidate, IInv
<1>3. ASSUME NEW v \in Addr, NEW c \in Addr, Delegate(v, c) PROVE IInv'
  <2>1. OldDelegateRow(voteTrie[v], v) =
          IF voteTrie[v] # None THEN {<<voteTrie[v], v>>} ELSE {}
    BY DEF OldDelegateRow, IInv, Readable
  <2>2. VoteDelegateConsistent'
    <3> SUFFICES ASSUME NEW x \in Addr, NEW y \in Addr
                 PROVE  <<x, y>> \in delegateTrie' <=> voteTrie'[y] = x
      BY DEF VoteDelegateConsistent
    <3>1. CASE y = v
      BY <1>3, <2>1, <3>1, AddrAssumption DEF Delegate, IInv, TypeOK, VoteDelegateConsistent
    <3>2. CASE y # v
      BY <1>3, <2>1, <3>2 DEF Delegate, IInv, TypeOK, VoteDelegateConsistent
    <3>3. QED
      BY <3>1, <3>2
  <2>3. VotesForCandidates'
    BY <1>3 DEF Delegate, IInv, TypeOK, VotesForCandidates
  <2>4. QED
    BY <1>0, <1>3, <2>2, <2>3 DEF Delegate, IInv
<1>4. ASSUME NEW v \in Addr, NEW c \in Addr, UnDelegate(v, c) PROVE IInv'
  <2>1. VoteDelegateConsistent'
    <3> SUFFICES ASSUME NEW x \in Addr, NEW y \in Addr
                 PROVE  <<x, y>> \in delegateTrie' <=> voteTrie'[y] = x
      BY DEF VoteDelegateConsistent
    <3>1. CASE y = v
      BY <1>4, <3>1, AddrAssumption DEF UnDelegate, IInv, TypeOK, VoteDelegateConsistent
    <3>2. CASE y # v
      BY <1>4, <3>2 DEF UnDelegate, IInv, TypeOK, VoteDelegateConsistent
    <3>3. QED
      BY <3>1, <3>2
  <2>2. VotesForCandidates'
    BY <1>4 DEF UnDelegate, IInv, TypeOK, VotesForCandidates
  <2>3. QED
    BY <1>0, <1>4, <2>1, <2>2 DEF UnDelegate, IInv
<1>5. ASSUME NEW k \in TrieKeys, LoseNode(k) PROVE IInv'
  <2>1. Cardinality(lostNodes) = 0
    BY FS_EmptySet DEF IInv
  <2>2. FALSE
    BY <1>5, <2>1 DEF LoseNode
  <2>3. QED
    BY <2>2
<1>6. CASE UNCHANGED vars
  BY <1>6 DEF vars, IInv, TypeOK, VoteDelegateConsistent, VotesForCandidates
<1>7. QED
  BY <1>1, <1>2, <1>3, <1>4, <1>5, <1>6 DEF Next

\* With a store that loses nothing, the delegate and vote tries are one
\* voting relation and every vote is for a candidate, after any sequence of
\* BecomeCandidate, Delegate, UnDelegate and KickoutCandidate.
THEOREM VotingConsistent ==
    ASSUME MaxLost = 0
    PROVE  Spec => [](VoteDelegateConsistent /\ VotesForCandidates)
<1>1. Init => IInv
  BY IInvInit
<1>2. IInv /\ [Next]_vars => IInv'
  BY IInvNext
<1>3. IInv => VoteDelegateConsistent /\ VotesForCandidates
  BY DEF IInv
<1>4. QED
  BY <1>1, <1>2, <1>3, PTL DEF Spec

---------------------------------------------------------------------------
(* Storage damage for any number of lost nodes.  DamageConfined is         *)
(* inductive with TypeOK: an operation either fixes a disagreeing row of    *)
(* the acting voter (Delegate drops the old row when it can read it) or    *)
(* finds the row's own key lost, and lost keys stay lost.  Its two halves:  *)
(* a delegate row the vote trie does not back has its own key lost, and a  *)
(* vote the delegate trie does not back has its own key lost.              *)
RowsConfined ==
    \A c, v \in Addr :
        <<c, v>> \in delegateTrie /\ voteTrie[v] # c => DelegateKey(c, v) \in lostNodes
VotesConfined ==
    \A v \in Addr :
        voteTrie[v] # None /\ <<voteTrie[v], v>> \notin delegateTrie
            => VoteKey(v) \in lostNodes

DInv == TypeOK /\ RowsConfined /\ VotesConfined

LEMMA DInvIsDamageConfined == DInv <=> TypeOK /\ DamageConfined
BY DEF DInv, RowsConfined, VotesConfined, DamageConfined

(* Delegate(v, c): the voter's old row goes when it can be read; the rows *)
(* of v it keeps were already lost, and the new vote has its row.          *)
LEMMA DelegateConfined ==
    ASSUME DInv, NEW v \in Addr, NEW c \in Addr, Delegate(v, c)
    PROVE  RowsConfined' /\ VotesConfined'
<1>1. TypeOK /\ RowsConfined /\ VotesConfined
  BY DEF DInv
<1>2. lostNodes' = lostNodes /\ voteTrie' = [voteTrie EXCEPT ![v] = c]
      /\ delegateTrie' = (delegateTrie \ OldDelegateRow(voteTrie[v], v)) \cup {<<c, v>>}
  BY DEF Delegate
<1>3. RowsConfined'
  <2> SUFFICES ASSUME NEW x \in Addr, NEW y \in Addr,
                      <<x, y>> \in delegateTrie', voteTrie'[y] # x
               PROVE  DelegateKey(x, y) \in lostNodes
    BY <1>2 DEF RowsConfined
  <2>1. CASE y = v
    <3>1. x # c /\ <<x, v>> \in delegateTrie /\ <<x, v>> \notin OldDelegateRow(voteTrie[v], v)
      BY <1>1, <1>2, <2>1 DEF TypeOK
    <3>2. CASE voteTrie[v] = x
      BY <2>1, <3>1, <3>2, AddrAssumption DEF OldDelegateRow, Readable
    <3>3. CASE voteTrie[v] # x
      BY <1>1, <2>1, <3>1, <3>3 DEF RowsConfined
    <3> QED
      BY <3>2, <3>3
  <2>2. CASE y # v
    BY <1>1, <1>2, <2>2 DEF TypeOK, RowsConfined
  <2> QED
    BY <2>1, <2>2
<1>4. VotesConfined'
  <2> SUFFICES ASSUME NEW y \in Addr, voteTrie'[y] # None,
                      <<voteTrie'[y], y>> \notin delegateTrie'
               PROVE  VoteKey(y) \in lostNodes
    BY <1>2 DEF VotesConfined
  <2>1. y # v
    BY <1>1, <1>2 DEF TypeOK
  <2>2. voteTrie'[y] = voteTrie[y] /\ <<voteTrie[y], y>> \notin delegateTrie
    BY <1>1, <1>2, <2>1 DEF TypeOK, OldDelegateRow
  <2> QED
    BY <1>1, <2>2 DEF VotesConfined
<1> QED
  BY <1>3, <1>4

(* UnDelegate(v, c): the vote and the row for c both go; any other row of *)
(* v was already lost.                                                     *)
LEMMA UnDelegateConfined ==
    ASSUME DInv, NEW v \in Addr, NEW c \in Addr, UnDelegate(v, c)
    PROVE  RowsConfined' /\ VotesConfined'
<1>1. TypeOK /\ RowsConfined /\ VotesConfined
  BY DEF DInv
<1>2. lostNodes' = lostNodes /\ voteTrie' = [voteTrie EXCEPT ![v] = None]
      /\ delegateTrie' = delegateTrie \ {<<c, v>>} /\ voteTrie[v] = c
  BY DEF UnDelegate
<1>3. RowsConfined'
  <2> SUFFICES ASSUME NEW x \in Addr, NEW y \in Addr,
                      <<x, y>> \in delegateTrie', voteTrie'[y] # x
               PROVE  DelegateKey(x, y) \in lostNodes
    BY <1>2 DEF RowsConfined
  <2>1. CASE y = v
    BY <1>1, <1>2, <2>1 DEF TypeOK, RowsConfined
  <2>2. CASE y # v
    BY <1>1, <1>2, <2>2 DEF TypeOK, RowsConfined
  <2> QED
    BY <2>1, <2>2
<1>4. VotesConfined'
  BY <1>1, <1>2, AddrAssumption DEF TypeOK, VotesConfined
<1> QED
  BY <1>3, <1>4

(* KickoutCandidate(c): a vote it clears had its row removed; a row it     *)
(* removes whose vote it cannot clear has a lost vote key.                 *)
LEMMA KickoutConfined ==
    ASSUME DInv, NEW c \in Addr, KickoutCandidate(c)
    PROVE  RowsConfined' /\ VotesConfined'
<1>1. TypeOK /\ RowsConfined /\ VotesConfined
  BY DEF DInv
<1>2. /\ lostNodes' = lostNodes
      /\ delegateTrie' = delegateTrie \ {<<c, w>> : w \in KickoutVisited(c)}
      /\ voteTrie' = [w \in Addr |-> IF KickoutClearsVote(c, w) THEN None ELSE voteTrie[w]]
  BY DEF KickoutCandidate
<1>3. RowsConfined'
  <2> SUFFICES ASSUME NEW x \in Addr, NEW y \in Addr,
                      <<x, y>> \in delegateTrie', voteTrie'[y] # x
               PROVE  DelegateKey(x, y) \in lostNodes
    BY <1>2 DEF RowsConfined
  <2>1. <<x, y>> \in delegateTrie
    BY <1>2
  <2>2. CASE KickoutClearsVote(c, y)
    <3>1. voteTrie[y] = c /\ y \in KickoutVisited(c)
      BY <2>2 DEF KickoutClearsVote
    <3>2. x # c
      BY <1>2, <3>1
    <3> QED
      BY <1>1, <2>1, <3>1, <3>2 DEF RowsConfined
  <2>3. CASE ~KickoutClearsVote(c, y)
    BY <1>1, <1>2, <2>1, <2>3 DEF RowsConfined
  <2> QED
    BY <2>2, <2>3
<1>4. VotesConfined'
  <2> SUFFICES ASSUME NEW y \in Addr, voteTrie'[y] # None,
                      <<voteTrie'[y], y>> \notin delegateTrie'
               PROVE  VoteKey(y) \in lostNodes
    BY <1>2 DEF VotesConfined
  <2>1. ~KickoutClearsVote(c, y) /\ voteTrie'[y] = voteTrie[y] /\ voteTrie[y] # None
    BY <1>2
  <2>2. CASE <<voteTrie[y], y>> \notin delegateTrie
    BY <1>1, <2>1, <2>2 DEF VotesConfined
  <2>3. CASE <<voteTrie[y], y>> \in delegateTrie
    <3>1. voteTrie[y] = c /\ y \in KickoutVisited(c)
      BY <1>2, <2>1, <2>3
    <3> QED
      BY <2>1, <3>1 DEF KickoutClearsVote, Readable
  <2> QED
    BY <2>2, <2>3
<1> QED
  BY <1>3, <1>4

LEMMA DInvNext == DInv /\ [Next]_vars => DInv'
<1> SUFFICES ASSUME DInv, [Next]_vars PROVE DInv'
  OBVIOUS
<1>0. TypeOK'
  BY TypeCorrect DEF DInv, TypeOK, Next, vars, BecomeCandidate, KickoutCandidate,
     Delegate, OldDelegateRow, UnDelegate, LoseNode
<1>1. ASSUME NEW c \in Addr, BecomeCandidate(c) PROVE DInv'
  BY <1>0, <1>1 DEF BecomeCandidate, DInv, RowsConfined, VotesConfined
<1>2. ASSUME NEW c \in Addr, KickoutCandidate(c) PROVE DInv'
  BY <1>0, <1>2, KickoutConfined DEF DInv
<1>3. ASSUME NEW v \in Addr, NEW c \in Addr, Delegate(v, c) PROVE DInv'
  BY <1>0, <1>3, DelegateConfined DEF DInv
<1>4. ASSUME NEW v \in Addr, NEW c \in Addr, UnDelegate(v, c) PROVE DInv'
  BY <1>0, <1>4, UnDelegateConfined DEF DInv
<1>5. ASSUME NEW k \in TrieKeys, LoseNode(k) PROVE DInv'
  BY <1>0, <1>5 DEF LoseNode, DInv, RowsConfined, VotesConfined
<1>6. CASE UNCHANGED vars
  BY <1>0, <1>6 DEF vars, DInv, RowsConfined, VotesConfined
<1> QED
  BY <1>1, <1>2, <1>3, <1>4, <1>5, <1>6 DEF Next

(* However many trie nodes the store loses, and whichever operations meet  *)
(* the resulting MissingNodeErrors and swallow them, a delegate row and a  *)
(* vote that disagree always have their own key lost: the damage never     *)
(* spreads to rows whose keys the store can read.                          *)
THEOREM DamageStaysConfined == Spec => []DamageConfined
<1>1. Init => DInv
  BY AddrAssumption DEF Init, DInv, TypeOK, RowsConfined, VotesConfined
<1>2. DInv => DamageConfined
  BY DInvIsDamageConfined
<1> QED
  BY <1>1, <1>2, DInvNext, PTL DEF Spec

=============================================================================
