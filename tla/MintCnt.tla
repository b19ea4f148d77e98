------------------------------ MODULE MintCnt ------------------------------
(***************************************************************************)
(* The mint counter of the DPoS engine (consensus/dpos/dpos.go,            *)
(* updateMintCnt, called from Finalize for every block a node finalizes). *)
(*                                                                         *)
(* chain is the chain the blocks are finalized on, genesis first; a block  *)
(* is its time and validator (the coinbase updateMintCnt counts).  The     *)
(* mintCnt trie is a function from key <<epoch, validator>> to its count;  *)
(* keys are ordered as their bytes (big-endian epoch, then address), so    *)
(* lexicographically.  As in DposContext, lostNodes are the keys whose     *)
(* trie path the store cannot resolve: Trie.Get of such a key logs the     *)
(* MissingNodeError and returns nil, TryUpdate returns it (and             *)
(* updateMintCnt drops it), and the prefix iterator stops there.           *)
(*                                                                         *)
(* Finalize first runs the election, whose code is not in this repository; *)
(* of its effects only the one on mintCnt is modelled here: at an epoch    *)
(* change it deletes the previous epoch's counts (spec 4.B, step 6).  An   *)
(* election that fails drops the block, which is a stuttering step.        *)
(***************************************************************************)
EXTENDS Naturals, Sequences, FiniteSets

CONSTANTS
    Validators,     \* coinbase addresses, naturals ordered as their bytes
    EpochInterval,  \* epochInterval (86400 in the code)
    BlockInterval,  \* genesis BlockInterval
    MaxTime,        \* bound on the time of the chain's last block
    MaxLost         \* bound on the mintCnt nodes the store may lose

ASSUME MintCntAssumption ==
    /\ Validators \subseteq Nat
    /\ EpochInterval \in Nat \ {0}
    /\ BlockInterval \in Nat \ {0}
    /\ MaxTime \in Nat
    /\ MaxLost \in Nat

VARIABLES
    chain,      \* Seq([time, validator]); chain[1] is genesis
    mintCnt,    \* the mintCnt trie: <<epoch, validator>> -> count
    lostNodes   \* keys of mintCnt the store cannot resolve

vars == <<chain, mintCnt, lostNodes>>

Keys == Nat \X Validators

\* epoch := time / epochInterval
Epoch(t) == t \div EpochInterval

Readable(k) == k \notin lostNodes

\* The key order of the trie: big-endian epoch, then address.
KeyLeq(j, k) == j[1] < k[1] \/ (j[1] = k[1] /\ j[2] <= k[2])

TypeOK ==
    /\ chain \in Seq([time : Nat, validator : Validators \cup {0}])
    /\ Len(chain) >= 1
    /\ DOMAIN mintCnt \subseteq Keys
    /\ \A k \in DOMAIN mintCnt : mintCnt[k] \in Nat \ {0}
    /\ lostNodes \subseteq Keys

\* Genesis at time 0 with the zero address; the mintCnt trie is empty.
Init ==
    /\ chain = <<[time |-> 0, validator |-> 0]>>
    /\ mintCnt = [k \in {} |-> 0]
    /\ lostNodes = {}

---------------------------------------------------------------------------
LastBlock == chain[Len(chain)]

(* trie.NewIterator(NodeIterator(epochBytes)).Next(): the trie has a key   *)
(* at or after the epoch prefix, and the iterator reaches the first one.   *)
IterNext(e) ==
    \E k \in DOMAIN mintCnt :
        /\ k[1] >= e
        /\ \A j \in DOMAIN mintCnt : j[1] >= e /\ KeyLeq(j, k) => Readable(j)

\* mintCntTrie.Get(key) != nil: a MissingNodeError reads as nil.
Present(k) == k \in DOMAIN mintCnt /\ Readable(k)

\* A plausible bug of NewCount: the count starts at 0 instead of 1.
NewCountZeroBase(tp, t, v) ==
    LET e == Epoch(tp)
    IN IF Epoch(t) = e /\ IterNext(e) /\ Present(<<e, v>>)
          THEN mintCnt[<<e, v>>] + 1
          ELSE 0

(* The count updateMintCnt writes for validator v's block at time t after  *)
(* a parent at time tp: one more than the stored count when both are in    *)
(* the same epoch and the stored count reads, else 1.                      *)
NewCount(tp, t, v) ==
    LET e == Epoch(tp)
    IN IF Epoch(t) = e /\ IterNext(e) /\ Present(<<e, v>>)
          THEN mintCnt[<<e, v>>] + 1
          ELSE 1

\* A plausible bug of MintKey: the count is stored under the parent's epoch.
MintKeyParentEpoch(tp, t, v) == <<Epoch(tp), v>>

\* The key updateMintCnt writes: newEpoch || validator.
MintKey(tp, t, v) == <<Epoch(t), v>>

(* The election's effect on mintCnt (spec 4.B, step 6): at an epoch       *)
(* change the previous epoch's counts are deleted.                         *)
ElectedMintCnt(tp, t) ==
    IF Epoch(tp) = Epoch(t) THEN mintCnt
    ELSE [k \in {j \in DOMAIN mintCnt : j[1] # Epoch(tp)} |-> mintCnt[k]]

(* Finalize of validator v's block at time t on top of the chain: the     *)
(* election, then updateMintCnt, whose TryUpdate error is dropped.  The    *)
(* time is at least BlockInterval after the parent's (verifyHeader).       *)
Finalize(v, t) ==
    LET tp == LastBlock.time
        k  == MintKey(tp, t, v)
        m  == ElectedMintCnt(tp, t)
    IN /\ tp + BlockInterval <= t
       /\ mintCnt' = IF Readable(k)
                       THEN [j \in DOMAIN m \cup {k} |->
                               IF j = k THEN NewCount(tp, t, v) ELSE m[j]]
                       ELSE m
       /\ chain' = Append(chain, [time |-> t, validator |-> v])
       /\ UNCHANGED lostNodes

(* The store loses the node of the stored key k.                           *)
LoseNode(k) ==
    /\ Cardinality(lostNodes) < MaxLost
    /\ lostNodes' = lostNodes \cup {k}
    /\ UNCHANGED <<chain, mintCnt>>

Next ==
    \/ \E v \in Validators, d \in 0..EpochInterval :
          Finalize(v, LastBlock.time + BlockInterval + d)
    \/ \E k \in DOMAIN mintCnt : LoseNode(k)

Spec == Init /\ [][Next]_vars

\* The state constraint of the runs: time is unbounded, the runs stop here.
TimeBound == LastBlock.time <= MaxTime

---------------------------------------------------------------------------
\* The number of blocks validator v produced in epoch e on the chain.
Produced(e, v) ==
    Cardinality({i \in 2..Len(chain) :
                   Epoch(chain[i].time) = e /\ chain[i].validator = v})

(* The mint counts are the production counts (spec 4.F) that the next     *)
(* election reads to kick out under-producers: in the epoch of the last   *)
(* block every validator's stored count is the number of blocks it        *)
(* produced in that epoch, and no other count is stored.                  *)
MintCntCounts ==
    /\ \A k \in DOMAIN mintCnt : k[1] = Epoch(LastBlock.time)
    /\ \A v \in Validators :
          LET e == Epoch(LastBlock.time)
          IN IF Produced(e, v) = 0 THEN <<e, v>> \notin DOMAIN mintCnt
             ELSE <<e, v>> \in DOMAIN mintCnt /\ mintCnt[<<e, v>>] = Produced(e, v)

(* Storage faults only ever lower a count: no stored count exceeds the     *)
(* blocks its validator produced in its epoch, so a lost node can make a   *)
(* validator look like an under-producer to the election but never hide   *)
(* one.                                                                    *)
MintCntNeverOvercounts ==
    \A k \in DOMAIN mintCnt : mintCnt[k] <= Produced(k[1], k[2])

(* A lost node costs only its own count (spec 4.A: outside KickoutCandidate *)
(* and UnDelegate a MissingNode error surfaces): every validator of the    *)
(* last block's epoch whose own key is readable has its production count.  *)
MintCntFaultsConfined ==
    \A v \in Validators :
        LET e == Epoch(LastBlock.time)
        IN Produced(e, v) > 0 /\ Readable(<<e, v>>)
              => <<e, v>> \in DOMAIN mintCnt /\ mintCnt[<<e, v>>] = Produced(e, v)

=============================================================================
