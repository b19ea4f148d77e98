---------------------------- MODULE DposContext ----------------------------
(***************************************************************************)
(* The voting part of the DPoS context (core/types/dpos_context.go, here   *)
(* src/unnamed/part_000): the candidate, delegate and vote tries and the   *)
(* four operations that change them, BecomeCandidate, Delegate, UnDelegate *)
(* and KickoutCandidate.                                                   *)
(*                                                                         *)
(* A trie is abstracted to the set of its rows:                            *)
(*   candidateTrie  the set of candidate addresses (key c, value c);       *)
(*   delegateTrie   the set of pairs <<c, v>> (key c || v, value v);       *)
(*   voteTrie       a function voter -> candidate or None (key v, value c).*)
(*                                                                         *)
(* The backing store may lack trie nodes (pruning, corruption): lostNodes  *)
(* is the set of trie keys whose path this node cannot resolve.  Every     *)
(* TryGet, TryUpdate and TryDelete of such a key returns MissingNodeError  *)
(* and changes nothing; the code swallows that error on some paths and     *)
(* returns it on others, exactly as modelled below.  An operation that     *)
(* returns an error leaves no trace: its caller applies it to a            *)
(* Snapshot() and reverts with RevertToSnapShot (transactions) or drops    *)
(* the block under construction (the election in Finalize), so an error    *)
(* path is a stuttering step and only the successful outcomes are actions. *)
(***************************************************************************)
EXTENDS Naturals, FiniteSets

CONSTANTS
    Addr,     \* account addresses; ordered as the trie orders their bytes
    None,     \* "no row" in voteTrie
    MaxLost   \* bound on the trie nodes the store may lose in a run

ASSUME AddrAssumption == Addr \subseteq Nat /\ None \notin Addr
ASSUME MaxLostAssumption == MaxLost \in Nat

VARIABLES
    candidateTrie,
    delegateTrie,
    voteTrie,
    lostNodes

vars == <<candidateTrie, delegateTrie, voteTrie, lostNodes>>

\* Trie keys, tagged with the trie's prefix ("candidate-", "delegate-", "vote-").
CandidateKey(c) == <<"candidate", c>>
DelegateKey(c, v) == <<"delegate", c, v>>
VoteKey(v) == <<"vote", v>>
TrieKeys ==
    {CandidateKey(c) : c \in Addr} \cup {VoteKey(v) : v \in Addr}
        \cup {DelegateKey(c, v) : c, v \in Addr}

\* The store can resolve key k.
Readable(k) == k \notin lostNodes

TypeOK ==
    /\ candidateTrie \subseteq Addr
    /\ delegateTrie \subseteq Addr \X Addr
    /\ voteTrie \in [Addr -> Addr \cup {None}]
    /\ lostNodes \subseteq TrieKeys

Init ==
    /\ candidateTrie = {}
    /\ delegateTrie = {}
    /\ voteTrie = [v \in Addr |-> None]
    /\ lostNodes = {}

---------------------------------------------------------------------------
(* BecomeCandidate: candidateTrie.TryUpdate(c, c).  Idempotent.            *)
BecomeCandidate(c) ==
    /\ Readable(CandidateKey(c))
    /\ candidateTrie' = candidateTrie \cup {c}
    /\ UNCHANGED <<delegateTrie, voteTrie, lostNodes>>

(* The delegate row Delegate removes for the voter's previous vote old.   *)
(* It uses delegateTrie.Delete, which logs a MissingNodeError and goes on. *)
OldDelegateRow(old, v) ==
    IF old # None /\ Readable(DelegateKey(old, v)) THEN {<<old, v>>} ELSE {}

(* Delegate(v, c).  Errors: the candidate read fails or c is not a         *)
(* candidate; the delegate or vote update fails (both after the old row is *)
(* gone, so the caller's revert matters).  The vote read swallows a       *)
(* MissingNodeError, but then the vote update of the same key fails, so   *)
(* on success old is the voter's current vote.                             *)
Delegate(v, c) ==
    /\ Readable(CandidateKey(c))
    /\ c \in candidateTrie
    /\ Readable(DelegateKey(c, v))
    /\ Readable(VoteKey(v))
    /\ delegateTrie' = (delegateTrie \ OldDelegateRow(voteTrie[v], v))
                          \cup {<<c, v>>}
    /\ voteTrie' = [voteTrie EXCEPT ![v] = c]
    /\ UNCHANGED <<candidateTrie, lostNodes>>

(* Plausible bugs of UnDelegate: the vote row is overwritten with the zero *)
(* address instead of deleted, or it is left in place.                    *)
UnDelegateZeroVote(v, c) ==
    /\ Readable(CandidateKey(c))
    /\ c \in candidateTrie
    /\ Readable(VoteKey(v))
    /\ voteTrie[v] = c
    /\ Readable(DelegateKey(c, v))
    /\ delegateTrie' = delegateTrie \ {<<c, v>>}
    /\ voteTrie' = [voteTrie EXCEPT ![v] = 0]
    /\ UNCHANGED <<candidateTrie, lostNodes>>

UnDelegateKeepVote(v, c) ==
    /\ Readable(CandidateKey(c))
    /\ c \in candidateTrie
    /\ Readable(VoteKey(v))
    /\ voteTrie[v] = c
    /\ Readable(DelegateKey(c, v))
    /\ delegateTrie' = delegateTrie \ {<<c, v>>}
    /\ UNCHANGED <<candidateTrie, voteTrie, lostNodes>>

(* UnDelegate(v, c).  Errors: the candidate read fails or c is not a       *)
(* candidate; the vote read fails or the vote is not for c; the delegate  *)
(* delete fails.  The vote delete follows a successful read of that key.   *)
UnDelegate(v, c) ==
    /\ Readable(CandidateKey(c))
    /\ c \in candidateTrie
    /\ Readable(VoteKey(v))
    /\ voteTrie[v] = c
    /\ Readable(DelegateKey(c, v))
    /\ delegateTrie' = delegateTrie \ {<<c, v>>}
    /\ voteTrie' = [voteTrie EXCEPT ![v] = None]
    /\ UNCHANGED <<candidateTrie, lostNodes>>

(* The voters whose delegate rows KickoutCandidate's prefix iterator       *)
(* visits: it walks the rows of c in voter order and stops (Next() returns *)
(* false) at the first key whose node is missing.                          *)
KickoutVisited(c) ==
    {v \in Addr : /\ <<c, v>> \in delegateTrie
                  /\ \A w \in Addr : w <= v => Readable(DelegateKey(c, w))}

(* A visited voter's vote row is deleted when TryGet succeeds and the vote *)
(* is for c; a MissingNodeError of TryGet skips the delete.                *)
KickoutClearsVote(c, v) ==
    /\ v \in KickoutVisited(c)
    /\ Readable(VoteKey(v))
    /\ voteTrie[v] = c

(* KickoutCandidate(c).  Every error it meets is a MissingNodeError, and   *)
(* it swallows all of them, so it always returns nil.                      *)
KickoutCandidate(c) ==
    /\ candidateTrie' = IF Readable(CandidateKey(c))
                          THEN candidateTrie \ {c} ELSE candidateTrie
    /\ delegateTrie' = delegateTrie \ {<<c, v>> : v \in KickoutVisited(c)}
    /\ voteTrie' = [v \in Addr |->
                      IF KickoutClearsVote(c, v) THEN None ELSE voteTrie[v]]
    /\ UNCHANGED lostNodes

(* The backing store loses the node on the path of key k.                  *)
LoseNode(k) ==
    /\ Cardinality(lostNodes) < MaxLost
    /\ lostNodes' = lostNodes \cup {k}
    /\ UNCHANGED <<candidateTrie, delegateTrie, voteTrie>>

Next ==
    \/ \E c \in Addr : BecomeCandidate(c) \/ KickoutCandidate(c)
    \/ \E v, c \in Addr : Delegate(v, c) \/ UnDelegate(v, c)
    \/ \E k \in TrieKeys : LoseNode(k)

Spec == Init /\ [][Next]_vars

---------------------------------------------------------------------------
(* Vote/delegate consistency (spec 3, invariant 1): the delegate trie and  *)
(* the vote trie are the same voting relation seen from either end, after  *)
(* any sequence of Delegate, UnDelegate and KickoutCandidate.              *)
VoteDelegateConsistent ==
    \A c, v \in Addr : <<c, v>> \in delegateTrie <=> voteTrie[v] = c

(* Every vote is for a current candidate (spec 3, invariant 2):           *)
(* KickoutCandidate must clear the votes of the candidate it removes.      *)
VotesForCandidates ==
    \A v \in Addr : voteTrie[v] # None => voteTrie[v] \in candidateTrie

(* A voter's balance backs at most one candidate in the tally that         *)
(* iterates the delegate trie (spec glossary, "Voter").                    *)
NoDoubleDelegation ==
    \A v \in Addr : Cardinality({c \in Addr : <<c, v>> \in delegateTrie}) <= 1

(* Storage damage stays where it happened: where the two tries disagree,  *)
(* the disagreeing row's own key is lost.  A MissingNodeError swallowed on *)
(* one key never makes an operation corrupt the rows of another key.       *)
DamageConfined ==
    /\ \A c, v \in Addr :
          <<c, v>> \in delegateTrie /\ voteTrie[v] # c
              => DelegateKey(c, v) \in lostNodes
    /\ \A v \in Addr :
          voteTrie[v] # None /\ <<voteTrie[v], v>> \notin delegateTrie
              => VoteKey(v) \in lostNodes

=============================================================================
