------------------------------ MODULE Producer ------------------------------
(***************************************************************************)
(* Block production and its check by peers (consensus/dpos/dpos.go):       *)
(* checkDeadline and CheckValidator decide whether a node may mint at time *)
(* now, Prepare fills the header's validator with the node's signer, Seal  *)
(* waits for the next slot and signs, and verifySeal /                     *)
(* verifyBlockSigner with verifyHeader's timestamp rule decide whether     *)
(* peers accept the block.                                                 *)
(*                                                                         *)
(* Every node is honest.  d.signer and d.signFn are set by Authorize, which *)
(* writes them one after the other under d.mu; Seal reads both without the *)
(* lock.  A signing callback is a keystore wallet's SignHash, which signs  *)
(* only for its own account (else ErrUnknownAccount); signFn[n] is that   *)
(* account.  now is the wall clock in seconds.  The driver that           *)
(* calls the engine (the miner, not part of this repository) is modelled   *)
(* from the engine's interface: once a second it calls CheckValidator on   *)
(* its head and, on success, builds a header stamped with that second and  *)
(* calls Prepare, Finalize and Seal; it may raise                          *)
(* Seal's stop signal while Seal waits.  A block's chain is abstracted to  *)
(* its height, its parent's time and whether it and all its ancestors      *)
(* pass verification (ok); peers adopt a longer chain of ok blocks.        *)
(*                                                                         *)
(* lookupValidator (EpochContext, not in this repository) follows spec     *)
(* 4.C: the validator of t is Schedule[(slot(t) mod EpochSlots) mod n].    *)
(* Seal's block.Header().Time.SetInt64(now) writes into the copy that      *)
(* Block.Header() returns, so a sealed header keeps the driver's time.     *)
(***************************************************************************)
EXTENDS Slots, Sequences

CONSTANTS
    Nodes,          \* the engines, named by the address they start with
    Accounts,       \* every address some engine's keystore holds
    Keys,           \* engine -> the accounts of its keystore
    MaxAuthorize,   \* bound on the Authorize calls of a run
    Schedule,       \* the epoch's validator list L from the epoch trie
    BlockInterval,  \* genesis BlockInterval
    EpochSlots,     \* epochInterval / BlockInterval
    MaxTime,        \* bound on the wall clock
    SealStall,      \* seconds Seal's signing may trail its timer
    NoNode          \* the zero address (genesis has no validator)

ASSUME ProducerAssumption ==
    /\ Schedule \in Seq(Nodes) /\ Len(Schedule) > 0
    /\ Nodes \subseteq Accounts
    /\ Keys \in [Nodes -> SUBSET Accounts] /\ \A n \in Nodes : n \in Keys[n]
    /\ MaxAuthorize \in Nat
    /\ BlockInterval \in Nat \ {0}
    /\ EpochSlots \in Nat \ {0}
    /\ MaxTime \in Nat
    /\ SealStall \in Nat
    /\ NoNode \notin Accounts

VARIABLES
    now,      \* the wall clock
    head,     \* node -> the block at the head of its chain
    pc,       \* node -> "idle" | "sealing" (after Prepare) | "waiting" (in Seal)
    work,     \* node -> the header under construction and Seal's wake time
    tried,    \* nodes whose driver already called CheckValidator this second
    blocks,   \* every block some node sealed
    signer,   \* node -> d.signer
    signFn,   \* node -> the account d.signFn signs for
    authorizing,  \* nodes inside Authorize, between its two writes
    authorized    \* the number of Authorize calls so far

vars == <<now, head, pc, work, tried, blocks, signer, signFn, authorizing, authorized>>
authVars == <<signer, signFn, authorizing, authorized>>

Genesis == [time |-> 0, height |-> 0, validator |-> NoNode, signer |-> NoNode,
            parentTime |-> 0, ok |-> TRUE]

Block == [time : Nat, height : Nat, validator : Accounts \cup {NoNode},
          signer : Accounts \cup {NoNode}, parentTime : Nat, ok : BOOLEAN]

Work == [parent : Block, time : Nat, validator : Accounts, wake : Nat, delay : BOOLEAN]

NoWork == [parent |-> Genesis, time |-> 0, validator |-> CHOOSE n \in Nodes : TRUE,
           wake |-> 0, delay |-> FALSE]

TypeOK ==
    /\ now \in Nat
    /\ head \in [Nodes -> Block]
    /\ pc \in [Nodes -> {"idle", "sealing", "waiting"}]
    /\ work \in [Nodes -> Work]
    /\ tried \subseteq Nodes
    /\ blocks \subseteq Block
    /\ signer \in [Nodes -> Accounts]
    /\ signFn \in [Nodes -> Accounts]
    /\ authorizing \subseteq Nodes
    /\ authorized \in 0..MaxAuthorize

Init ==
    /\ now = 1
    /\ head = [n \in Nodes |-> Genesis]
    /\ pc = [n \in Nodes |-> "idle"]
    /\ work = [n \in Nodes |-> NoWork]
    /\ tried = {}
    /\ blocks = {}
    \* the driver's Authorize with the etherbase, before mining starts
    /\ signer = [n \in Nodes |-> n]
    /\ signFn = [n \in Nodes |-> n]
    /\ authorizing = {}
    /\ authorized = 0

---------------------------------------------------------------------------
\* lookupValidator(t): the scheduler's expected validator (spec 4.C).
LookupValidator(t) ==
    Schedule[((RefSlotOf(t, BlockInterval) % EpochSlots) % Len(Schedule)) + 1]

(* checkDeadline(lastBlock, now): ErrMintFutureBlock when the head is at   *)
(* or after the next slot; nil when the previous slot's block has arrived  *)
(* or the next slot is at most a second away; else ErrWaitForPrevBlock.    *)
CheckDeadline(last, t) ==
    LET prevSlot == PrevSlot(t, BlockInterval)
        nextSlot == NextSlot(t, BlockInterval)
    IN IF last.time >= nextSlot THEN "ErrMintFutureBlock"
       ELSE IF last.time = prevSlot \/ nextSlot - t <= 1 THEN "nil"
       ELSE "ErrWaitForPrevBlock"

(* verifyHeader's timestamp rule and verifySeal / verifyBlockSigner: the   *)
(* parent is ok and at least BlockInterval older, the recovered signer is  *)
(* the expected validator of the block's time and the header's validator.  *)
Verified(b, parent) ==
    /\ parent.ok
    /\ parent.time + BlockInterval <= b.time
    /\ b.signer = LookupValidator(b.time)
    /\ b.signer = b.validator

\* The driver's new header on top of the head, stamped with the second now.
NewHeader(n) == [NoWork EXCEPT !.parent = head[n], !.time = now]

\* A plausible bug of Prepare: header.Validator is left unset.
PrepareNoValidator(n, h) == [h EXCEPT !.validator = NoNode]

(* Prepare of header h: the parent must exist (it does: it is the head)    *)
(* and header.Validator := d.signer.  Nonce, extra-data and difficulty     *)
(* are data the model abstracts.                                           *)
Prepare(n, h) == [h EXCEPT !.validator = signer[n]]

(* The driver's call of CheckValidator(head, now) followed by Prepare of  *)
(* a header it stamps with now; a                                          *)
(* returned error ends the attempt until the next second.  CheckValidator *)
(* compares lookupValidator(now) with d.signer; the zero address cannot   *)
(* be scheduled.  Its read of d.signer and Prepare's are one step here.   *)
(* Finalize, between Prepare and Seal, is modelled by MintCnt; here it    *)
(* only takes time.                                                       *)
CheckValidator(n) ==
    /\ pc[n] = "idle"
    /\ n \notin tried
    /\ tried' = tried \cup {n}
    /\ IF CheckDeadline(head[n], now) = "nil" /\ LookupValidator(now) = signer[n]
          THEN /\ pc' = [pc EXCEPT ![n] = "sealing"]
               /\ work' = [work EXCEPT ![n] = Prepare(n, NewHeader(n))]
          ELSE UNCHANGED <<pc, work>>
    /\ UNCHANGED <<now, head, blocks, authVars>>

\* A plausible bug of Seal: it signs at once instead of waiting for the slot.
SealStartNoWait(n) ==
    /\ pc[n] = "sealing"
    /\ pc' = [pc EXCEPT ![n] = "waiting"]
    /\ work' = [work EXCEPT ![n].wake = now, ![n].delay = FALSE]
    /\ UNCHANGED <<now, head, tried, blocks, authVars>>

(* Seal: genesis cannot be sealed (the parent is at least genesis);       *)
(* delay := NextSlot(now) - now; it waits when delay > 0.                  *)
SealStart(n) ==
    /\ pc[n] = "sealing"
    /\ pc' = [pc EXCEPT ![n] = "waiting"]
    /\ work' = [work EXCEPT ![n].wake = NextSlot(now, BlockInterval),
                            ![n].delay = NextSlot(now, BlockInterval) - now > 0]
    /\ UNCHANGED <<now, head, tried, blocks, authVars>>

\* Seal's select takes the stop signal: no block.
SealStop(n) ==
    /\ pc[n] = "waiting"
    /\ work[n].delay
    /\ pc' = [pc EXCEPT ![n] = "idle"]
    /\ UNCHANGED <<now, head, work, tried, blocks, authVars>>

(* The wait is over.  The time stamp at line 471 goes into a copy of the   *)
(* header, so the header keeps its time.  d.signFn signs for d.signer,     *)
(* both read without d.mu; the callback holds that account.  The driver   *)
(* imports the sealed block, which verification may refuse.               *)
SealSign(n) ==
    LET w  == work[n]
        b0 == [time |-> w.time, height |-> w.parent.height + 1,
               validator |-> w.validator, signer |-> signer[n],
               parentTime |-> w.parent.time, ok |-> FALSE]
        b  == [b0 EXCEPT !.ok = Verified(b0, w.parent)]
    IN /\ pc[n] = "waiting"
       /\ now >= w.wake
       /\ signFn[n] = signer[n]
       /\ blocks' = blocks \cup {b}
       /\ head' = IF b.ok /\ b.height > head[n].height
                    THEN [head EXCEPT ![n] = b] ELSE head
       /\ pc' = [pc EXCEPT ![n] = "idle"]
       /\ UNCHANGED <<now, work, tried, authVars>>

(* The wait is over but d.signFn's wallet does not hold d.signer: the     *)
(* callback fails and Seal returns its error, with no block.              *)
SealSignError(n) ==
    /\ pc[n] = "waiting"
    /\ now >= work[n].wake
    /\ signFn[n] # signer[n]
    /\ pc' = [pc EXCEPT ![n] = "idle"]
    /\ UNCHANGED <<now, head, work, tried, blocks, authVars>>

(* Authorize(acc, wallet.SignHash) takes d.mu and writes d.signer ...      *)
AuthorizeSigner(n, acc) ==
    /\ n \notin authorizing
    /\ authorized < MaxAuthorize
    /\ signer' = [signer EXCEPT ![n] = acc]
    /\ authorizing' = authorizing \cup {n}
    /\ authorized' = authorized + 1
    /\ UNCHANGED <<now, head, pc, work, tried, blocks, signFn>>

(* ... then d.signFn, the wallet of the same account, and releases d.mu.  *)
AuthorizeSignFn(n) ==
    /\ n \in authorizing
    /\ signFn' = [signFn EXCEPT ![n] = signer[n]]
    /\ authorizing' = authorizing \ {n}
    /\ UNCHANGED <<now, head, pc, work, tried, blocks, signer, authorized>>

\* Node n imports a block that passes verification onto a longer chain.
Receive(n, b) ==
    /\ b.ok
    /\ b.height > head[n].height
    /\ head' = [head EXCEPT ![n] = b]
    /\ UNCHANGED <<now, pc, work, tried, blocks, authVars>>

(* The clock advances.  Finalize may take any time, but once Seal's timer  *)
(* fires the rest of Seal is computation: the clock passes a waiting       *)
(* node's wake time by at most SealStall seconds before it signs.         *)
Tick ==
    /\ \A n \in Nodes : pc[n] = "waiting" => now < work[n].wake + SealStall
    /\ now' = now + 1
    /\ tried' = {}
    /\ UNCHANGED <<head, pc, work, blocks, authVars>>

Next ==
    \/ Tick
    \/ \E n \in Nodes :
          \/ CheckValidator(n) \/ SealStart(n) \/ SealStop(n) \/ SealSign(n)
          \/ SealSignError(n) \/ AuthorizeSignFn(n)
          \/ \E acc \in Keys[n] : AuthorizeSigner(n, acc)
          \/ \E b \in blocks : Receive(n, b)

Spec == Init /\ [][Next]_vars

\* The state constraint of the runs: the clock stops here.
ClockBound == now <= MaxTime

---------------------------------------------------------------------------
(* No validator signs two verified blocks of one slot (equivocation),      *)
(* though its driver retries every second, its head may lag and its own   *)
(* block may lose a fork race to a block that arrives while Seal waits.   *)
NoEquivocation ==
    \A b1, b2 \in blocks :
        b1.ok /\ b2.ok /\ RefSlotOf(b1.time, BlockInterval)
                            = RefSlotOf(b2.time, BlockInterval)
            => b1 = b2

(* Spec 5: the mutex on the engine protects the signer identity and the   *)
(* signing callback so that Authorize and Seal do not race: Seal never    *)
(* reads d.signer and d.signFn while an Authorize holds d.mu between its  *)
(* two writes.                                                             *)
AuthorizeSealExclusive ==
    [][\A n \in Nodes :
         SealSign(n) \/ SealSignError(n) => n \notin authorizing]_vars

=============================================================================
