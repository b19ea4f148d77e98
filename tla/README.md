# A TLA+ model of the happyChain DPoS engine

This directory holds TLA+ specifications of the DPoS consensus core of
happyChain, TLC configurations that model-check them, and TLAPS proofs. The
code is in two source files:

- `src/go-ethereum/consensus/dpos/dpos.go`: the engine.
- `src/unnamed/part_000`: the DPoS context, which is `core/types/dpos_context.go`.

## 1. The system

| Part | Code | What it does |
|---|---|---|
| DPoS context | `part_000` | Five tries in one backing store: `candidate`, `delegate` (key `C‖V`), `vote` (key `V`), `epoch` (the validator list) and `mintCnt` (key `epoch‖V`). Operations: BecomeCandidate, Delegate, UnDelegate, KickoutCandidate, Get/SetValidators, Snapshot/Revert, Commit and Root. Any trie access can fail with `MissingNodeError` when a node of the store is missing. Some paths swallow that error and others return it. |
| Election | `EpochContext.tryElect` and `lookupValidator` | Not under `src/`; spec 4.B and 4.C describe it. At an epoch boundary it kicks out under-producers, ranks candidates by votes, shuffles them and writes the epoch trie. |
| Mint counter | `updateMintCnt`, dpos.go 540-568 | Counts each validator's blocks per epoch. |
| Block production | `Prepare`, `Finalize`, `CheckValidator`, `checkDeadline`, `Seal`, `Authorize`, `PrevSlot`, `NextSlot` | The miner asks whether it is its turn, prepares a header, runs the election and the mint counter in Finalize, then waits for the slot and signs. |
| Verification | `verifyHeader`, `VerifyHeaders`, `verifySeal`, `verifyBlockSigner`, `ecrecover` | Checks ancestry and time, checks that the signer is the validator of the slot, then advances confirmation. |
| Confirmation | `updateConfirmedBlockHeader`, `load/storeConfirmedBlockHeader` | Walks from the head towards the confirmed header. It counts distinct validators of one epoch and confirms a header once `consensusSize = MaxValidatorSize*2/3+1` of them have built on it. The pointer is kept in memory and in the database. |

How the parts interact:

- Transactions call the DPoS context operations on a snapshot. An error
  reverts to the snapshot.
- Finalize runs the election and the mint counter on the block's context.
- verifySeal, which peers call, and the exported VerifySeal both call
  updateConfirmedBlockHeader, which reads `chain.CurrentHeader()`.
  Nothing orders these calls with one another.

The behaviours that make this code hard:

- Storage faults that are swallowed halfway through an operation.
- Forks and epoch changes under the confirmation walk.
- Unsynchronised concurrent calls of the walk.
- A restart between the in-memory write and the database write.
- A producer whose own block loses a fork race while it seals, and the
  second before a slot boundary.
- A miner whose signer can change while it seals: Authorize writes
  `d.signer` and `d.signFn` under `d.mu`, and Seal reads both without it.

## 2. Modules

### DposContext: the voting tries (`DposContext.tla`)

State:

- `candidateTrie`: the set of candidates.
- `delegateTrie`: the set of pairs `<<c, v>>`.
- `voteTrie`: a function from voter to candidate or `None`.
- `lostNodes`: the trie keys whose node the store cannot resolve.

`LoseNode` is a storage fault, bounded by `MaxLost`. Each action is one whole
operation of `part_000`, with the guards taken from its error returns:

- `BecomeCandidate`: lines 240-244.
- `Delegate`: lines 247-277. The old row is removed with the error-swallowing
  `Delete`, which `OldDelegateRow` models.
- `UnDelegate`: lines 280-311.
- `KickoutCandidate`: lines 204-238. The prefix iterator stops at a missing
  node (`KickoutVisited`), and a missing vote node skips the vote delete
  (`KickoutClearsVote`). KickoutCandidate always returns nil.

An operation that returns an error is reverted by its caller, so it is a
stuttering step. Addresses are naturals, so the trie's key order is `<=`.

### Confirmation: the confirmation tracker (`Confirmation.tla`)

The chain is a tree of header records:

- parent, number, validator and epoch;
- `anc`, the ancestor set, which only the properties read.

`AddBlock` inserts a header below any existing one:

- its epoch is not below its parent's, since verifyHeader rejects a time that
  is not later;
- the head moves to it when it is at least as high, with ties going either
  way (difficulty is 1).

`confirmed` is `d.confirmedBlockHeader`, and `persisted` is the database key.
Each caller `p` runs updateConfirmedBlockHeader one loop iteration per step:

| Action | Code |
|---|---|
| `StartUpdate` | lines 289-307: load the pointer or fall back to genesis, read the head |
| `WalkExit` | the loop condition fails |
| `WalkFastReturn` | line 319 |
| `WalkDescend` | lines 332-335 |
| `WalkConfirm`, then `SetConfirmed`, then `StoreConfirmed` | lines 324-326 |

The loop's reads of the shared field come before its write, and the write
comes before the database Put. The code holds no lock here, so another caller
can step in between. `Restart` loses the in-memory pointer and abandons every
call in progress.

`FairSpec` adds weak fairness on `Walk(p)`, the steps of a call already in
progress. Once a call has started it is synchronous code on a running
goroutine, with no channel, lock or I/O wait that could block it, so its
next step is eventually taken. Nothing is assumed of calls, of new blocks or
of restarts: they come from block import, the network and the operator.

### ConfirmedPointer: what the tracker promises (`ConfirmedPointer.tla`)

An abstract specification of the confirmation pointer over the same header
tree. It has no walk, no callers and no validator map. Its actions:

- `Grow`: headers are inserted and never change.
- `Load`: an unset pointer is loaded from the database, else set to genesis.
- `Advance`: the pointer moves to a higher header that is `Confirmable`,
  meaning that consensusSize distinct validators of its epoch lie on a path
  from it up to some header.
- `Persist`: the database receives the in-memory pointer.
- `Forget`: a restart loses the in-memory pointer.

`Confirmation` instances it as `Pointer`, mapping `header`, `confirmed` and
`persisted` to the variables of the same name (the walk's own variables are
hidden), so
`ConfirmationRefinesPointer == Pointer!PSpec` says that each step of the walk
is one of these steps or a stutter. `ConfirmedSound` and `WalkComplete` use
its `Confirmable`, so the rule is written once.

### MintCnt: the mint counter (`MintCnt.tla`)

State:

- `chain`: the blocks, genesis first, each with its time and validator.
- `mintCnt`: the mintCnt trie as a function from `<<epoch, validator>>` to
  its count.
- `lostNodes`: the stored keys whose node the store lost.

`Finalize(v, t)` is one finalized block by `v` at time `t`, at least
`BlockInterval` after its parent, which verifyHeader requires.

1. The election's deletion of the previous epoch's counts runs first
   (`ElectedMintCnt`). It is modelled from spec 4.B step 6, because the
   election's code is not in the repository.
2. Then `updateMintCnt` (dpos.go 540-567) runs:
   - the epoch test;
   - the iterator guard (`IterNext`), a prefix iterator that stops at a
     missing node;
   - `Get`, which reads a missing node as nil (`Present`);
   - `TryUpdate`, whose error is dropped.

Times are unbounded, so the runs bound them with the state constraint
`TimeBound`. Each step may delay the block by up to one epoch, so epochs can
be skipped.

### Slots: the slot arithmetic (`Slots.tla`)

`PrevSlot` and `NextSlot` (dpos.go 530-536) are operators on Go's
truncating int64 division (`GoQuo`). Next to them are spec 4.C's floor and
ceiling formulas (`RefPrevSlot`, `RefNextSlot`, `RefSlotOf`). `SlotsProofs`
proves that the two agree for every positive time and interval (section 4).
Producer uses the operators.

### Producer: block production and its verification (`Producer.tla`)

State:

- `now`: the wall clock in seconds.
- `head`: each node's head block.
- `pc` and `work`: where each node's driver is in one attempt, and the header
  it is building.
- `tried`: the nodes whose driver already tried this second.
- `blocks`: every sealed block.

A block is abstracted to:

- its time and its height;
- `validator`, the header field;
- `signer`, the address whose key signed it (the signature);
- its parent's time;
- `ok`: whether it and all its ancestors pass verification.

Actions and the code they model:

| Action | Code |
|---|---|
| `CheckValidator(n)` | CheckValidator, whose first step is `checkDeadline` (`CheckDeadline`), followed on success by `Prepare` (header.Validator := d.signer), approving when the slot's validator is `d.signer`. |
| `SealStart(n)` | Seal up to the delay computation: the wake time is `NextSlot(now)`. |
| `SealStop(n)` | Seal's select taking the stop signal, which returns no block. |
| `SealSign(n)` | The timer fires and `d.signFn` signs for `d.signer`. The header keeps the time the driver gave it (see below). |
| `SealSignError(n)` | The timer fires, but `d.signFn`'s wallet does not hold `d.signer`: Seal returns the error, with no block. |
| `AuthorizeSigner(n, acc)` | Authorize takes `d.mu` and writes `d.signer := acc`, for an account of the node's keystore (`Keys`). |
| `AuthorizeSignFn(n)` | Authorize writes `d.signFn` (the wallet of the same account) and releases `d.mu`. |
| `Receive(n, b)` | A peer imports a verified block onto a longer chain. |
| `Tick` | The clock advances. |

`signer` and `signFn` are each node's `d.signer` and the account its
`d.signFn` signs for, and `authorizing` holds the nodes inside Authorize,
between its two writes. `MaxAuthorize` bounds the number of Authorize calls.
`Accounts` are the addresses of all keystores, so a re-authorized node signs
with an account that is not a validator.

`SealSign` also lets the signing node import its own block when it verifies.
Verification (`Verified`) is verifySeal with verifyBlockSigner and
verifyHeader's timestamp rule: the signer must be the expected validator of
the block's time and the header's validator, and the parent must be at least
one interval older.

Some of the modelled behaviour comes from outside `src/`:

- The driver that calls the engine is the miner, which is not in this
  repository. It is modelled from the engine's interface:
  - at most one attempt per node per second;
  - any delay between Prepare and Seal (Finalize);
  - a stop signal at any time during the wait;
  - the own block imported when it verifies.
- `LookupValidator` is modelled from spec 4.C. Its code is not in this
  repository.
- The driver builds the header with the second at which it called
  CheckValidator (`NewHeader`). Seal's `block.Header().Time.SetInt64(...)`
  (dpos.go 471) does not change it: in go-ethereum `Block.Header()` returns a
  copy, and Seal signs and returns the header it copied at line 456. So the
  sealed header keeps the driver's time, not the wall clock after the wait
  that spec 4.D describes.

The clock passes a waiting node's wake time by at most `SealStall` seconds
(0 in the runs). Once the timer fires, the rest of Seal is computation.

## 3. Runs

| Run | Config | Result |
|---|---|---|
| dpos_lost_nodes | `DposContextFaults.cfg`: up to 2 lost nodes | passes |
| dpos_kickout_lost_vote | `DposContextLostVote.cfg`: 1 lost node | violation |
| dpos_delegate_lost_row | `DposContextLostDelegate.cfg`: 1 lost node | violation |
| mint_counts | `MintCnt.cfg`: 3 validators, epochs of 3 s, slots of 1 s, times up to 7 | passes |
| mint_lost_nodes | `MintCntFaults.cfg`: 2 validators, up to 2 lost nodes | passes |
| mint_lost_other_key | `MintCntLost.cfg`: 1 lost node | violation |
| confirmation | `Confirmation.cfg`: 3 validators, MaxValidatorSize 3 (consensusSize 3), 4 headers, 2 epochs, 1 caller | passes |
| confirmation_s7 | `ConfirmationS7.cfg` | violation |
| confirmation_two_callers | `ConfirmationTwoCallers.cfg` | violation |
| producer | `Producer.cfg`: 2 validators, schedule `<<a, b>>`, 3 slots per epoch, 2-second slots, clock up to 9, a keystore of 2 accounts for a, up to 2 Authorize calls | passes |
| producer_stale_work | `ProducerStale.cfg` | violation |
| producer_authorize_race | `ProducerAuthorize.cfg`: one Authorize call | violation |

What each run checks:

- **dpos_lost_nodes** checks `TypeOK` and `DamageConfined`: where the delegate
  and vote tries disagree, the disagreeing row's own key is lost. Two faults
  let one fault land in the middle of another operation's key range. Its
  states include every fault-free state, where `DamageConfined` is spec 3.1's
  `VoteDelegateConsistent`. Section 4 proves 3.1 and 3.2 for every address set.
- **dpos_kickout_lost_vote** finds the following: KickoutCandidate meets a
  missing vote node, swallows the error and leaves `vote[V] = C` for the
  removed candidate. The same happens when its iterator stops early.
- **dpos_delegate_lost_row** finds the following: a re-vote whose old delegate
  row is missing keeps the old row and writes the new one. The voter then
  backs two candidates, and the tally counts its balance twice.
- **mint_counts** checks `MintCntCounts`: the stored counts of the current
  epoch are exactly the production counts, and nothing else is stored. The
  bounds allow several blocks per validator in one epoch, an epoch change and
  a skipped epoch.
- **mint_lost_nodes** checks `MintCntNeverOvercounts`: lost nodes only lower
  counts. A fault can make a validator look like an under-producer to the
  election, but it can never hide one.
- **mint_lost_other_key** finds the following: validators 1 and 2 mint in
  one epoch, then the node of validator 1's count is lost. At validator 2's
  next block the prefix iterator stops at the missing node, `iter.Next()` is
  false, and validator 2's count is overwritten with 1
  (`MintCntFaultsConfined`). The damage spreads to a key that is not lost.
- **confirmation** checks `ConfirmedSound`: every confirmed header, in memory
  or on disk, has consensusSize distinct same-epoch validators on a chain above
  it. It also checks `WalkComplete`: a call that returns leaves no confirmable
  header above the confirmed one on the chain it walked, so the fast return
  never gives up too early. Four headers in two epochs over three validators
  allow:
  - a confirmation;
  - a fork with a head switch;
  - an epoch change inside the window;
  - a restart at every point.

  Under `FairSpec` it checks `WalkTerminates`: every call returns, however
  the chain grows during the walk. It also checks
  `ConfirmationRefinesPointer`: with one caller the walk implements
  ConfirmedPointer. With two callers the refinement fails as well, at the
  same regression as `confirmation_two_callers`.
- **confirmation_s7** finds the following: spec scenario S7 expects headers by
  A, B and C to confirm the third header, but the code confirms the first
  (`ConfirmAdvancesToHead`).
- **confirmation_two_callers** finds the following: with two concurrent
  callers, one call confirms header 2, then a slower call writes header 1
  (`ConfirmedNeverRegresses`, spec 8.6). With one caller the property holds,
  because the loop only runs above the confirmed number.

- **producer** checks `TypeOK` over every step of two producers, Authorize
  included. It is the run that fires every Producer action. The bounds give:
  - three slots per epoch over two validators, so each validator has
    adjacent slots at an epoch boundary;
  - four slots of two seconds, so both branches of checkDeadline are
    reachable.
- **producer_stale_work** finds the following. At time 4, a is approved
  for slot 2 and prepares its block on genesis. While a seals, b's block of
  slot 1 (time 3) arrives and becomes a's head, so a's own block, at the same
  height, does not. At time 5, still in slot 2, a's driver tries again:
  checkDeadline returns nil because the next slot is a second away, and a
  signs a second block of slot 2 on b's block. Both blocks verify
  (`NoEquivocation`). Nothing in CheckValidator records that the validator
  already signed in this slot.

- **producer_authorize_race** finds the following: spec 5 says that the
  engine's mutex keeps Authorize and Seal from racing. In the code, Seal reads
  `d.signer` and `d.signFn` without `d.mu` (dpos.go 475). With
  `MaxAuthorize = 1`, b's Seal signs while b's own Authorize holds `d.mu`
  between its two writes (`AuthorizeSealExclusive`). With a re-authorized
  account, the effect is either a block signed by the new account on a header
  whose validator is the old one, which verifySeal rejects, or a failed
  signing (`SealSignError`). The **producer** run includes these steps
  (`MaxAuthorize = 2`).

One more edge was met while modelling Producer, and no run asserts it. At
an unaligned `now`, `PrevSlot(now)` is the start of the *current* slot, so
checkDeadline's test `lastBlock.Time == prevSlot` passes when the head is the
current slot's own block. The validator then mints a second block on its own
block, and verifyHeader refuses it, because it is less than one interval
later. The producer run reaches this. Only verified blocks count as
equivocation, so no property forbids it: the cost is a wasted seal. The
hazard list records this.

Every property of a passing run has a mutant in `PROJECT.json`: a plausible
bug of one definition that TLC catches with that run.

Only the `confirmation` run assumes fairness, and only for the steps of a
call in progress (section 2). Nothing in the code schedules a call of
updateConfirmedBlockHeader, a transaction, a block or a tick of the miner,
so the safety properties are checked over all behaviours.

## 4. Proofs

`DposContextProofs.tla` holds the TLAPS proofs:

- `TypeCorrect`, `Spec => []TypeOK`, for every address set and every
  `MaxLost`.
- `VotingConsistent`: with `MaxLost = 0`,
  `Spec => [](VoteDelegateConsistent /\ VotesForCandidates)` for every set of
  natural-number addresses.

The inductive invariant is
`IInv == TypeOK /\ lostNodes = {} /\ VoteDelegateConsistent /\ VotesForCandidates`.
Neither property is inductive alone. KickoutCandidate keeps the tries
consistent only because the votes it clears are exactly the votes for `c`,
and that holds only because the delegate rows of `c` are exactly those voters.
With no lost node the iterator visits every row of `c` (`KickoutVisitsAll`).
`LoseNode` is disabled when `MaxLost = 0`. The proof goes one step per
action, and for Delegate and UnDelegate splits on whether the row belongs to
the acting voter.

`DamageStaysConfined`, `Spec => []DamageConfined`, holds for every
`MaxLost`. Its inductive invariant is `DInv == TypeOK /\ RowsConfined /\
VotesConfined`: a delegate row that disagrees with the vote trie has a lost
key, and so does a vote without its row. Each of Delegate, UnDelegate and
KickoutCandidate either writes both keys of a pair consistently or fails
before writing, when it reads a lost node; `LoseNode` only grows
`lostNodes`, which weakens nothing.

`MintCntProofs.tla` proves the following:

- `TypeCorrect`, for every validator set and interval.
- `CountsCorrect`: with `MaxLost = 0`, `Spec => []MintCntCounts`, for every
  validator set, epoch interval and block interval.

The inductive invariant adds that no node is lost and that the last block is
the latest one. Without the second fact, a block that opens a new epoch could
find earlier blocks of that epoch on the chain, and its count of 1 would be
wrong. With it, every earlier block's epoch is at most the parent's, because
`Epoch` is monotone (`EpochMonotone`). The counting rests on
`ProducedAppend`: appending a block adds one to exactly its own validator's
count in its own epoch. `ExactReads` says that a fault-free store makes the
iterator guard and `Get` exact, so the fault-free count is the old count plus
one.

- `NeverOvercounts`: `Spec => []MintCntNeverOvercounts` for every `MaxLost`.

Here the invariant is inductive with `TypeOK` alone. `FinalizeProduced`
(built on `ProducedAppend`) says that a finalized block adds one to its own
key's production count and to no other. For that key updateMintCnt writes
either 1 or one more than a stored count that was already within bounds, so
the bound survives; every other key keeps its count or loses it to the
election's deletion, and production counts never shrink. A lost node can
only lower what is read.

`SlotsProofs.tla` proves, for every positive time `t` and interval `i`:

- `SlotsMatchSpec`: the code's `PrevSlot` and `NextSlot` equal spec 4.C's
  `floor((t-1)/i)*i` and `ceil(t/i)*i`.
- `SchedulerIdempotent` (spec 8.5): `NextSlot(PrevSlot(t)+1) = NextSlot(t)`,
  and an unaligned `t` lies strictly between the two slots.

The argument is the characterisation of integer division. `DivBounds` says
`a \div b` brackets `a`, and `DivUnique` says it is the only integer that
does. Each identity exhibits the bracketing quotient. For positive `t`, the
dividends are not negative, so Go's truncation and the floor agree. At
`t = 0` they do not: `PrevSlot(0) = 0` and spec 8.5 fails for intervals
above 1. Wall-clock times are positive, so this case does not arise.

`ProducerProofs.tla` proves `TypeCorrect`, `Spec => []TypeOK`, for every
node set, schedule, keystore, interval, epoch length, clock bound and
`SealStall`. Each step is typed because NextSlot of a time is a natural
number (`NextSlotNat`) and the header under construction stays a header.

`ConfirmationProofs.tla` proves, for every finite validator set and bound:

- `TypeCorrect`: `Spec => []TypeOK`, for any number of callers.
- `ConfirmedIsSound`: `Spec => []ConfirmedSound`, for any number of callers.
- `WalkRefinesPointer`: with a single caller,
  `Spec => ConfirmationRefinesPointer`.

`ConfirmedSound` is not inductive: a caller's `SetConfirmed` writes the
header its walk found, and the walk's justification lives in its
`validatorMap`. The inductive invariant `IInv` adds:

- `Tree`: the headers form a finite tree rooted at genesis, numbered
  `0..n-1`, whose ancestor sets are closed (an ancestor's ancestors are
  ancestors) and whose validators are in `Validators`;
- `WalkInv(p)`: a walking caller's cursor is the top or one of its
  ancestors, and every validator in its map sealed a header of the walked
  epoch on the path from the cursor up to the top; a caller about to confirm
  holds a `Confirmable` cursor.

With these, `WalkConfirm` has its witnesses (the map's size bounds the
number of distinct validators on the path, `MapWithinWitnesses`), and
`AddBlock` keeps every path, because it inserts a leaf and changes no
existing header (`GrowKeepsPaths`). The refinement maps `AddBlock` to
`Grow`, a `StartUpdate` on an unset pointer to `Load`, `SetConfirmed` to
`Advance`, `StoreConfirmed` to `Persist`, `Restart` to `Forget`, and every
other walk step to a stutter. `Advance` needs a header higher than the
current pointer, which holds only because no other caller wrote the pointer
while this one walked (`OneCallerInv`). With two callers the step can move
the pointer back, and the `confirmation_two_callers` run finds it.

Some things stay with TLC:

- the fault runs, where the invariants are false, and Producer's
  `NoEquivocation` and `AuthorizeSealExclusive`, which are false;
- liveness (`WalkTerminates`) and any property with ENABLED, which the
  prover cannot reason about;
- `WalkComplete`, which says the walk finds every confirmable header. Its
  proof needs an invariant over every header between the cursor and the top,
  relating the validator map to the witnesses of each of their paths. That
  proof has not been attempted yet;
- what recursive definitions compute for every input.

## 5. Not modelled yet, and the plan

The remaining work, in order:

1. **Digest and replicas.** Commit, Root and Snapshot/Revert. Two replicas
   whose stores lose different nodes, checking that the same operations give
   the same five-root digest, or flag the fork.
2. **Epoch.** The epoch trie and the rest of the election, which reads the
   mint counts modelled in MintCnt. The election
   is modelled from spec 4.B, because its code is not under `src/`. This
   covers the safeSize kick-out rule and the failure of Finalize when too few
   candidates remain.
3. **Producer and Confirmation composed.** Feed the scheduled blocks to the
   Confirmation walk and check that confirmed headers form one chain across
   reorganisations (dpos.go 308). Producer's Authorize against Seal, and the
   walk's refinement of ConfirmedPointer, are done.
4. **More proofs of Confirmation.** `ConfirmedSound` and the one-caller
   refinement are proved (section 4). `WalkComplete` stays with TLC.
5. **tryElect and lookupValidator.** These are not in this repository. Their
   termination (dpos.go 407) and their treatment of unaligned times, which
   decides whether the checkDeadline branch of section 3 is reachable, wait
   for their code.

Out of scope:

- AccumulateRewards and the balances, which no DPoS property reads.
- Hashing and signature cryptography. A signature is the signer's identity.
- RLP encoding.
- The VerifyHeaders worker goroutine, which only relays per-header results.
