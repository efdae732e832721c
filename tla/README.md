# Axiom protocol: a TLA+ verification project

Models, model-checking runs and machine-checked proofs for the axiom-protocol
repository (`src/`): Solidity contracts that hold agents, data and money, a
TypeScript backend that relays, indexes, signs and orchestrates over them, and
the browser application with which users operate both.
Line numbers below refer to the sources; `PROJECT.json` maps every definition
of the modules to the lines it stands for.

## 1. Inventory

### The parts, their state and their operations

| part | state | operations | modelled by |
|---|---|---|---|
| `AxiomGasTank` (contract) | per-user tank, grant part of it, nonce, daily window; reserve, totals, owner settings, native balance | deposit, withdraw, grant credit, relay a signed call and reimburse the relayer, reserve and settings | `GasTank` |
| `AxiomPaymentProcessor` (contract) | creator earnings and their total, royalties, fee, caps, two tokens, pool reserves, shares, debts | pay lanes, withdraw earnings, settings, token changes, add/remove liquidity, swap, borrow, repay, seed | `PaymentProcessor` |
| `AxiomStrategyVault` (contract) | per-agent balance, strategy and daily window, used actions, tracked total | deposit, withdraw, set a strategy (and the merged forms), execute, recover excess | `StrategyVault` |
| `AxiomDelegationRegistry` (contract) | the delegation of each agent, used nonces, spending window, pause | install, revoke, delegated execution; the agent's sale beside it | `DelegationRegistry` |
| `AxiomTeeVerifier`, `BaseVerifier`, `TimelockManager` | signer list and mapping, one pending proposal, proof records | propose, execute, cancel, revoke a signer; accept a proof; clean records | `TeeVerifier` |
| `AxiomAgentNFT` over the ERC-7857 contracts | owners, data hashes, authorized users, next id, creators, timelocks | mint, update, transfer, clone, authorize, revoke, timelocked admin changes | `AgentTransfer` (part) |
| Relayer (`relayer/*.ts`, `routers/relayer.ts`) | in-memory queue of records, fauceted set, transactions in flight | admit a sponsored op, drain a batch, broadcast, reconcile against chain logs, drip a faucet mint | `RelayerQueue` |
| Indexer (`indexer/`) | cursor, last hash, checkpoint file | poll a window, detect a reorganisation, roll back, deliver, restart | `Indexer` |
| Event store (`events/store.ts`) | buckets of events, their keys, one file | append, evict, roll back, debounced and flushed saves, load | `EventStore` |
| Orchestrator (`orchestrator/`, `routers/orchestrator.ts`) | one slot per agent, a numbered sequence of transactions | a tick request, plain or streamed; inference, settlement, receipt | `Orchestrator` |
| Proof-cleanup keeper (`keepers/index.ts`) | the sweep that runs | sweep old proof records from the same account | `Orchestrator` |
| TEE oracle and key custody (`oracle/*.ts`) | custody rows in memory and in a file, blob cache, seen hashes | register a key at a mint, re-key at a transfer's challenge | `OracleCustody` |
| WebSocket broadcaster (`ws/broadcaster.ts`, `server.ts`) | clients, topic index, missed pings | upgrade, subscribe, broadcast, heartbeat, close | `Broadcaster` |
| Chat API (`routers/chat.ts`) | turns that stream, transcripts in the event store | a turn, the upload of its transcript, the history request | `ChatHistory` |
| Browser store (`consoleStore.ts`, `uiStore.tsx`, `useReceiptReconcile.ts`) | the draft's phase, receipt rows, who watches them | open, submit, close; rows confirm, revert or go stale; reload | `Console` |
| Operation pages (`FlowPage.tsx`, `usePayment.ts`, `useMintWizard.ts`, ...) | busy flags, operations under way | pay with its approval leg, mint, vault deposit and withdrawal, streamed tick | `Page`, `OperationFlow` |
| Agent hand-over (`useTransfer.ts`, `transferHandoff.ts`, `CoSignPage.tsx`) | recipient, pending challenge, proofs, acceptances | challenge, co-sign here or elsewhere, finalize, submit | `TransferFlow` |
| Chat page (`ChatPage.tsx`, `useChatHistory.ts`, `session.ts`) | threads and what the page shows, the run that answers | send, queue, stop, regenerate, edit, open, start, delete and restore a thread; stream, call tools in batches | `ChatThread` |
| the rest | caches, views, text | adapters over the parts above, views and copy | not modelled, section 6 |

### How they interact

A user signs requests; the relayer admits and broadcasts them to the gas tank,
which calls the target contract and reimburses the relayer out of the user's
tank. The gas tank's target may call back into it. The NFT calls the verifier
in the same transaction to accept a transfer proof that the oracle signed
earlier; the keeper, or anyone, deletes old proof records of the verifier. The
vault, the delegation registry and the payment processor read the NFT's owners
and creators live. The indexer and the relayer's reconciler learn what happened
from chain logs, later and possibly more than once. In the backend everything
shares one event loop: ticks and the keeper's sweeps send from one account,
ticks publish to the sockets, re-keys and chat history share one cache of blobs.
In the browser one store is shared by a page, by what pages left behind still
run, and by the watchers of receipts; an acceptance made in another browser comes
back by code, by storage event or by link.

### What is hard

* control handed to foreign code in the middle of a relay, with every
  non-guarded function open to it (`GasTank`);
* state read before an `await` and used after it, overlapping timers, lost
  answers to broadcasts that were mined, restarts that forget the queue
  (`RelayerQueue`, `Backend`);
* several claims on one token balance, totals kept by hand by a dozen
  functions, three roundings, settings changed between two payments or under
  outstanding loans (`PaymentProcessor`);
* counters of a day or a window that are only reset by the next spend, under
  strategies, delegations and windows that are replaced (`GasTank`,
  `StrategyVault`, `DelegationRegistry`);
* a proof in flight while the data changes, the signer is revoked, or the record
  of its first use is deleted (`TeeVerifier`, `AgentTransfer`);
* windows read again, chains that reorganise in the middle of a tick, a file, a
  checkpoint and a process that fail independently (`Indexer`, `EventStore`);
* operations that outlive the sheet, the page or the thread that started them,
  and answers that arrive in another state than they were asked in (`BrowserApp`).

The hazards at their lines, with the properties that cover them, are listed
under `hazards` in `PROJECT.json`.

## 2. Modules

| module | role |
|---|---|
| `GasTank` | the gas tank; one contract call is one action, except `relay`, which is `RelayBegin` and `RelaySettle` around the target's call |
| `CustodyLedger` | what the tank promises: own wei, grant wei and reserve wei, and the only ways they may change; `GasTank` implements it |
| `PaymentProcessor` | the payment processor; one action per external function |
| `StrategyVault` | the strategy vault; one action per external function |
| `DelegationRegistry` | the delegation registry, with sales of the agent as steps of their own |
| `TeeVerifier` | the transfer-proof verifier and its timelocked allowlist |
| `AgentTransfer` | the agent NFT, composed over `TeeVerifier` (a transfer is one step over both) |
| `RelayerQueue` | the relayer's pipeline; what lies between two awaits is one action |
| `EventStore`, `Indexer` | the store, and over it the indexer, the chain it follows, the store's other writers, and crashes |
| `Requests`, `Broadcaster`, `Orchestrator`, `OracleCustody`, `ChatHistory` | the handlers of the backend, each with its own state |
| `Backend` | their composition: jobs of several requests interleave at their awaits, with the keeper's sweeps, the sockets and restarts |
| `Console`, `Page`, `TransferFlow`, `OperationFlow`, `ChatThread` | the browser's store, what pages have in common, and what each kind of page does |
| `BrowserApp` | their composition: one page of one kind over the store, left, reloaded and reopened while operations go on |
| `MC*` | the model values of the runs |
| `RelayerProofs` | theorems about `GasTank` and `RelayerQueue` |
| `PaymentProcessorProofs`, `StrategyVaultProofs`, `DelegationRegistryProofs` | theorems about the contract each is named for |
| `AgentTransferProofs` | theorems about `AgentTransfer` and the `TeeVerifier` under it |
| `BackendProofs` | theorems about `Backend` with its handlers, and about `Indexer` with `EventStore` |
| `BrowserAppProofs` | theorems about `BrowserApp` with its parts |
| `Sums` | lemmas the proofs share, about sums and about functions computed step by step |

State variables carry the names of the code's fields (`dailySpent`,
`_isSigner` as `isSigner`, `inFlightTicks`, `seenKeys`, `pendingCoSign` as
`pending`, ...), one function per field of a mapped struct; actions carry the
names of the functions. A handler with awaits is a record per job or operation
whose `pc` says at which await it waits, and an action per stretch between two
awaits. Variables marked *history* in a module are not in the code: they remember
what a property needs and no guard reads them. Operators that a comment
introduces with "Mutant" are wrong versions of a definition below them. No
specification uses them; substituting one shows that the property it is meant for
would notice that error.

### Abstractions

* **Signatures, hashes, contents.** Who may have signed what is an input: any
  request a user may have signed arrives. A Merkle root is the set of leaves it
  commits to. A proof is the record of the fields its nonce hashes. Blobs, keys
  and logs are identities; a message of the chat is its role, the thread whose run
  wrote it, and how many tools it calls.
* **Reverts.** A transaction that reverts leaves no trace and is a step that is
  not taken. Solidity's checked subtraction is a guard.
* **Callbacks.** Where a contract changes all its state before it calls out and
  none after, a re-entrant call is simply the next step. `relay` is the one
  function that writes after its call, and is two steps.
* **Event loops.** Node and the browser run one callback at a time. Where the
  order of two timers, answers or requests is not fixed by the code, either may
  come first.
* **Time** is a counter that ticks on its own; days and windows are quotients of
  it, or the counter itself where only days matter. A timeout is a step that may
  happen at any time, so that it races every late answer.
* **Wallets.** Payers and depositors have what they send. What a contract holds
  is kept exactly.
* **What the model knows of the outside** is in the actions the map marks
  external: the chain mines, drops or reverts, the wallet answers or does not.

## 3. Runs: what each asks and shows

| run | specification | asks | result |
|---|---|---|---|
| `tank` | `GasTank!Spec`, two users | totals match tanks, wei backs them, grant wei never leaves, daily ceiling, an admitted relay can be paid, every step is a step of the custody ledger | holds |
| `relayer` | `RelayerQueue!FairQueueSpec` | the in-flight cap, no op confirmed ahead of the chain, a relayed op frees its slot in the end while its log is in the window of the scans | holds |
| `payment_split` | `PaymentProcessor!OpsSpec`, pay and settings | the fee and royalty promises on the same amount, exact earnings total | holds |
| `payment_pool` | `OpsSpec`, pay, pool and loans | every claim is backed; a share loses product only to a loan | holds |
| `strategy_vault` | `StrategyVault!Spec` | tracked coins add up and are there, actions run once, the daily limit | holds |
| `delegation` | `DelegationRegistry!Spec` | what was revoked or replaced never returns, a window's cap under delegations with windows of other lengths | holds |
| `agent_transfer` | `AgentTransfer!Spec` | no proof accepted twice, list and mapping agree, keys follow data, authorized users follow the owner | holds |
| `event_pipeline` | `Indexer!FairIndexerSpec` | nothing below the cursor is missing, keys and events agree, the cursor reaches the head | holds |
| `backend` | `Backend!FairSpec` | slots are the running ticks, the socket index is exact, no key burned before its blob is stored again, cache bounds, a tick past its inference ends | holds |
| `chat_history` | `Backend!Spec` | "every transcript persisted for this wallet ... is downloaded and returned newest-first" | refuted: the oldest entries of all wallets are read |
| `browser_app` | `BrowserApp!FairSpec` | rows tell what the chain did and settle, transfer proofs are kept and sent only for what their receiver signed, one operation at a time, a run writes its own thread, calls have results | holds |
| `transfer_proof` | `BrowserApp!Spec` | the proof sent is the one prepared for this recipient | refuted: the hook's older proof goes first |

`PaymentProcessor!Spec` is the code: `seedSwapPool` may be called at any time.
`OpsSpec` restricts it to the documented operation, in which the admin mints to
the contract what it then credits. The properties that need this say so.

### Bounds

Every bound is a constant named in the module that declares it; guards apply it,
so a bounded action simply stops being possible. Since these counters stop, the
runs that reach the bounds turn the deadlock check off, except the one of
`GasTank`, where owner settings remain possible.

* `tank`: 4 wei in deposits of 2, grants of 1 and costs of 0 to 2, so that a
  reimbursement may take grant wei and own wei together; two days for a window to
  roll over; two relays a user. Two users are enough for one to be paid with
  another's wei (they are interchangeable, and symmetry is used: no liveness is
  checked).
* `relayer`: one user (the cap and the nonces are per user), three records, so
  that a duplicate, a newer op and the faucet's record coexist, batches of one so
  that they split, one restart, two nonces, two log scans under way with different
  windows. The chain takes a nonce of a user whenever it likes, for this backend or
  for another relayer; so a broadcast that was taken but not answered needs no
  transaction in flight of its own.
* `payment_split`: amounts 1 to 4 against fees and royalties in quarters, where
  the separate roundings differ, from a first fee of 100 % on, the boundary that
  `initialize` accepts and `setProtocolFeeBps` does not; `payment_pool`: up to 4 tokens of a kind and 4
  shares, where pay-outs already round.
* `strategy_vault`: three days of two time units, two agents, actions worth 1 and
  2 under a limit of 2, roots that share an action, 4 coins.
* `delegation`: one agent sold between two owners, five signed delegations (two
  share a nonce, windows of one, two and three seconds and none, a cap per call
  below the cap per window), seven seconds, so that windows of different lengths
  begin, overlap and have equal numbers.
* `agent_transfer`: two ids, two accounts, two data hashes, three proofs of
  different receivers, data and deadlines, three signers under a cap of two, ages
  and delays of one unit in three instants: a record can be made, expire and be
  cleaned. Signers other than the first are interchangeable, so symmetry is used.
* `event_pipeline`: blocks 1 to 4, one log and a foreign event that share a bucket
  of one (so that eviction happens), a window of two over a safe depth of one, one
  reorganisation one or two deep (within and beyond the safe tail) and one fault,
  of the node, the disk or the process.
* `backend`: three requests of which two overlap, one token, two sockets that both
  follow its ticks, so that one is removed while the other is served, a cache smaller than the blobs, two keys, one sweep and one fault. A
  run has ticks and sockets or keys, blobs and chats, never both: they share no
  state (`Loads`). `chat_history` has two transcripts and a limit of one.
* `browser_app`: two operations under way on one page, two transactions, one row
  kept, two challenges, one hand-over begun in each visit of the page; two threads, two turns of tools with two batches in one of
  them, one waiting message, two messages before a run. Two is the number that
  lets an older thing meet a newer one. Challenges and transfers together are bounded
  by `MaxWork`, and none arrives after as many, out of the cache neither: with two, a
  later visit takes an earlier one's challenge only while there has been one unit of
  work. `transfer_proof` has four units of work and two hand-overs in a visit, enough
  for a cached challenge to be given to another recipient; the theorem
  `AcceptancesMatch` holds for every bound.

### Fairness

* `RelayerQueue`: `WorkerTick` and `StartScan` run from `setInterval` timers that
  go on for as long as the process lives and catch their errors, and some scan among
  those under way is answered (the RPC client times out by itself). Nothing is
  assumed of chain, users or foreign relayers: `RelayedFreesSlot` speaks of ops the
  tank *has* relayed, and only while the log is in the window, which may leave it
  (`LogLeaves`) before any scan has seen it.
* `Indexer`: the poll loop re-arms itself after every tick, failed ones included;
  a save that was queued runs. Faults are bounded, so the chain is eventually
  quiet.
* `Backend`: a tick whose inference is over gets on: the node answers or times out,
  and of the receipt, which has no timeout, the chain is assumed to mine what the
  account's numbering lets it mine. `TickSettles` says of itself when this is not
  enough: with a gap in the numbers nothing is mined. Nothing is assumed of a tick
  before that, where it awaits a download without a timeout (section 5), and nothing
  of any other request.
* `BrowserApp`: a wait for a receipt polls every two seconds and gives up after
  two minutes, so while a transaction is waited for, one of its waits ends. Nothing is
  assumed of the user or the chain.

### Mutants

For every property of a passing run `PROJECT.json` names a wrong version of a
mapped definition under which TLC finds the property violated with the same
configuration (a missing reset, a guard that is one off, a total not updated, a
comparison left out).

## 4. Proofs

All theorems hold for every value of the constants that satisfies the modules'
named assumptions: that amounts and bounds are natural numbers, that "zero" addresses
are not users, that there are finitely many addresses and agents (in the code they are
160- and 256-bit words), that the window of the indexer exceeds its safe depth, and so
on. TLC evaluates each of them.

Every safety invariant a passing run checks is proved. The shape is the same
throughout: the property is strengthened until it is inductive, each action has a step
of its own, and a part of the state that few actions touch has a lemma that says in
which ways they do.

**What makes data provable.** Induction over an operator is not available to the
provers, but well-foundedness of `<` is: a set of numbers, or of subsets of a finite
set, that is not empty has a least member (`Sums!LeastNat`, `LeastSubset`), so a claim
about every prefix or part of something is proved by looking at its least
counterexample. From this come the theorems about sums over users, agents and cached
blobs, about functions computed step by step (`StepByStep`) such as the chat's grouping
of tools, and about the loops that deliver a window, roll a bucket back or evict.

* **GasTank.** Type correctness; `Solvent`, with the two grant properties, as
  the inductive `MoneyInv` (solvency alone is not inductive: a settlement is
  covered only if the grant part fits in the tank); `TotalIsSumOfTanks`, also between
  the two halves of a relay; `AdmittedIsCovered`: no call from within the target can
  make the tank of an admitted relay fall below its signed ceiling; `DailyCeiling`,
  with `WindowInv` that ties the history of payments to the stored window, switched
  off and on during a call included; and `TankImplementsLedger`: every step,
  re-entrant ones included, is a step of `CustodyLedger` or leaves it unchanged.
* **RelayerQueue.** Type correctness. `CapHolds`: a step adds at most one record
  to a user's ops in flight, and only one that found room in the same step; what
  rewrites records never brings one back in flight, dead-lettering a confirmed one
  included. `NoneAheadOfChain`: the only step that confirms a relay takes it from
  the window of a scan, every window holds Relayed logs only, however long ago it was
  read, and logs are never taken back.
* **PaymentProcessor.** Type correctness of the code as it is (`Spec`): with it,
  no reserve, share, debt or earning is ever negative; `OutstandingIsSum`;
  `SplitHonoursBoth` for every amount, royalty and rate, from lemmas about rounded
  quotients; and `ProductPerShareKept`: whatever the roundings of adding, removing,
  swapping and repaying do, the product of the reserves over the square of the shares
  falls only by a loan out of reserve A. Under `OpsSpec`, `ClaimsBacked` is inductive
  together with the types; its corollary `EarningsApart` is that reserve A and the
  earnings never overlap. `Spec` does not keep this (section 5).
* **StrategyVault.** Type correctness; `TrackedIsThere`; `TrackedIsSum`; `OneShot`,
  from the invariant that the used set is exactly what was executed; `DayLimit`, from
  `WindowInv`: the stored count is today's spending if its day is today, and
  otherwise nothing has been spent today. The lemma about quotients (`DaysGoOn`)
  makes it hold for every length of a day.
* **DelegationRegistry.** Type correctness; `EndedStaysEnded`, from the invariant
  that every delegation in force or ended has its nonce used; `WindowHonoured`:
  what the delegation in force has sent in the running window is in the stored
  counter, and that counter, as far as it is of this window, is within its cap. The
  counter survives a replacement, so it may charge too much and never too little.
* **TeeVerifier and AgentTransfer.** One inductive invariant `IInv` in three parts.
  `VerifierInv`: types, the list without duplicates equal to the mapping, and
  that a *pending* signer is not in the list, without which an execution could
  duplicate an entry; swap-and-pop is characterised by a lemma. `ReplayInv`: an
  accepted proof has a record or is past its deadline, and a record is made at
  most `MaxProofAge` before the deadline of its proof: that is why a cleaned
  proof can no longer pass. `AgentsInv`: types, keys and authorized users. From
  them the properties of the run `agent_transfer`.
* **Backend.** Each handler has an invariant over its own variables, and `BackendStep`
  puts them together. `HubInv`: types with `IndexIsClients`; a client
  whose peer has closed is still registered, so what holds of every registered one is
  not that it can be written to but that its close event is still to come. `TickInv`: `SlotIsRun`,
  with the pool of sent transactions finite, so that the node always has a next number
  to answer with. `CacheInv`: types with `CacheBounded`, whose proof follows the sum
  of the sizes through append, eviction and touch; a blob stored twice is counted
  twice, so the count of bytes only bounds that sum. `VaultInv`: `KeyKept` with
  `FileKept`, which says the same of the file for every key that no refused write left
  out of it: a restart reads the file. The first form of `KeyKept` blamed any refused
  write of the file; two tokens and two faults refute it, and the history `lost` now
  names the keys that a refused write cost.
* **Indexer and EventStore.** `IndexerInv` has seven parts. `MemoryInv`: buckets, file
  and snapshot hold events of one kind each, once, within the cap, and `seenKeys` is
  exactly their keys. `NearInv`: an event is held less than two safe depths above the
  block it is in now, so that a roll-back that drops it also moves the cursor below
  it. `CursorInv`: the cursor stays below the safe depth, also of a head that was read
  before the chain changed. `ChainInv`: while no reorganisation below the cursor is
  open, the remembered hash is that of the block below the cursor; an open one makes
  them differ, so the next poll notices it. `CoverInv`: the memory has every event
  below the cursor, and below what the poll under way has delivered. `FileInv`: so has
  the file below the checkpoint, and the snapshot being written at each await of the
  flush, as long as the last save reached the file. From them `IndexerTypeOK`,
  `SeenIsStored`, `NoGap` and `CheckpointCovered`. The proof found three states in
  which the exceptions `NoGap` used to make were wrong, each confirmed by a trace of
  TLC: a roll-back that empties a bucket after it evicted (the history `pushedOut` now
  names the events that newer ones pushed out); a reorganisation two safe depths deep
  or deeper, which leaves events above where the roll-back looks, wherever the cursor
  is; and a lost checkpoint, after which nothing is promised below `StartBlock`.
* **BrowserApp.** `PageInv`: every row tells what the chain did and a row that waits
  has a hash, so that its watcher can only report of its own transaction; on every
  page but a transfer's the flag is up while an operation of the page runs.
  `HandInv`, on top of it: what came in the page's address, what the page keeps as its
  proof, the proof an operation took over from the page it began on and the code it
  verifies, finalizes or sends are all pairs of a challenge and a recipient that were
  signed as such, and an operation that finalizes holds the pair of its own challenge
  and recipient. The part about taken-over proofs is what makes it inductive: `confirm`
  sends that proof before the new one. `ChatInv`: a
  stored list of messages is written by its own thread only and `Lawful`: results
  answer the calls before them, counted by `Awaits`, and nothing is awaited once the
  run is over unless the thread was left (`left`). A run at its tools has a batch
  under way whose results so far are exactly those the list has (`Holds`), for every
  grouping of the tools into batches. From them `RowsTellTheChain`,
  `ProofsAreAccepted`, `OneAtATime`, `ThreadKeepsItsOwn` and `CallsAnswered`.

Only model-checked: liveness (`RelayedFreesSlot`, `CursorCatchesUp`, `TickSettles` and
that rows settle), since neither ENABLED nor fairness is within reach of the prover, and
the two refuted statements, for which a trace is the argument.

## 5. Disagreements between code and text

Two runs refute a sentence of a comment; they are listed under `findings` with the
quotation (`chat_history`, `transfer_proof`). Some modules state more of the
repository's sentences, as definitions that no run checks because the code does
not keep them; adding one to the `.cfg` named here shows its trace:

| statement | add to | what the code does |
|---|---|---|
| `GasTank!RelayerNeverOutOfPocket` | `GasTank.cfg` with `OpCaps = {1}`, as a PROPERTY | "relayer never eats loss" (`AxiomGasTank.sol:15-16`); the reimbursement is the least of cost and two ceilings (`:206`) |
| `RelayerQueue!OneDripPerLifetime` | `RelayerQueue.cfg` with `MaxCalls = 2` | "one drip per address per process lifetime" (`faucet.ts:157-158`); the set is read before the balance is awaited and written after it (`:168`) |
| `RelayerQueue!EveryRelayedFreesSlot` | `RelayerQueue.cfg`, as a PROPERTY | after a failed scan "next pass retries with a wider window" (`reconcile.ts:82`); the window is always the last `logLookbackBlocks` blocks (`:57`), so an op whose log leaves it unseen keeps its slot until a restart |
| `PaymentProcessor!ReservesExcludeEarnings` | `PaymentPool.cfg` with `Spec` | "never double-counts creator earnings" (`AxiomPaymentProcessor.sol:749-750`); `seedSwapPool` looks at the whole balance (`:951`) |
| `PaymentProcessor!ExposureBounded` | `PaymentPool.cfg` | lending "on credit the borrower already owns" (`:753-754`); the loan lowers the reserve the shares are valued by (`:1092`) |
| `TeeVerifier!SignerWaitsADay` | `AgentTransfer.cfg`, as a PROPERTY | "1-day" delay (`TimelockManager.sol:4`, `AxiomTeeVerifier.sol:109`); `DELAY` is ten minutes (`:11`) |
| `Indexer!KillSkipsNothing` | `Indexer.cfg` | a save that fails is swallowed (`events/store.ts:281`), so the checkpoint passes the file (`indexer/index.ts:404`, `:543`); while the last save did reach the file it holds, as `CheckpointCovered`, which is proved |
| `OracleCustody!BurnedIsDelivered` | `Backend.cfg` | a row is burned before the new key is sealed to the receiver (`oracle/routes.ts:313`; the comment at `:305` says after) |
| `TransferFlow!ChallengeIsOwn` | `TransferProof.cfg`, as its only INVARIANT | the "cache key is fresh every time" (`useTransfer.ts:194-195`); the key is the number of the attempt, which starts again with each visit of the page (`:196`) over a query client that outlives them (`main.tsx:15`), so a visit is given the challenge an earlier one asked for, also for another recipient |

Met while modelling, with no statement of their own:

* `AxiomDelegationRegistry.sol:143` says a transfer strips the seller's delegate:
  nothing runs on a transfer, and the delegate acts until the buyer revokes. The
  window's counter is kept over a re-install, so the new delegation is charged for
  the old one's spending. `AxiomStrategyVault.sol:211`: a strategy outlives the
  sale in the same way.
* `ERC7857Upgradeable.sol:155`: while a transfer calls its receiver back, bare
  transfers are unlocked; `AxiomAgentNFT.sol:406`: the creator is unset during
  the callback of `_safeMint`; `TimelockManager.sol:18`: a second proposal
  restarts the clock; `keepers/index.ts:60` names a batch limit of `BaseVerifier`
  that is not there, and `:210` sweeps the oldest candidates every time.
* Relayer: an op whose broadcast was taken but not answered is dead-lettered and
  still goes through (`queue.ts:108`); one the chain never relays keeps its slot
  (`queue.ts:70`).
* Indexer: a reorganisation within the safe depth leaves the tail's old events in
  the store (`index.ts:283`); after a restart the last block's hash is unknown, so
  a reorganisation over the restart goes unnoticed (`:62`); a window no larger
  than the safe depth never progresses. Two processes can both take over a stale
  lock file of the store.
* Backend: a tick awaits the download of its agent's data without the time limit
  that the oracle puts on the same call (`orchestrator/index.ts:241`,
  `oracle/routes.ts:261`): one that never answers keeps the token's slot, and every
  later tick of the token is refused, until a restart. The owner filter of `routers/events.ts` comes after the limit; a topic
  counts as subscribed only by its exact name or `*`, while delivery is by prefix, and
  also by a client whose socket is closing, to which nothing is delivered;
  a failed settlement reports the hash `0x`; a custody row is burned at the challenge,
  so a proof that expires cannot be asked for again; `await indexer.stop()` waits
  for nothing, and the process ends without waiting for its requests.
* Hand-over: every challenge has the nonce 0, so the checks that a code's nonce is
  the challenge's (`FlowPage.tsx:842`, `transferHandoff.ts`) never tell two apart; only
  the recovered signer does. The key a challenge is cached under names neither the
  agent nor the recipient, so a page opened for another agent within five minutes is
  given the former one's challenge too (one agent is modelled). A claim link opens a
  page on which the challenge it answers is not pending. Closing the sheet
  (`FlowPage.tsx:1594`) makes a prepare that awaits its challenge fail, and the sheet
  comes back with that error; at a later step the operation goes on and brings the
  sheet back when it ends.
* Operation pages: an approval's receipt is not looked at for success; an approval
  that times out is an error although it may be mined; the payment's own approval
  gets no row; a reload in the phase `submitting` shows an operation that no longer
  runs; a page left and reopened can begin a second operation beside the first; a
  vault call's hash is lost if the reload comes before the refetch. One watcher's
  "stale" can overwrite another's "confirmed", and a stale row is not watched again.
* Chat: what was read before a stop is acted on, its tools included; a stop after
  the tools ran drops their results; a thread that is left while tools run keeps
  calls without results, which `session.ts` (`snapHistoryStart`) takes to be
  impossible and `CallsAnswered` excepts; the notice of the turn limit is added also
  to an answer; opening a thread keeps the queue, so a message typed in one thread
  is sent in the next; a late tool writes the old thread's plan back, although
  "a fresh thread never inherits the plan block" (`ChatPage.tsx:1584`); editing the
  first message leaves the stored thread as it was; the Retry of a broken stream
  survives a change of thread and runs the other thread's last message; a page that
  was left lets its run and tools go on, and a second run can begin beside it.
* `useEventStream.ts`: `connect` resets the number of attempts, so neither the limit
  nor the growing delay ever takes effect; a handshake in flight over a change of
  topics attaches a socket nobody closes.

## 6. Not modelled, and why

* **Of the modelled contracts**: views, events, EIP-712 encoding and signature
  recovery, proxies and initializers (they set the initial states), roles beyond
  "owner" or "admin", the timelocks of the NFT and of the treasury, creators and
  mint fees. Accounts that both sign with a key and run code when they receive a
  token are left out of `AgentTransfer`.
* **Of the relayer**: the token bucket and the checks before admission; they only
  restrict which requests arrive.
* **Of the event store**: queries, and the lock file between processes.
* **Of the browser**: a second tab, which overwrites the first one's store; settings,
  notices and the wallet's session; the transfer dialog of the chat, which uses the
  same hook as the page; the permit2 payment; the context budget and its summary,
  the plan, retried tool cards and the server's transcripts in the list of threads;
  the eviction of the oldest of forty threads; the event stream's client.
* **Stateless or textual**, which is more than half of the TypeScript: copy and
  landing pages, rendering of messages and dashboards, ABIs and schemas, the requests
  the chat's tools build, routes that validate and forward, skills, the MCP
  server, price and storage clients, configuration. No property of a state machine
  is lost with them.
* **Out of the prover's reach**: section 4.

## 7. What could come next

Abstract specifications for more than the tank: a vault or a processor that is a
ledger of claims, an indexer that is a set of delivered events, a chat thread that is a
list of answered questions, each implemented by its module as `CustodyLedger` is by
`GasTank`. `KillSkipsNothing` with a save that reports its failure would be the proof
that a corrected flush suffices. Creators and mint fees of the NFT with the payment
processor that reads them would complete the contracts.
