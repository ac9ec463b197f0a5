# PrivatePons in TLA+

This directory holds the specifications of PrivatePons, the private launch and
trading application of this repository: TLA+ modules for the parts of the code
whose order of events decides where the money is, TLC runs on small instances of
them, and TLAPS proofs of what matters most in each.
`PROJECT.json` ties every definition to the lines it models.

## 1. The system

A user's USDC lives as private notes in the STRK20 pool on Starknet. The
application moves money and signatures along these paths:

    wallet --USDG--> Relay --> A1 on Arbitrum --CCTP--> Starknet --> notes      (deposit)
    notes --CCTP burn--> Relay --USDG--> fresh account R2 on Robinhood          (funding)
    R2 --signed batch, policy relayer--> Pons curve --tokens--> R2              (launch, trade)
    R2 --signed batch--> Relay --> A2 on Arbitrum --CCTP--> S2 --merge--> notes (return)

Nothing along them is atomic. Every arrow is an await that may time out, be answered
twice, or be cut by a reload, and what survives is browser storage (a recovery
record, the saved positions, a saved rest) and the chains.

### Components

| Component | Source | State it keeps | Operations | Modules |
| --- | --- | --- | --- | --- |
| Execution account R2, factory | `evm/src/PrivateLaunchpadAccount.sol`, `...Factory.sol` | code, `nonce`, `executing` | `deploy`, `deployAndExecute`, `execute`, `executeDirect` | `PrivateLaunchpadAccount`, `AccountAuthority` |
| Relay funding transport | `packages/sdk/src/relay-bridge.ts` 908-1060 | recovery cursor in `localStorage` | quote, preflight, burn, record, poll, clear, migrate | `FundingTransport`, `FundingPromise` |
| Relay return transports | `relay-bridge.ts` 422-740, `client.ts` | none: they start from balances | return one account, return several | `ReturnTransport` |
| Relay deposit transport | `relay-bridge.ts` 745-905, `App.tsx` | rest and tracked hash in `localStorage` | broadcast, wait, deposit, finish, withdraw | `DepositTransport` |
| Relay client | `relay-bridge.ts` 100-420 | none | quote, status polling with deadline and retries | steps of the transports; the checks of a quote in `ReturnAuthorization` |
| Policy relayer | `packages/relayer/src/relayer.ts`, `server.ts`, `apps/demo/server/private-relayer.ts` | none, on purpose: no lock, no queue | `POST /v1/relay` | `PolicyRelayer` |
| Pons semantic policy | `packages/relayer/src/pons-v2-policy.ts` | none | which calls a batch may hold | `PonsTrades`, `ReturnAuthorization`, `PonsPolicy` |
| Quote attestation, request lookup | `relay-quote-attestation.ts`, `relay-requests.ts`, `server/proxy.ts` | none | seal and check what Relay has quoted | `ReturnAuthorization` |
| Emergency wallet recovery | `packages/sdk/src/wallet-recovery.ts`, `client.ts` | none | several accounts under one authorization | `ReturnAuthorization`, `PonsPolicy`; the money in `ReturnTransport` |
| Pons adapter, live quotes | `packages/sdk/src/adapters/pons-v2.ts`, `apps/demo/src/pons-live.ts` | none | quote, slippage, calldata | `PonsCurve`, `PonsTrades`, `PonsPolicy` |
| SDK client | `packages/sdk/src/client.ts` | none | `execute`, `waitForExecution`, returns, recovery | `PolicyRelayer`, `ReturnTransport`, `PonsPolicy` |
| Demo application | `apps/demo/src/App.tsx` | one `stage`, React state, timers, the set of automatic returns | launch, trade, retry, check, sell, returns, deposit, withdraw, connect | `PositionLifecycle`, `Workspace`, `DepositTransport`, `AppFunding` |
| Position records | `apps/demo/src/positions.ts` | positions in `localStorage` | load, save, merge, allocate an index | one in `PositionLifecycle`, several in `Workspace` |
| Runtime | `apps/demo/src/runtime.ts` | the prepared session, the signature and its open request | `connect`, `prepareIdentity`, `buy`, `sell`, `launch`, `fund`, returns, `reset` | `Workspace`; its errors in `PositionLifecycle` |
| On-chain recovery | `apps/demo/src/pons-recovery.ts` | none | find accounts and tokens from logs and balances | `PositionScan` |
| Starkscan prover relay | `apps/demo/src/starkscan-prover-*.ts` | job store with expiry | submit, poll, rotate the idempotency key | `ProverRelay` |
| StarkWare prover relay | `apps/demo/src/starkware-prover-relay.ts` | proof cache with expiry | prove, cache, serve | `StarkwareRelay` |
| Development proxy | `apps/demo/server/proxy.ts` | none | choose a prover, attest quotes, forward | the choice in `MainnetProver`, the quotes in `ReturnAuthorization` |
| Clanker adapters and quotes, `ClankerV4SwapHelper`, bridge facade, market views | see section 5 | | | not modelled |

### How they interact

* The application calls the runtime, the runtime the SDK client, the client the
  transports and the HTTP relay. Everything in the browser runs on one thread and
  interleaves at awaits; two tabs share `localStorage` and nothing else.
* All flows of a page share one runtime, which has one session at a time: the flow
  that prepared its identity last decides for which account the others act.
* The policy relayer is reached by one POST per batch. It holds no state between
  requests, so two requests for one account meet only on the chain.
* The account trusts a signature over a nonce, a deadline, the calls and a fee; who
  brings the batch does not matter. Everything a batch calls may call back.
* The prover relays run as serverless handlers that meet only in the job store.
* Relay, Circle's CCTP, Starknet, the provers and the Robinhood chain are outside:
  they may do their part at any time, late, or never.

### What is hard about it

* The burn cannot be undone and its record is written after it (`relay-bridge.ts`
  1020 and 1046); the record is read once, minutes before it is acted upon (934).
* A POST that was not answered, and one answered with 400, may both have been
  broadcast; the application decides from the error where the money is
  (`App.tsx` 812, 826, 3184).
* An automatic return runs on timers beside the user's own clicks, on the same
  record and the same account (`App.tsx` 3215); a return that is cut has no memory,
  and the next one sees balances only (`relay-bridge.ts` 527).
* A recovery scan saves a merge with records read before it began (`App.tsx` 1934).
* The relayer checks a nonce and broadcasts several awaits later without a lock.
* Quote, attestation, request and authorization have deadlines, read from different
  clocks, on a market that moves meanwhile.
* A one-time proof is handed to a handler that may die before it has stored it.
* The account calls arbitrary targets in the middle of a batch.

`PROJECT.json` lists each of these, and the smaller ones, under `hazards`, with
the line where it bites and the properties that are about it.

## 2. The modules

### AccountAuthority and PrivateLaunchpadAccount

`AccountAuthority` is what the owner of R2 is promised: signed batches take effect
whole, in the order of their nonces, not after their deadline, and only with the
fee they name. Its `Execute` is one step. It is also the chain of `PolicyRelayer`.

`PrivateLaunchpadAccount` is the contract, call by call. `world` is what an EVM
revert restores, `stack` the account's own frames of the running transaction, each
with the world it would restore. While a frame waits for one of its calls, every
entry point is enabled, because the callee may use it: `execute`, `executeDirect`,
`deploy` and `deployAndExecute`, down to `MaxDepth` frames. `CallReturns`,
`FeeReturns`, `Revert` and `Return` end calls and frames. An entry whose guard
fails reverts and leaves no trace, and is a stuttering step. Signatures are taken
as given: `Signed[a]` is the record that `executionDigest` binds, and only batches
in `Auths` were signed. Token effects are counted (`performed`, `paid`), not valued.

### FundingPromise, FundingTransport, AppFunding

`FundingTransport` is `createRelayFundingTransport`: per run (`Flows`; two of them
are two tabs) a program counter over the awaits, the account asked for and the
request quoted; per storage key the v2 record and the legacy one; per request the
account it was quoted for, the burn and Relay's status. `Resume`, `RefuseOther`,
`DropCorrupt` and `Begin` are the four ways the code before the first await can
go, each including the migration of the legacy record that `readCursor` performs.
`Submit` and `BurnReturns` are apart because the code's one await
(`bridgeOutToDeposit`) lies between the burn and `writeCursor`; `BurnInterrupted`
is every way to leave in between. `orphans` is a history variable: burns that no
record and no running call will pick up again.

`FundingPromise` is the abstract view: at most one open burn, closed by its
delivery, or lost. `KeepsPromise` is the refinement (one tab). `AppFunding` adds the
application's own calls, which fund only accounts that no position uses
(`allocateAccountIndex`).

### PolicyRelayer

The client signs and posts a batch once (`Post`), hears an answer (`Hear`), gives up
after 30 s (`GiveUp`), and waits for a receipt of the hash it got. The handler goes
through the awaits of `relay()`: static checks and signature, bytecode and nonce,
the wait for the bridged funds of a fresh account (`EXECUTION_STATE_ATTEMPTS`), the
gas reserve, the simulation and its repetition (`SIMULATION_ATTEMPTS`), and
`writeContract`. It may throw at each of them (400, `broadcasted: false`), and the
serverless function may be killed. `BroadcastLost` is a `writeContract` that throws
after the node has the transaction. The chain is `AccountAuthority`, its batches
included in any order, or reverted.

### PonsCurve, PonsTrades, ReturnAuthorization, PonsPolicy

The four go together. `PonsCurve` is the curve's integer arithmetic as
`adapters/pons-v2.ts` reproduces it, with its roundings, partial fills and the two
minimums (the SDK scales the minimum of a partial fill up because the curve scales
it down); the curve contract itself is external. `PonsTrades` is what the adapter
builds (`BuildBuy`, `BuildSell`, the launch) and what
`createPonsV2SemanticValidator` lets through, two translations of the same curve.
`ReturnAuthorization` is what lets USDG leave by a plain transfer: the sealed quote
of a private return and the wallet's message of an emergency recovery. `PonsPolicy`
runs them: requests are built from one read of a market, judged on a second one and
executed on a third, while others trade, the snipe tax decays, the curve graduates,
the factory's terms change and the clocks differ (`skew`). `Alter` replaces a request
by one this client did not build.

### ReturnTransport

The way home of the money of several positions: `createRelayReturnTransport` (a lane
of its own per position), `createRelayBatchReturnTransport` (the lane `Shared`) and
`returnSessionsToWallet` (`Wallet`), with the client's reads of the sources and the
application's closing of positions. A flow (`job`) is one call; `req` are Relay's
requests and the transfers. One action per await: `ReadSource`, `LookSingle`,
`LookBatch`, `LookWallet`, `NothingLeft`, `Send`, the polls, `Deposit`, `Merge`.
`Throw` ends a call anywhere and `Reload` all of them, leaving the money where it is.
`dropped` is a history variable: positions whose return has broken off with their
money on the way.

### DepositTransport

The public edges of the private balance. `Calls` are deposits, withdrawals, fundings
and `finishPendingDeposit`, each with the balance it remembers from its start
(`previousBalance`); `tx`, `a1`, `cctp`, `residual` and `pool` say where the money
is, and `shown`, `pending`, `resting`, `saved`, `tracked` what the page and the
browser say. `NotFound` is the verdict of `waitForRobinhoodBroadcast` after five
lookups, true or not.

### Workspace

The page over its one runtime: `sig`, `session`, `asking` and `prompts` are the
runtime's, `identity`, `connected`, `busy` and the records the page's. The flows are
the user's own, the wallet button's, the recovery scan's and one automatic return per
position. A flow is a record of where it is and of the accounts it has seen at three
moments: when the render it belongs to was made (`seen`), when it prepared its
identity (`index`), and when it calls the runtime (`on`). `live` says that the
running scan still has the latest `positionRecoveryId`.

### PositionLifecycle

One position from the click on Buy or Launch to the return: the saved record
(`status`, the three hashes, `tokenAmount`, and whether `lastError` reads as a certain
rejection), the user's flow (`launch`, `trade`, `retryPositionBuy`,
`recoverPosition`), the automatic return (`automaticallyReturnPositionsToPool`, or
`automaticallyReturnSellPosition` after a reload), and the account with the batches
that were signed for it. A flow's place (`at`) is the await it stands at. The
batches' fates are the policy relayer's and the chain's, decided whenever they
like; a batch executes only at its nonce and with its balance, as in the account
module. `busy` is the one `stage` all flows share, so the page may look free while
the automatic return still runs. `Reload` ends all flows and starts what
`connectEvmWallet` starts for the record.

Simplifications, chosen so that they leave no outcome out: a buy commits one unit
and yields `TokensPerBuy`; the return after its batch (Relay, CCTP, S2 and merge) is
one step that succeeds or throws, and is `ReturnTransport`'s; the user starts one
flow at a time on the position.

### PositionScan

`recoverPonsPositions` on a chain that grows: the accounts of the factory and those
the signature derives, then per account its transfers and launches, then per token a
balance, a record and receipts. `pc` is the read that is under way. Each read is
answered, rate-limited (`Attempts` repetitions), or fails; a log query may also be
refused as too wide, which halves its range, and an answer doubles it again.
`fetched` counts how often each block is among the logs gathered.

### ProverRelay, StarkwareRelay, MainnetProver

`ProverRelay` has the handlers of the Starkscan relay between the SDK, which sends a
request until it is answered, Starkscan, which keeps one job per idempotency key and
hands its proof out once, and a store with a cursor and terminal answers that expire.
Writes of the answer and of the cursor are two steps, and a handler may die at each.
`StarkwareRelay` has a clock: a proof is good for `MaxAge`, must be answered `Margin`
before that, and sits in a cache whose time to live was computed before the write.
`MainnetProver` is the endpoint that uses one of the two, as it was deployed.

## 3. The runs

| Run | Instance | Shows |
| --- | --- | --- |
| `account` | 5 batches (two rivals for nonce 0, one soon expired, one malformed fee, one empty), 3 times, depth 3 | no re-entry, batches are atomic, one batch per nonce; refinement of `AccountAuthority` |
| `funding_one_tab` | 1 tab, 2 accounts, 3 requests, any legacy record, a user who retries | burns stay in sight but for the known window, none over a record, polls are about one's own transfer, retrying recovers; refinement of `FundingPromise` |
| `policy_relayer` | 2 batches for nonce 0, 3 balance and 2 simulation attempts | reports are final, hashes stand for broadcasts, nothing futile is broadcast, handlers end |
| `position_all` | 3 batches; launches, lost answers, timeouts and reloads | recorded hashes are real, the user's own return closes only empty positions, the page comes back from every flow |
| `returns` | 2 positions, one of them worth no more than the fees; 2 flows, 2 requests | closed positions are empty, money on a staging account has gas to move on |
| `returns_retry` | 1 position, 2 flows, a user who retries | what has reached a staging account comes home |
| `deposit` | 2 calls, 1 transfer, a private balance of 1 | the rest is saved and never becomes spendable early; what was minted becomes private |
| `workspace` | 1 position, the user, the wallet, a scan and an automatic return | one prompt at a time, a return keeps its record, flows settle |
| `prover` | 2 handlers of either relay, 6 attempts, 3 losses | jobs are not repeated, answers are earned, every request is answered, a proof comes in time |
| `pons_policy` | 2 tokens and curves (one a lookalike), 3 moves of the market, 5 ticks, skews of -1 to 1 | honest trades and returns pass and execute, at the quoted rate; what passes is bounded by the floor or authorized |
| `position_scan` | 3 accounts (2 of the user), 2 tokens, 3 blocks, ranges 2 to 3, 2 attempts | each block once, positions are exact, the scan ends |
| `position_reload` | 4 batches, reloads only | violation, see below |

### What TLC refutes

`position_reload` is a disagreement with the documentation (quoted under `findings`):
a page reloaded while a buy is posted finds `buying` without a hash, takes it for a
buy that was never sent, returns the empty account and closes the position; the buy
executes and its tokens belong to a closed position. `docs/integration.md` 125-126
asks for the opposite.

Further configurations are kept beside the runs, for the reader who wants to see a
trace, or the smaller question:

| Configuration (module) | TLC says |
| --- | --- |
| `FundingReload.cfg` (`MCFundingTransport`) | `NeverBurnsTwice` is violated: the tab ends between the burn and `writeCursor`; the next call burns again |
| `FundingRace.cfg` (`MCFundingTransport`) | `NoBurnOverRecord` is violated: two tabs read no record, both burn |
| `FundingTwoTabs.cfg` (`MCFundingTransport`) | holds: with two tabs records still name paid transfers, and polls are about one's own |
| `AppFunding.cfg` (`MCAppFunding`) | `ReloadResumes` is violated: no call of the application ever matches an existing record |
| `PolicyRelayerReject.cfg` (`MCPolicyRelayer`) | `RejectedNeverExecutes` is violated: 400 and `broadcasted: false` after the node took the transaction |
| `PositionPage.cfg` (`PositionLifecycle`) | holds: in one page without reloads and lost answers, closed positions are empty and held ones are left alone |
| `PositionSell.cfg` (`PositionLifecycle`) | `HeldHasTokens` is violated: the POST of a sell times out, the position is `held` again, the sell executes |
| `WorkspaceScan.cfg` (`MCWorkspace`) | `RecordsSurvive` is violated: a scan saves its merge over a position that was bought while it ran (`App.tsx` 1934) |
| `WorkspaceReturn.cfg` (`MCWorkspace`) | `ReturnsItsOwnAccount` is violated: a return whose page shows its identity as prepared does not prepare it again, and acts for the session another flow has prepared meanwhile (`App.tsx` 2278-2283, 3316) |
| `ProverRelay.cfg` (`ProverRelay`) | holds: `RequestAnswered`, the Starkscan relay alone |

### What a maintainer may want to know

Met while modelling; the models contain each of them, and the properties are stated
so that they say what holds besides. Line numbers are of `App.tsx` unless named.

* A sell return whose poll has timed out is retried, finds nothing on the source and
  on the staging account, and closes the position while Relay still has the money
  (3420-3437). `ClosedIsEmpty` leaves out the positions in `dropped` for that.
* Money that was deposited to S2 and not merged when the page ended is read by no
  path (`relay-bridge.ts` 527-551), nor is what Relay refunds to the owner's key (463).
* The shared lane of batch returns is topped up by the first transfer only
  (`relay-bridge.ts` 622-626); a batch that breaks off can leave it without gas.
  `StagedHasGas` is about the lanes of single returns.
* Five lookups that find no transaction are reported as "never broadcast"
  (`relay-bridge.ts` 41-48), and it may still be mined beside the deposit made anew.
* A deposit or withdrawal with a prepared identity leaves the stage "idle": a double
  click runs it twice, and the second reconciles against a stale balance.
* A corrupt recovery record is removed "to prevent a double burn" (`relay-bridge.ts`
  1388), which is what lets the next call burn; `BurnsInSight` counts it an orphan.
* A funding that fails after its burn leaves the position `failed` with an error
  `needsAutomaticPrivateReturn` does not recognise, and no button (3181, 5386).
* `runtime.launch` throws on a reverted or late receipt before it returns the hash
  (`runtime.ts` 486-491), so the branch for reverted launches (2755-2768) is not
  reached with the live client, and the tokens of a late launch are found by the
  on-chain recovery only.
* Retry timers do not look whether the page is busy, and `reset` does not cancel an
  open request to sign in.
* `getLaunchedToken(...).catch(() => undefined)` (`pons-recovery.ts` 266-275) passes a
  token over when its read fails: `RecoveryIsExact` excepts those (`skipped`).
* A return may cross beside the automatic return of a buy that was taken for lost: a
  reload starts the one, the user, who is not stopped, sells and starts the other. The
  automatic return closes the position with whatever it holds (3215-3260);
  `UserClosesEmpty` therefore speaks of the step of the user's own flow.
* A proof from the StarkWare cache may have lost up to two store timeouts (20 s) of
  its 45 s margin; `AnsweredInTime` has that term. Two handlers may prove twice.
* An emergency recovery runs its accounts one after the other; those that come more
  than five minutes after the signature are refused (`client.ts` 527,
  `pons-v2-policy.ts` 138-142).
* A trade whose quote is below two units is refused by the policy, whose floor rounds
  to zero; `TradesPass` asks for substantial quotes.

### Bounds, and why they are enough

* `account`: re-entry needs a second frame, so depth 2 shows it and 3 adds one inside
  it; two rivals for one nonce and a successor cover replay and order; a fee that is
  paid, absent or malformed covers `FeeShape`. The proofs remove the bounds.
* `funding_one_tab`: a second burn needs two requests, a third lets a legacy record
  exist besides; two accounts tell "mine" from "another's".
* `policy_relayer`: the races are between two batches for one nonce. Three and two
  attempts distinguish the first, a middle and the last turn of a loop.
* `position_*`: `MaxBatches` counts all signatures. A buy, a partial sell and a return
  need 3, a retry makes 4. `TokensPerBuy = 2` makes a partial sell possible.
* `returns`: two positions are what a batch and a single return can share; one of
  them is `Small`, so that a merge that does not pay occurs. Two flows are a return
  and its rival. The two flows and the two requests are symmetric; not so in
  `returns_retry`, where liveness is checked.
* `deposit`: two calls are a deposit and what runs beside it. One wallet transaction
  is the only one a record can be tracked for at a time.
* `workspace`: a single position meets the connection, the scan, its own return and
  its user; the configurations with two positions are the ones that are refuted.
* `prover`: the constants `MaxAge 6, Margin 2, CacheTtl 3, RequestTimeout 5,
  StoreTimeout 1` keep the order of the code's 300, 45, 120, 270 and 10 seconds, and
  the clock runs to 10, past the end of a screening. Three losses break a job, its
  answer and its cursor.
* `pons_policy`: amounts of 200 and 480 fill in whole and in part on a curve that sells
  300; slippages of 0, 100 and 5000 bps are the least, an ordinary and the greatest.
  Two requests let one that was let through meet the market another has moved.
* `position_scan`: three blocks with ranges from 2 to 3 have a boundary that is split,
  one that is not, and a last range that is short; the second own account and the
  stranger tell "found" from "mine".
* `CHECK_DEADLOCK FALSE` is set where the user may simply stop, or requests and
  batches of the instance run out.

### Fairness

Fairness is assumed of awaits, which settle because the code gives each a deadline:
`fetch` with `AbortSignal.timeout`, polling with a deadline, RPC loops with a count,
a sign-in prompt with a timeout (`WF` of a flow's own steps: `position_all`,
`workspace`, `position_scan`, `policy_relayer`). The user, Relay, Circle, the
relayer's platform and the chains are not fair there. Where a property is about coming
back, a formula of its own says who keeps trying:

* `RetrySpec` has a user who keeps retrying the recorded account, in a tab that is not
  closed every time just before a success is seen; `AppSpec` one who keeps funding.
* `ReturnTransport!Fairness`: a position that is not closed is returned again and
  again (timers do that), and a read or a deposit that is tried for ever does not fail
  for ever. `DepositTransport!Fairness` says the same of a user who reconnects and
  finishes what the page offers to finish.
* `EndpointSpec`: the SDK sends its request until it is answered, a handler works
  until it ends or is killed, and Starkscan ends every job. Losses are bounded.

## 4. The proofs

Eight modules prove, with TLAPS and for all values of the constants that satisfy the
assumption of the module (`AccountAssumption`, `FundingAssumption`,
`DepositAssumption`, `RelayerAssumption`, `LifecycleAssumption`, `ReturnAssumption`,
`WorkspaceAssumption`, `ScanAssumption`, `ProverAssumption`, `StarkwareAssumption`,
`CurveAssumption`, `TradesAssumption`, `AuthorizationAssumption`, `PolicyAssumption`;
TLC evaluates each of them). They are `PrivateLaunchpadAccountProofs`,
`TransportProofs` (fundings and deposits), `PolicyRelayerProofs`,
`MainnetProverProofs` (both prover relays and the endpoint), `RecoveryProofs` (the page
and the scan), `PositionLifecycleProofs`, `ReturnTransportProofs` and
`PonsPolicyProofs`:

* the account: `TypeCorrect`, `Reentrancy`, `LockReset`, `Atomicity`,
  `ReplayProtection`, `NonceOrder` and `Implementation`, the refinement of
  `AccountAuthority`. `NoReentry` is not inductive: that no frame can be pushed
  while one is open follows from `executing`, which must be tied to the stack (it is
  set in the running world exactly while a frame is open, and unset in the world the
  frame would restore), and atomicity needs that the calls a frame has made and the
  ones it still owes add up to the batch. `IInv` states that for the running world
  and the saved one; the step lemmas go entry by entry, and `Implementation` maps
  every frame to the moment it returns.
* the funding transport, for any number of tabs: `TypeCorrect`, `RecordsArePaid`,
  `PollsAreOwn`. The strengthening says that a quoted request belongs to the account
  its flow asked for, and that a flow that runs asks for some account.
* the funding transport with one tab: `InSight`, `NoBurnTwice`, `ClosedByDelivery`
  and `PromiseKept`. The strengthening (`SoloInv`) says that the storage follows the
  tab (no record while it quotes or burns), that burns were quoted for, that a
  submitted burn is the one the tab is at or an orphan, that records are never
  orphans, and that a corrupt record stands for exactly one burn. That there is one
  tab is an assumption of these theorems (`Only`); `FundingRace.cfg` shows that
  they fail with two.
* the deposits, for any number of calls, transactions and balance:
  `DepositTypeCorrect`, `RestSurvives` and `DepositsRest`. The rest the page shows is
  the one it has saved (`RestInv`), so a deposit that ends, with an ambiguous answer
  too, withholds what it has added whatever ran beside it.
* the policy relayer, for any number of rivals and attempts: `TypeCorrect`,
  `FinalReport`, `TrueHash` and `NoFutileGas`. `ReportIsFinal` says nothing of how a
  batch could be broadcast twice, so the invariant adds that a batch has at most one
  transaction, and only once its handler is over (`OneTransaction`), that receipts
  agree with what the account executed, and that what a handler has simulated
  remains true of the funds and of the nonce (`BroadcastsHadAChance`).
* the lifecycle of a position: `LifecycleTypeCorrect` and `HashesAreTrue`. What a
  record says of a hash depends on what the flow knows that writes it, so `LifeInv`
  ties every flow in flight to its batch (`InOrder`): it is of the kind the flow has
  signed, and was broadcast if the flow has its hash. Most steps change neither hashes
  nor batches and leave each flow in place or out of flight (`Harmless`,
  `HarmlessKeeps`); `Sign`, `Accepted`, `Launched` and the steps of the chain
  (`FatesKeep`) have lemmas of their own.
* the sale of a position, with every hazard: `UserClosesOnlyEmpty`. The flow that
  returns does not look at the tokens; it trusts a figure it took when the sale began.
  `SellInv` says why that is enough: once a sale has begun no purchase can execute any
  more, because the one unit is spent or the nonces of the open ones are used
  (`NoMoreBuys`), so the tokens are at most what the flow counts (`UserKnows`).
* a position in a page that is not reloaded and is not told of a broadcast batch that
  it was not, with late receipts, retries and the automatic return:
  `NothingIsLeftBehind` (a closed position holds neither tokens nor USDG) and
  `HeldStaysAlone` (`ClosedHoldsNothing` and `HeldIsLeftAlone`). `PageInv` has two
  halves. Without an automatic return (`NoReturn`) the user's return starts when every
  other batch is dead, so it takes all there is (`Home`); with one (`AutoReturn`)
  nothing was bought and nothing will be. Nonces in the order of the signatures
  (`InTurn`) and a balance that is nothing but the delivery until a trade executes
  (`Balance`) hold in both. That there are no reloads and no such answers are the
  hypotheses of these two theorems and of `PositionPage.cfg`; `position_reload` shows
  that the first cannot be dropped.
* the returns, for any number of positions, flows and requests: `ReturnTypeCorrect`,
  `ClosedAreEmpty` and `StagedCanMove`. Neither property says where the money is, so
  `ReturnInv` does: it is on the account, in one executed request or on the staging
  account (`OnePlace`); each flow is in order with its request, has read each account
  that still holds money or has it on its list (`FlowsWork`); and what is on its way
  is some flow's unless it was dropped (`InSight`). The steps of a flow without a
  request, with one, at its end, and those outside it have a lemma each (`OwnStep`,
  `RequestStep`, `EndStep`, `OutsideStep`); the actions are instances of them.
* the page: `WorkspaceTypeCorrect`, `AskedOnce` and `ReturnsKeepRecords`, for any
  number of positions. `PageInv` says that the open prompts are the ones `asking`
  stands for, and that a scan is current only while no return works on a record.
* the recovery scan: `ScanTypeCorrect` and `BlocksScannedOnce`, for any chain, ranges
  and attempts. `ScanInv` says that what a query has gathered is exactly what lies
  between its start and its cursor, that a query starts at the one block in which its
  account was created (which needs that accounts are created once), and that the
  cursor of a pending read has not passed the head.
* the same scan: `RecoveryFindsAll`. `FindInv` says that the transfers of an account are
  all gathered when its tokens are read (`OwnInv`), that a balance is that of some moment
  of the scan (`HeldInv`), and that every token that was held
  throughout is recorded, skipped, or still on the list of the accounts and tokens to
  come (`CoverInv`). What was paid is a fold over a set in an order that the definition
  leaves open; that the sum does not depend on it (`AnyOrder`) is shown with a least
  counterexample, since the library's induction cannot be instantiated here.
* the Pons policy, for any curve, market, amounts, slippages and clocks:
  `PonsTypeCorrect`, `SdkTradesPass`, `ReturnsAreLetThrough`, `SdkTradesExecute`,
  `QuotedRateIsPaid`, `FloorIsPaid` and `TransfersAreAuthorized`. `PolicyInv` adds to
  the properties that quotes and authorizations stay what they were when they were
  sealed (`PapersKept`), that a request which was not altered is the one the SDK builds
  from the market it has read (`MadeByClient`), and that one which was admitted passed
  the policy on that market (`WasAllowed`). The arithmetic rests on `RateSurvives`: a
  minimum that is rounded down when it is quoted and again when it is scaled for a
  partial fill is still met by the curve, which rounds the other way. The assumptions
  are the code's limits: a slippage of at most 5000 bps (`MaxSlippage <= Bps \div 2`),
  requests and authorizations that live ten minutes and recoveries that live five,
  against limits of fifteen, which leaves room for the skew of the clocks.
* the Starkscan relay: `TypeCorrect`, `NewKeyAfterSuccess`, `PayloadFirst` and
  `AnswersAreTrue`. The end of a job is final at Starkscan, and all that the store and
  the handlers say of an end is true, so whoever takes a new key does so after a
  success.
* the StarkWare relay: `StarkwareTypeCorrect` and `ProofsComeInTime`. `TimeInv`
  follows a deadline from the handler that computes a time to live (`Timely`) through
  the store (`Kept`) to the handler that reads it, one store timeout (`Prompt`) at each.
* the proving endpoint: `EndpointIsBoth` (it implements the specifications of both
  relays) and, by it, `EndpointIsSafe`.

Only model-checked: what is stated under fairness, since liveness and `ENABLED` are
out of the prover's reach (`RetryRecovers`, `HandlersEnd`, `PageComesBack`,
`StagedComesHome`, `MintedBecomesPrivate`, `FlowsSettle`, `EndpointAnswers`,
`ScanSettles`). Every safety property of a passing run is stated by a theorem.

## 5. What is not modelled

* Cryptography (EIP-712, ECDSA, the MAC, STRK20 proofs, viewing keys, the encryption
  of stored jobs): a signature or proof is there or it is not.
* Amounts of the transports. They decide whether a step is taken, which the models
  leave open, and not the order of steps. The arithmetic of trades is in `PonsCurve`.
* The field-by-field parsing of quotes and requests: one check that may refuse.
* The Clanker adapters and quotes and `ClankerV4SwapHelper.sol`: they build calldata
  and read records for a testnet pool, and the helper rests on Uniswap's pool manager,
  which is not in the repository. (`validateQuote` there accepts a minimum of zero.)
* `bridge.ts` and `official-bridge.ts`: they adapt the external StarkWare bridge. What
  the transports use of it is modelled with them, as external.
* The forwarding of the development proxy, its path and header checks, and its retry
  of read-only requests: no state.
* The migration of older storage keys of positions, configuration, rendering, texts,
  logs, forms, portfolio figures and markets; `flowReducer`, which no flow uses.
* External services (Relay, CCTP, the StarkWare bridge, paymaster, provers, wallets):
  modelled from how the code uses them, and marked as external in the map.

## 6. Plan

Done, in this order: the account and its refinement; the funding transport and the
application's use of it; the policy relayer on top of the abstract account; the
lifecycle of one position, with launches; the returns and the deposits; the page over
its one runtime; the two prover relays; the Pons policy with its curve and its
authorizations; the position scan. What is left:

1. Proofs: the safety that the liveness properties rest on, such as that a staged
   transfer always has a step that its flow can take; and what `PositionSell.cfg` and
   `WorkspaceScan.cfg` refute, without timeouts and with scans that are not beside a buy.
2. An abstract return that never closes while money is on its way, for a transport
   that keeps a record; today's refutes it after a break-off.
3. `ClankerV4SwapHelper` with the external pool manager's callbacks.
4. The retries of the development proxy.

## 7. Running

    tlasany PositionLifecycle.tla
    tlc -workers 2 -config PositionAll.cfg PositionLifecycle
    tlapm PositionLifecycleProofs.tla
