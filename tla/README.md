# Verification of the World Cup pari-mutuel market

TLA+ specifications of `gabchess/worldcup-pari-market`, the TLC runs that
check them on small instances and the TLAPS proofs that hold for every
instance.  The reference is the source tree; every definition that models code
is listed in `PROJECT.json` with the lines it stands for.

## 1. The system

A pari-mutuel prediction market for football fixtures.  A Solana program keeps
the money; a web dashboard shows the markets and lets a wallet deposit and
claim; a set of Node clients reads the TxLINE score feed and drives the program
through its life cycle; the TxODDS oracle program `txoracle` proves match
statistics on chain.

| part | source | state it keeps | operations |
|---|---|---|---|
| on-chain program | `programs/pari-market/src` | `Market`, `Position`, vault token account | `init_market`, `deposit`, `lock_market`, `resolve`, `claim_payout` |
| oracle interface | `programs/pari-market/src/cpi` | none (the return-data buffer is Solana's) | `validate_stat` CPI, decoding of its answer |
| account codec and discovery | `dashboard/src/lib/pari.ts`, `position.ts` | none | `decodeMarket`, `decodePosition`, `selectCanonicalMarket`, `resolveDiscoveredMarket` |
| amounts | `dashboard/src/lib/amount.ts` | none | parse and format a decimal amount |
| instruction builders | `dashboard/src/lib/instructions.ts`, `client/pari-client.ts` | none | Borsh arguments, account lists |
| market API | `dashboard/src/app/api/market/route.ts` | response cache, fills in flight, transaction cache | `GET`, `getCachedOrFetch`, `buildTimeline`, `resolveMarketData` |
| market page | `dashboard/src/app/market/page.tsx` | last answer, error | `fetchMarket` every 2.5 s |
| transaction button | `dashboard/src/app/market/TxButton.tsx` | one `TxState`, generation, in-flight lock | `run`, `checkStatus`, click, wallet change |
| claim and deposit panels | `dashboard/src/app/market/*Panel.tsx` | preflight reads, generation | fetch, refresh, reset, submit |
| score feed client | `client/*.ts` | sessions, poll loop | authenticate, subscribe, poll, normalise |
| life-cycle scripts | `scripts/*.ts`, `dashboard/scripts/*` | a run's report | drive a market from init to claim on devnet |
| video | `video/src` | none | presentation only |

Calls and shared state: the dashboard and the scripts send signed transactions
to the program and read its accounts back through JSON-RPC; `resolve` calls
`txoracle` across programs and reads its answer from a buffer that all programs
share; `deposit` and `claim_payout` call the SPL token program; the page polls
the API, which reads the chain and caches; the panels read the chain
themselves.

What is hard here.  On chain an instruction is atomic, so the difficulty is in
long sequences of legal calls by several wallets: repeat deposits, rounding over
many claims, the refund when the winning side is empty, the deposit window
racing the clock, a proof or a return-data buffer that belongs to something
else.  Off chain it is the order of asynchronous answers: a signature whose
confirmation fails although the transaction lands, a status read before the
block height it is judged against, a wallet switched while a request is in
flight, two refreshes answered out of order, a cache answering with the past.

What makes each part correct:

- program: solvency (every claim the market owes can be paid, in any order),
  each position paid once and exactly its share, bounded dust, an outcome that
  the oracle proved for this fixture, stakes frozen after locking, no stake
  stuck for good;
- transaction button: it never sends a second time when the first has landed or
  may still do so, it never shows a result of another wallet;
- API and page: one fill at a time, nothing older than its lifetime served,
  what the page shows never goes back in time;
- codec: decoding what the program wrote gives back what it wrote;
- route: the default market is the pinned one, or the newest on the canonical
  mint; a timeline entry once decoded is never taken back, and a deferred one is
  decoded in the end, whatever requests fail in between;
- instruction builders: whatever a client builds is executed as it was meant, by
  a program that reads the bytes on its own;
- panels: an enabled button stands for a transaction the program would accept;
- scripts: a PASS means a settled market, a failure has a cause outside, and the
  stakes of a run that failed can still be settled;
- feed client: no unpaid subscription is used, what is printed was so, and the
  poll loop survives failed requests.

## 2. Modules

`A -> B` reads "B extends A".

    TokenSums -> PariMarket -> PariMarketRefinement (mapping to PariMutuel)
                 PariMarket -> MarketAccount      the account's bytes and their reader
                 PariMarket -> ClaimPanel         the panel over the program it claims from
                 PariMarket -> DepositPanel       the panel over the program it deposits into
                 PariMarket -> LifecycleScripts   the scripts over the program they drive
              LifecycleScripts -> LifecycleAftermath  and what others do afterwards
                 MarketAccount -> Instructions    the builders over the program that reads them
    TxButton                                      the button over wallet, node and chain
    MarketApi  -> MarketPage                      the page polling the server's route
    MarketRoute                                   one fetch of the route, and its caches
    ScoreFeed                                     the feed client over service and chain
    PariMarketProofs -> ClaimPanelProofs, DepositPanelProofs, LifecycleScriptsProofs
    InstructionsProofs, TxButtonProofs, ScoreFeedProofs
    MarketDataProofs                              of MarketPage (and MarketApi) and MarketRoute
    MC*                                           instances for TLC

`TokenSums` - u64 amounts and their sums over sets of bettors, by counting, so
that facts about them can be proved without recursion.

`PariMarket` - the program.  One market is modelled: every account address is
derived from the market's own id, so markets share nothing.  State variables
keep the names of the account fields; `wallet` and `vault` are token balances;
`roots` is what the oracle has committed to; `now` is the clock; `received` and
`gifts` are history.  Each instruction is one action whose guard is the
conjunction of its account constraints and `require!`s (the error each stands
for is named beside it), written down under a name of its own (`DepositAdmits`
for `Deposit`, and so on), so that the clients' models can ask whether an
instruction would succeed; one that fails is no step, because Solana reverts it.
`Gift` (tokens sent straight to the vault), `MintTo` (the mint's authority issues
tokens, as `devnet-verify.mts` does), `PublishRoot` and `Tick` are the
environment.  `resolve` draws what the return-data buffer holds
from every case the runtime allows and decodes it as `invoke_and_decode_bool`
does.  The oracle evaluates the statistics of the proof it is given
(`ReturnData`); that they are the market's is for `KeysAgree`, the comparisons of
`resolve`, to ensure.  The bools of `Position.side` and `Market.outcome` are written "yes" and
"no".

`PariMutuel` - what the market promises: stakes, one outcome, each bettor paid
once its share of what was staked; no pools, vault, clock or oracle.
`PariMarketRefinement` is the mapping under which `PariMarket` implements it.

`TxButton` - the transaction button.  JavaScript runs from one `await` to the
next without interruption, so each such stretch of `run()` and `checkStatus()`
is one action; `calls` holds the local variables of the calls that wait and
says which await each is in.  `state` is the last `TxState` set, `shown` the one
last rendered (what a click handler reads), `generation` and `checkingRef` the
two refs.  `fate`, `expired` are the chain; `session`, `notified`, `givenUp`
are history.  A change from one wallet to another is the render that bumps
`generation` (`SwitchWallet`); a disconnection makes the panel stop rendering the
button (`Unmount`), whose ref then does not move: its calls are not abandoned
(`NotAbandoned`), go on unseen and call `onConfirmed`, while the next wallet meets
a button of its own (`Mount`).

`MarketApi` - `getCachedOrFetch` for one cache key: the entry with its lifetime
and the fetch in flight, each request's progress from arrival to answer.  What
a fetch reads is abstracted to a version of the chain, one for the account
(`resolveMarketData`) and one for the signatures (`buildTimeline`).
`MarketPage` - `fetchMarket`: the interval, the forced refetches of the panels,
responses in any order, errors that leave the data alone.

`MarketRoute` - what such a fetch does: pin, scan or id, the choice of the
market, the list of signatures, and `buildTimeline`'s loop with its cap, the
PENDING rest and the cache of decoded transactions, which the fetches of all
keys share.  `shown` is history: what the responses of each key have shown decoded
so far.  `LabelOf` is the name of a transaction's first instruction for the
program.

`MarketAccount` - the bytes Anchor writes for `Market` as a function of
`PariMarket`'s state, and `decodeMarket` and `hasCanonicalMint` over them.

`Instructions` - each builder of `client/pari-client.ts`,
`dashboard/src/lib/instructions.ts` and `dashboard/scripts/devnet-verify.mts`,
translated on its own: argument bytes and account list.  A client puts what it
has built on `wire`; the program reads it as Anchor does, checks signers,
writability and addresses, and takes the action of `PariMarket` that it has read.
The CPI arguments that `resolve` encodes are compared with the reference
encoder of `client/validate-stat-borsh.ts`, and the timeline's decoder reads the
same bytes.

`ClaimPanel` - the props that the page passes down (each an old snapshot of the
market, delivered in any order), the effect that reads the position, its
cleanup, the offer, and how long the button stays mounted.
A read of the position that is refused (`PositionFails`) is caught by nobody and
leaves the panel loading; `refused` remembers it.
`DepositPanel` - the preflight reads and their generations, `computeBlocker`,
the input, and `handleConfirmed`.  The deposits of a button that a disconnection
has unmounted are `orphans`: one that is confirmed calls the `handleConfirmed` of
its own wallet, which reads under the panel's present generation
(`OrphanConfirmed`); `strayed` remembers that this happened under the present
wallet.

`LifecycleScripts` - `m3-lifecycle-verify.ts`, `m5-capture-demo.ts` and
`devnet-verify.mts` as sequences of steps run against `PariMarket`: `pc` is the
section of `main()`, `stage` the call inside `sendAndConfirm`, `tx` the
transaction under way, which lands, reverts (when it is not `Executable`) or
expires whether or not the script still waits.  Anybody else bets, locks and
resolves in between.  `skew` is the difference between the script's clock and the
chain's, any whole number; the lock time is counted from that clock when the step
that creates the market begins, before its blockhash is fetched (`LockTs`).
`LifecycleAftermath` goes on where a script has ended: a transaction of it may
still land, the clock runs, and anybody calls the instructions that are left.

`ScoreFeed` - the subscribe scripts, the sessions of `live-capture.ts` and
`poll.ts` (guest token, signed message, activation), the ticks of the poll loop,
which overlap, the normalisation of what they read, and the capture.  What is
pasted into `SUBSCRIBE_TX_SIG` is a signature that a script has printed, before
the transaction is confirmed, or filed (`Pasted`).  The service hands out guest tokens, activates a subscription once, and may do so
without its answer arriving.

`*Proofs` - theorems about the module each is named after, in modules of their
own (section 6); `MarketDataProofs` has those of the page, the API and the route.

## 3. Runs

Deadlock is checked in `page`, `claim`, `deposit_panel` and `route`:
something can always happen there.  It is not in the other runs, whose systems
end: a market when all is claimed and the clock has reached its bound, a button
when its transactions and the counted changes of wallet are used up, a script
when it exits and its market when it is settled, the feed when no program is
started any more.

| run | instance | what it shows |
|---|---|---|
| `market` | 3 bettors with 2, 1 and no units and one more to be minted, u64 capped at 4 (the whole supply), deposits, gifts and calls of 0 and 1, 6 kinds of market terms, 5 snapshots (two results, another fixture, another day), lock times 0 and 1, clock to 2, fair calls | the pools are the sums of the positions; every eligible claim can be paid, in any order; each bettor is paid once and exactly its share; the dust is bounded; the outcome is the market's predicate of the market's statistic in a committed snapshot of this fixture; stakes are frozen after the lock; no stake is stuck; the program implements `PariMutuel` |
| `wire` | 1 bettor, markets of 5 predicates with negative and two-byte thresholds, every instruction of every client | what a client builds is refused only when the program would refuse its meaning, and does what was meant; the builders agree to the byte; the CPI's arguments are the reference encoding; the timeline and the account decoder read what was written |
| `scripts` | each script, 3 plans of m5, clocks a tick behind, a tick ahead and three ahead (buffer 1), either funding, 3 snapshots, a backup fixture, fair calls by others afterwards | a failure has a cause outside the script; PASS means a settled market; the stakes that a script leaves behind are settled, wherever it ended |
| `button` | 2 wallets and 1 change (from one to the other, to none, or from none), 2 transactions, 2 calls, one kind of mishap in each behaviour, fair | what is shown is the connected wallet's own and final; `onConfirmed` once; one transaction at a time within a connection; busy ends; a timeout is decided |
| `page` | 2 requests of the page and 1 visitor's, lifetime and period 2, 1 change, 1 failure, fetches of up to 1 tick | nothing expired served, the cache never goes back, the market shown is not ahead of its timeline, the page ends up current |
| `route` | 3 markets (one on another mint, one official), 3 pins, 2 deployments, 3 transactions in a window of 2 with a cap of 1, 1 mishap | the default market is the pinned one or the newest canonical one and moves forward only; decoded entries stay decoded in every later answer; deferred ones are decoded |
| `claim` | 2 wallets, 2 page requests and 2 position reads under way, refused ones too, either result | a claim is offered only to a wallet the program pays, and such a wallet comes to be offered it unless its read is refused; "Claimed" survives refreshes |
| `deposit_panel` | 2 wallets (one cannot pay for a position), 2 refreshes, 1 unmounted button, clock to 2, lock at 1 | but for `handleConfirmed` of an unmounted button, the preflight shown is the connected wallet's and an enabled button is a deposit the program accepts, if the side is that of the position |
| `feed` | 2 matches of 2 stages in every form of report, 1 subscription and the old one, 2 guest tokens, 2 overlapping ticks, 3 program starts, 1 failed request, fair | a capture of what was filed is refused only on a spent subscription; what is printed was so; an authenticated poll goes on and ends up current |
| `account_single_stat` | 1 bettor, a single-stat market | violated: finding 1 |
| `button_race` | 1 transaction, 1 call | violated: finding 2 |
| `deposit_reconnect` | as `deposit_panel` | violated: finding 3 |

Why the bounds are enough.  In `market` the three bettors can form every split
that matters (all on one side, two against one, nobody on the winning side, one
not betting), deposit again, and hold the whole supply, so that u64 checks are
reached; winners with 2 and 1, or 1 and 1, against a loser leave a remainder.
Amounts larger than that are the theorems' business.  The keys offered to
`resolve` include wrong ones, and the false snapshots would give the opposite
answer.  In `button` two calls suffice for a call of an earlier generation beside
a current one; the wallets differ in nothing, so w1 is the one connected first if
any is, and longer sequences of changes are the theorems' business.  In
`deposit_panel` one unmounted button is enough for its answer to meet the next
wallet.  In `page` three requests give a joined request, a fetch that fails under
it, and two responses of the page that overtake each other; the cache entry
carries no history beyond its lifetime.  In the panel runs two outstanding reads
are one stale and one current.  In `wire` all numbers that a field can be confused
with differ in their bytes, and the keys are the 5 forms of predicate.  In `route`
a window of 2 under a cap of 1 leaves a PENDING entry and loses one from the
window; the third market comes from somebody else.  In `scripts` the lock window
is 8 ticks where a transaction takes up to 2, so that the deposits fit or fail to
as the plan says, and the clock's bound of 24 is never reached; a clock three
ahead with a buffer of one makes a lock wait that ends too early; the result of
the backup fixture lies on another day than the primary's.  In `feed` three starts
are a subscription and two sessions that compete for it, and one failure suffices
to end a tick or to lose an answer; the ticks overlap across a stage of the match.

The cache's lifetime and the page's period are equal (2,500 ms both in the code), in ticks.

Fairness, and why the code justifies it.  `market`: the clock runs, the oracle
publishes, and holders of a stake go on calling `lock_market`, `resolve` and
their own `claim_payout`, which no one can prevent them from (the first two are
permissionless); weak fairness of each.  `scripts`: the same of others once a
script has ended; nothing is assumed of the script.  `button`: requests are
answered (a browser's `fetch` ends, if only with an error), the user decides in
the wallet, clicks what the button invites him to click, and block heights grow.
That a block is confirmed is not assumed, but when the confirmed height passes
the last valid one, each block that could hold the transaction is confirmed or
dropped (`Expire`).  `page` and `claim`: the interval fires, the server runs,
requests are answered.  `route`: visitors go on asking and the node answers.
`feed`: `setInterval` fires and the service answers a tick's requests; nothing is
assumed of a program's start or of the matches.  No fairness is assumed of
failures ending, other than by their bound.

## 4. Abstractions to know of

`PariMarket`
- Account addresses, signers and the token program's own account checks are not
  modelled: an instruction works on the accounts derived from its market and
  signer.  The SPL transfer is its balance and overflow checks.
- `Provable` stands for the Merkle verification inside `txoracle`: external.
- `Gift` amounts are taken from the deposit amounts, those of `MintTo` from
  `MintAmounts`, which is empty where no run issues tokens.  `MaxTime` stops the
  clock.

`TxButton`
- An on-chain error is final once seen; the node that answers is not behind the
  one asked before; `confirmTransaction` rejects only on an on-chain error or
  when the block height has passed.
- A transaction is in doubt (`InDoubt`) while it is in a block that is not
  confirmed, whether or not its blockhash has run out, and until then when it is
  pending or has landed.  One that landed, was missed by the status check and whose
  blockhash has run out is no longer in doubt: that is finding 2.
- What a panel does with `onConfirmed` is the panel's model; here it is counted.
- `SendsOneAtATime` leaves out behaviours in which two clicks are handled before
  a render, which open two wallet prompts (`run()` has no ref of its own, the
  user must approve both), and those in which a node forwards a transaction and
  answers with an error, which leaves the component no signature to ask about.
  `TimeoutResolves` leaves out a button that its parent has disabled.  A
  behaviour has one kind of mishap, chosen at its start.

`MarketApi`, `MarketPage`
- One server instance, as in the source's own remark on per-instance caches.
- No interval of the page is skipped, and time waits for a fetch no longer than
  `Latency` ticks.
- A page's payload is two versions; what a version looks like is
  `MarketAccount`'s and `MarketRoute`'s matter.

`MarketRoute`
- When the next fetch of a key begins is left to `MarketApi`; block times,
  explorer links and the sort by time are left out.  Only market 1 is used after
  its creation.

`Instructions`
- An address derived from seeds is the record of its program and seeds; the
  proof's hashes and times are small numbers that differ from one another, but
  for `SubTreeRoot`, the hash that stands for a whole snapshot.
- The transaction's fee payer, its blockhash and compute budget are not modelled.

`LifecycleScripts`
- Amounts are in units of ten test-USDC and times in ticks of a few seconds.  The
  chain's clock starts with the step that creates the market, before which nothing
  depends on it.
- `FailuresHaveCauses` names the scripts' clock as a cause when it differs from the
  chain's by more than the buffer (`InStep`); `PassMeansSettled` holds for any clock.
- That a script ends is no property: it is a list of steps each of which ends.
- In `LifecycleAftermath` anybody who resolves has a proof of a published snapshot
  of the market's fixture and keys, as the score service hands it out to all.
- `troubled` records that something went wrong around a script: a failed call, a
  late transaction, somebody else's lock or resolution, no root.

`ScoreFeed`
- The list of fixtures that poll.ts reads has the fields of `FixtureEntry` in
  `types.ts` (see section 7).  A subscription is one signature, and the service
  activates it once.  A capture that is refused for a signature pasted before it
  was filed is outside `RefusedOnlyIfSpent`.  Prices and percentages are left out.
- A state is kept as the answers it is made of, from which `normalizeMatchState`
  computes what is printed.

`MarketAccount`
- Numbers stay in bytes after decoding.
- Anchor serialises the whole struct at the end of a changing instruction; the
  allocated rest of the account is zero (an account whose Option grew is never
  rewritten shorter).

`ClaimPanel`, `DepositPanel`
- SOL is not consumed by deposits, the browser's clock is the program's, and a
  step renders.  The page's responses are snapshots of the chain taken at any
  earlier moment and delivered in any order.
- `EligibleIsOffered` excepts a behaviour in which a read of the position was
  refused: the panel then stays on loading until its effect runs again.
- The buttons are a summary of `TxButton`: sent, then landed or not; in
  `DepositPanel` also unmounted by a disconnection with a deposit under way.  The
  claim panel's `onConfirmed` asks the page for a refetch and nothing else.

## 5. What the checks are for

`PROJECT.json` lists the hazards of the code, each at its line, with the
properties that would catch it going wrong; every property of a passing run has
a mutant, a plausible bug in a mapped definition under which the same run finds
that property violated.

## 6. Proofs

Every theorem is about a specification for all values of its constants: any
finite set of bettors, any supply that fits in a u64, any number of requests,
wallets, calls, markets, transactions, matches, ticks and failures.  Where the
last column names a property, TLC checks it in the runs of section 3 as well.
That the specifications of the panels, the scripts and the page imply those of
the program or the cache they drive (`PanelImplementsProgram`,
`ScriptsImplementProgram`, `PageImplementsApi`) holds by how they are built, each
step being one of the other's or none; these are lemmas, which carry the theorems
of the one over to the other.

| theorem | says | property |
|---|---|---|
| `PariMarketProofs!TypeCorrect` | every amount stays a u64 | `TypeOK` |
| `PariMarketProofs!PoolsConsistent` | the running pools are the sums of the positions | `PoolsMatchPositions` |
| `PariMarketProofs!Solvency` | every eligible unclaimed position can be paid | `EligibleClaimsPayable` |
| `PariMarketProofs!Frozen` | after the lock no stake, side or pool changes | `StakesFrozen` |
| `PariMarketProofs!OutcomeIsProven` | an outcome is the predicate of the market's own statistic in a committed snapshot of this fixture | `OutcomeProven` |
| `PariMarketProofs!PaidInFull` | one payment each, exactly the share, and a winner's never below its stake | `ClaimsPayEntitlement` |
| `PariMarketProofs!Dust` | less than one base unit per claim is left over, nothing after a refund | `DustBounded` |
| `PariMarketProofs!Refinement` | the program implements `PariMutuel` (safety part) | `ImplementsPariMutuel` |
| `TxButtonProofs!DisplayedIsOwn` | what is shown is of the connected wallet's present session | `ShownIsOwn` |
| `TxButtonProofs!DisplayedAsConfirmedIsFinal` | what is shown as confirmed has landed | `ConfirmedIsFinal` |
| `TxButtonProofs!OnConfirmedOnce` | `onConfirmed` at most once for each transaction | `ConfirmedOnce` |
| `TxButtonProofs!OneSendAtATime` | within a connection nothing is sent while a transaction is in a block that may yet be confirmed, or has landed or may land before its blockhash runs out, but after batched clicks or a lost reply | `SendsOneAtATime` |
| `MarketDataProofs!ReceiptListed` | the market shown is not ahead of its timeline | `ReceiptIsListed` |
| `MarketDataProofs!PageCacheForward` | the cache never goes back | `CacheMovesForward` |
| `MarketDataProofs!PageNothingExpired` | nothing past its lifetime is served | `NothingExpiredServed` |
| `MarketDataProofs!CanonicalByDefault` | the default market is the pinned one or a canonical one | `DefaultIsCanonical` |
| `MarketDataProofs!DefaultForward` | and from one successful answer to the one right after it changes only to a newer one | `DefaultMovesForward` |
| `MarketDataProofs!DecodedForGood` | an entry that any answer of a key has shown decoded is shown so by every later one that lists it, failures in between or not | `NeverUndecoded` |
| `ClaimPanelProofs!OfferedEligible` | an offered claim is one the program's constraint admits | `OfferedIsEligible` |
| `ClaimPanelProofs!OfferedPayable` | and one that can be paid in full | |
| `ClaimPanelProofs!ConfirmedStays` | "Claimed" survives polls and late answers | `ConfirmedOutlivesRefresh` |
| `DepositPanelProofs!PreflightOwn` | the preflight shown is the connected wallet's, unless `handleConfirmed` of an unmounted button has run under it | `PreflightIsOwn` |
| `DepositPanelProofs!EnabledDepositsAccepted` | an enabled button is a deposit the program accepts and the wallet can pay for, if the side is the position's, what was read still holds and no such handler has run | `EnabledIsAccepted` |
| `ScoreFeedProofs!RefusedIsSpent` | a capture of what was filed is refused only on a spent subscription | `RefusedOnlyIfSpent` |
| `ScoreFeedProofs!PrintsTruth` | what a poll prints was so between its asking and its printing | `PrintedIsTrue` |
| `LifecycleScriptsProofs!FailuresExplained` | a script fails only for a reason outside it, for a clock off by more than its buffer, or for a plan without room in the lock window | `FailuresHaveCauses` |
| `LifecycleScriptsProofs!PassMeansPaid` | PASS means that everything landed, YES won and wallet 1 was paid | `PassMeansSettled` |
| `InstructionsProofs!DecodingIsTrue` | a two-stat market is read back as it is stored | `TwoStatMarketsDecode` |
| `InstructionsProofs!AgreeingBuilders` | the clients build the same bytes and accounts | `BuildersAgree` |
| `InstructionsProofs!NothingElseExecuted` | what is executed is what was meant | `ExecutedAsMeant` |
| `InstructionsProofs!NothingElseRefused` | what the market's state allows is never refused for how it was built | `RefusedOnlyOnMerit` |
| `InstructionsProofs!TimelineIsTrue` | the timeline shows an instruction as what it is | `TimelineShowsIt` |
| `InstructionsProofs!CpiAsReference` | the CPI's bytes are the reference encoder's | `CpiIsReference` |

### Assumptions

TLC evaluates each in every run of its module.

- `PariMarket`: `MaxU64Assumption` (it is a natural number), `BettorAssumption`
  (finitely many bettors), `WalletsAssumption` (a mint's supply is itself a u64,
  so all initial balances together fit in one), `InputAssumption` (arguments
  have their types).
- `NoneAssumption` (`TxButton`), `NoOneAssumption` (`MarketApi`): the value for
  "no wallet", "no transaction" or "no request" is none of them, as `null` and
  `undefined` are.
- `PinsAssumption` (`MarketRoute`): an environment variable has one value or
  none.  `RouteAssumption`: ids are numbers, the window and the cap are positive
  (`route.ts` has 25 and 5), and a market that exists has a transaction, the one
  that created it.
- `PanelAssumption`, `DepositPanelAssumption`: balances, fee and rent are natural
  numbers, token accounts belong to bettors.
- `FieldAssumption` (`MarketAccount`), `ArgumentAssumption` (`Instructions`): the
  fields and arguments fit the integer types the program declares for them, an
  `Option` holds at most one value, keys and hashes are 32 bytes, and different
  snapshots have different hashes (collision resistance of the score tree).
- `ScriptAssumption` (`LifecycleScripts`): the test wallets are two of the
  bettors and somebody else is a third; draws are positive (20 to 120), plans
  and the differences of the clocks whole numbers; the fixed window (30 s) holds
  the three transactions before the lock on a network without trouble, for a clock
  behind by the buffer as well.  `FundsAssumption`: the wallets were given enough
  for the bets of the plan (the scripts make them with funds of their user's), and
  the mint's supply has room for what `devnet-verify.mts` issues.  `RequestAssumption`:
  what the scripts ask for is among the arguments of `PariMarket`.
- `FeedAssumption`: there is a match and it has a first moment, all matches have
  the same number of moments, and the old signature of `poll.ts` is none of the
  new ones.

### The program

Solvency is not inductive: that the vault holds what the next claim takes
depends on what earlier claims left.  The inductive invariant is

    IInv == TypeOK /\ Staged /\ PoolsMatchPositions /\ Supplied /\ Funded

`Staged` says how far the market has come (a claim only after the resolution,
an outcome exactly then, no stake without a position); `Supplied` that all
balances together stay within one mint's supply, which is what excludes every
overflow; `Funded` that before the resolution the vault holds the total pool,
and after it, for the set of unpaid eligible positions U,

    TotalPool * TotalOf(amount, U) <= WinningPool * vault

- the inequality scaled by the winning pool, so that it has no division in it.
A claim of `a` takes `(a * TotalPool) \div WinningPool`, at most
`a * TotalPool / WinningPool`, so the inequality survives it (`ShareTaken`); and
it gives back at once that the next claim is covered (`PayoutInVault`).  At the
resolution U is exactly the backers of the winning side (`ClaimantsAtResolve`),
whose stakes are the winning pool by `PoolsMatchPositions`, or everybody when
that pool is empty.

`Dust` bounds the same quantity from above as well: `Ledger` allows
`WinningPool - 1` scaled units more for each position served, which is what one
floor division can leave (`DustGrows`).  `Refinement` needs `OpenedStaked`
besides: an opened position holds a stake, so that the abstract market, which
knows no positions, agrees on who has picked a side; the abstract shares are
computed from stakes and the concrete ones from pools, and `PoolsMatchPositions`
is what makes them equal.  Sums over bettors are counted (`TokenSums`), so that
`TotalOfAdd`, `TotalOfRemove`, `TotalOfUpdate` follow from the library's facts
about cardinality without induction.

### The button

The calls of `run()` and `checkStatus()` outlive the session that began them, so
an invariant has to speak of calls whose result will be thrown away.

- `OwnInv`, for what is shown: a live call, one of the present generation, is
  the connected wallet's (`CallsAreOwn`), a displayed signature is of this
  generation (`OwnState`), and what `checkStatus` has been told still holds when
  it acts on it, because a decided transaction stays decided and a passed height
  passed (`ReadsHold`).
- `OnceInv` adds who may still call `onConfirmed`: each button's `checkingRef` is a
  lock (`CheckLock`), no two calls are about one signature and the timeout phase of
  one begins when its `run()` is over (`OneCallPerTx`), and once notified, a
  signature has neither a live call nor a phase from which a click could start
  one (`NotifiedOnce`).
- `SeenInv`, for one send at a time, holds until one of the two things happens
  that `SendsOneAtATime` excepts (`Unseen`): the render is that of the last
  state, a session has one call, its phase tells which await the call is in, and
  a transaction in doubt is displayed or the business of the session's call.

### The route and the page

`ApiInv` treats `inFlight` as a lock: it names the one request that fetches
(`OneFetch`).  Hence what that request has read is no older than the entry it is
about to replace (`ReadsInOrder`), which is both `CacheMovesForward` and, since
the account is read before the signatures (`InOrder`), that no payload has a
market ahead of its timeline.  `AgesWithClock` ties the freshness left to the
time since the entry was filled.  `PageInv` carries `InOrder` to the page through
answers in any order; `PageImplementsApi` shows each step of the page to be one
of the cache or none.

`RouteInv` says that the cache of decoded transactions is true (`CacheTrue`) and
that what any answer has shown decoded is cached (`DecodedCached`).  A timeline under
construction shows again all that the answers under its key did, and what it
waits for is not among that (`TimelinesGrow`): this is what fetches of the same
key that overlap could break, and what makes `NeverUndecoded` inductive.
`DefaultInOrder` follows a default fetch from the environment variable to the
answer.  Sequences grow by one entry with each decoding; the scan for the newest
market uses that a non-empty set of ids has a greatest one, by the library's
well-founded induction.

### The panels

Both panels drive `PariMarket`, and `PanelImplementsProgram` makes the program's
theorems hold under them.

`PanelInv`: a poll that has seen the resolution has seen all there is to see,
since neither outcome nor pools move afterwards (`PolledInTime`, from
`StakesFrozen`); an old answer about a position may miss its claim but not its
side (`AccountsOwn`); at most one request for it is not cancelled, and it is for
the connected wallet, but while the effect that cancels it is due (`OneLive`); a
position is shown only with the market it was read for (`ShownTogether`).
`OfferedPayable` is this joined to `Solvency`.

`DepositInv`: one call may still set the preflight, the connected wallet's,
as long as no handler of an unmounted button has begun another (`OneLive`), and a position read as opened is opened, so the panel may ask for
too many lamports but not for too few (`ReadsHold`).  `EnabledDepositsAccepted`
then shows what the panel does not check, that the u64 sums of `deposit()` do not
overflow and the transfer is covered, from the program's `Supplied`
(`AffordableIsAdmitted`).

### The scripts

`ScriptsImplementProgram` makes the program's theorems hold of the markets the
scripts make, and the two others rest on it: `PassMeansPaid` on `PaidInFull`,
`FailuresExplained` on `ClaimsPayable` (an eligible claim can be paid) and
`AffordableIsAdmitted`.  The length of a script depends on the plan, so every
`program` is first shown to be laid out the same way around the step that fetches
the proof and the bets (`Places`, `LaidOut`: the steps by their positions), and
every step of the specification to be one of a few moves (`StepsMove`).  The
inductive invariant is built in layers, each proved with the help of those before:

- `Sited`: `pc`, `stage` and the proof are those of a place in the script.
- `Tracked`: `tx` is built for the step at `pc` and is awaited exactly when it
  has been sent; of the steps before `pc` the transactions have landed, and
  nothing from a later step.  A lost answer ends the script; it never goes on
  without the landing.
- `Clocked`: the market is created exactly when `create_market` has landed, with
  the script's terms and a lock time counted from the script's own clock.
- `Linked`: what has landed has left its mark (locked, resolved YES, wallet 1's
  position and claim) which nobody else can undo; YES because the threshold is
  one less than the difference that the same snapshot proves (`ProofHolds`).
- `Timed`: a timer fires neither early nor late, and after the wait the lock time
  has come by the chain's clock, where the buffer covers what the clocks differ.
- `Supported`: what the wallets hold covers the bets to come, whatever is drawn.
- `Smooth`: as long as nothing has gone wrong around the script, its clock is
  within the buffer and the plan is roomy, it has not failed, nobody has locked or resolved before it, and it is
  never late: at each bet, what is left of the lock window is enough for the rest
  of the bets at the network's worst and the longest pauses (`Left`, `LeftFalls`,
  `RoomForAll`).  `OwnExecutable` puts the layers together: what the script sends
  can be executed, in the preflight and when it lands.

### The feed client

`FeedInv` follows a signature from the chain to the service: in a file only when
its transaction is confirmed (`FilesBought`), and whatever a capture brings that
was in a file is such a signature or one already spent, signed for a guest token that the session
holds (`CaptureCanPay`).  `TickInv` says of every tick under way, however many
overlap, that what it has read is of a moment between its question and now
(`AskedInTime`), and so is each part of what it has made of it (`LiveState`).

### The wire

`WireInv` is short: what is stored has the fields' types and an outcome exactly
when it is resolved (`Stored`), and the one transaction under way is something a
client has built for some arguments (`Sent`).  The work is in the bytes.

- Integers.  `Shifted` is a recursive function; `ShiftsExist` and `ShiftsAgree`
  show that its definition has one solution, `LETells` that w bytes tell the
  integers of a type apart, two's complement included.  Both go by `Induction`
  over a *set* of numbers, which the library's least-element theorem (`WFMin`)
  gives without an operator parameter.
- Layout.  A field of a concatenation stands at the sum of the lengths before it
  (`CatField`, `CatHolds`).  `AccountHolds`, `InitHolds`, `DepositHolds`,
  `ResolveHolds` and `MintHolds` say where everything is, also behind an `Option`
  whose value may be absent, and the `Read...` lemmas what comes out.
- `UniqueReading`: data that begin with the encodings of two instructions begin
  with the same instruction.  The first byte tells which it is (`SameIx`); then
  field by field, each `Option` deciding where the next field stands
  (`OptionTells`), and for `resolve` the snapshot by its hash and the keys by
  theirs (`KeyOfStat`).
- Builders.  `Same...` shows that hand-written builders of different grouping and
  writers agree, `...IsEncoding` that what they build is what the program reads;
  with `UniqueReading`, `ReadAsMeant`: the program reads what was meant and
  nothing else.

`NothingElseRefused` follows from `ReadAsMeant` and the account checks
(`Satisfied`): what was meant is among what the program understands.

### Only model-checked

- Every liveness property (`StakesSettle`, `BusyEnds`, `TimeoutResolves`,
  `PageCatchesUp`, `TimelineSettles`, `EligibleIsOffered`, `PollCatchesUp`,
  `AbandonedStakesSettle`): fairness is outside what the provers do here.
- `EveryMarketDecodes`, `GivenUpNeverLanded` and `NoStaleBalances`, which the code
  violates (section 7).

Whether an instruction would succeed is asked with the guards (`DepositAdmits`
and the rest), which are conjuncts of the actions, and not with `ENABLED`.

## 7. Disagreements of code and documentation

Reproduced by a run:

1. `account_single_stat`: `decodeMarket` (`dashboard/src/lib/pari.ts:262`) skips
   the value of an absent `stat_b_key` and `op`, where Borsh writes none, so all
   later fields of a single-stat market are read five bytes too far.
   `docs/ENDPOINTS.md:13` gives the single-stat market as a regular case.
2. `button_race`: `checkStatus` reads the status and the block height in
   parallel (`TxButton.tsx:235`).  A status read before the transaction lands and a height
   read after its last valid block are together taken for proof that it is dead,
   and the button offers a new send of what has landed; the comment at lines
   35-37 says the check can prove it expired without landing.
3. `deposit_reconnect`: on a disconnection the deposit panel stops rendering the
   button (`DepositPanel.tsx:140`), so the render that bumps the button's
   `generationRef` (`TxButton.tsx:104`) never comes, and its handlers in flight
   pass every re-check and call `onConfirmed`, which the comment at
   `TxButton.tsx:97-102` says they do not.  That is `handleConfirmed`
   (`DepositPanel.tsx:188-192`) of the wallet that has left, and `refreshPreflight`
   takes the generation of the moment (line 101): after another wallet has
   connected, the first one's balances are committed as the second one's.  The
   comment at `DepositPanel.tsx:86-91` says that this is what the generation
   prevents.

Seen while modelling, without a run of their own:

- `deposit` accepts the second `lock_ts` itself (`deposit.rs:35`, `<=`); its doc
  comment at lines 19-20 says a deposit at `lock_ts` must fail.
- A disconnection and reconnection of the same wallet discards the signature of
  a transaction in doubt (`TxButton.tsx:107`, the reset during render), and the
  next click sends afresh; the comment at lines 205-208 says a fresh send is
  only reachable once the original signature is proven dead.
  `SendsOneAtATime` therefore speaks of one connection.
- A parent that disables the button in its timeout phase (`DepositPanel` when
  the market locks) blocks the status check too: `handleClick` returns on
  `disabled` first (`TxButton.tsx:303`).
- A response of the page read before the resolution and delivered after it sets
  `resolved` back to false (`page.tsx:179` replaces the data unconditionally);
  `ClaimPanel` renders null, its button is unmounted, and "Claimed" does not
  come back, because the effect now finds the position claimed.  The comment at
  `ClaimPanel.tsx:15-18` says it should stay visible.
  `ConfirmedOutlivesRefresh` excludes that response.
- The deposit panel does not know the side of an existing position
  (`DepositPanel.tsx:106`, `:111`), so a deposit on the other side is enabled and
  the program refuses it; the header at lines 4-8 says a doomed transaction never
  reaches the wallet.  `EnabledIsAccepted` takes the side as given.
- The forced refetch after a confirmation may be answered from the cache
  (`route.ts:147`), so the transaction can appear later than the "one poll
  cycle" of the comment at `page.tsx:164-165`; `PageCatchesUp` is what holds.
- More than 25 newer transactions push a PENDING signature out of the window
  before any request decodes it, although the comment at `route.ts:202-205` says
  it is never silently dropped.  `TimelineSettles` speaks of what is listed.
- A failed transaction is listed under the name of its instruction
  (`route.ts:230-252` reads no `meta.err`): a refused deposit shows as DEPOSIT.
- `m3-lifecycle-verify.ts:55-57` and `m5-capture-demo.ts:85-88` say the backup
  fixture stands in when the primary's root account is missing; the code tries it
  when the primary's proof cannot be fetched, and stops at a missing root.
- `poll.ts:94` passes a `WALLET_SIG` made before `guestStart` has returned the
  guest token, while `txline-client.ts:176-180` and `docs/ENDPOINTS.md:58` need
  the signed message to name that token.  In `ScoreFeed` such a poll is let in
  only if the service hands out the same token again.
- `poll.ts:36` reads `fixture.fixtureId`; the live list that `live-capture.ts:78`
  describes as the actual schema has `FixtureId`, and scores as an array, which
  `normalizeMatchState` shows as DEFERRED.
- With no live match, `live-capture.ts:125-130` starts its comparison from the
  first fixture listed, filtered or not: an upcoming one wins over every match
  that has started, where the comment says the most recently started one.

## 8. Plan

What is still to come:

1. `MarketApi` over `MarketRoute`: the cache's versions replaced by the payloads
   that a fetch builds.
2. `amount.ts`: parse and format against exact fractions, and their round trip.

## 9. Not modelled

- Error and label texts, the display of scores and odds, the presentation video,
  styling: no state that a property is about.
- `amount.ts` and `token.ts`: conversions without state; the panels' models take
  amounts and balances as numbers.  `decodePosition` is its result in
  `ClaimPanel`.
- `m0-smoke.ts` and `validate-stat-call.ts`: one proof fetched and one read-only
  simulation each, run by hand.  `verify-discovery-pinning.mts` is a test of
  `lib/pari.ts`.
- `txoracle` itself, the SPL token program, the Solana runtime, the score service
  and the wallet adapter: external, modelled by what the code relies on.
- Several markets at once on chain: they share no account that an instruction
  writes.
