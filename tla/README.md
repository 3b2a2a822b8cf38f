# A TLA+ model of the Salmon wallet backend

This directory holds a formal model of the backend in `src/`: TLA+ modules, the
TLC configurations that check them on small instances, and proofs that TLAPS
checks for every value of the constants. `PROJECT.json` is its index: which
definition stands for which lines, what each run checks, which hazard each
property is for, and the changes to the code ("mutants") that each property is
known to detect.

## 1. The system

The backend is an Express application on AWS Lambda (`serverless.yml`) with a
few scheduled Lambdas (`src/jobs/handler.js`). A request goes through routes,
controllers and services to repositories, providers and Redis. A container
serves one request at a time; many containers share one Redis, the same
upstream providers and, for configuration, one SSM parameter. So concurrency is
between containers, at every `await` on Redis or on the network, and a
container can be killed at any of them.

| Component | State | Operations | Talks to | What makes it correct |
|---|---|---|---|---|
| Provider call, circuit breaker (`infrastructure/providers`, `rate-limiting/with-retry.js`) | Redis keys `:failures`, `:open`, `:probe` per provider and environment; a memory store per container; the call's budget and attempt | `providerCall`, `check`, `recordSuccess`, `recordFailure` | limiter, Redis, upstream | budget and attempts kept, one probe when half-open, the breaker heals, calls end |
| Shared rate limiter (`shared-rate-limiter.js`, `rate-limiter.js`) | Redis hash `tokens`, `ts` with a TTL; one local bucket per container | `acquire`, Lua script, local fallback | Redis | never more than burst + rate, whatever the clocks say; waits fit |
| Sanctions (`sanctions-service.js`, `sanctions-repository.js`, `refreshSanctionsJob`) | Redis sets: the list, the list being filled, the blocked; the time stamp; TRM verdicts | the daily refresh, `isListed` | US Treasury, TRM through the provider call | whole lists only, a listed wallet never cleared, stale lists not trusted |
| Token catalog and single-flight cache (`cache-helper.js`, `token-catalog-service.js`) | Redis: fresh copy, stale copy, lock; a memo per container | `withSingleFlight`, `getSnapshot` | CoinGecko through the provider call | one rebuilder, bounded age, nobody waits for ever |
| Swap build (`services/solana/swap`, `unsigned-transaction-builder.js`) | none of its own: one request against a chain that moves | fee, provider's answers, cleanup, simulation, balance guard | 0x, Jupiter, Solana RPC nodes | what is returned is what was simulated and guarded; the fee is right |
| Availability and powerup gate (`src/availability`, `powerup-gate.js`) | the table a container holds, when it was read and when it was last good | the loader, `decide`, the gate | SSM, sanctions, controllers | no blocked country let in, no unscreened Jupiter build, edits arrive, old tables stop |
| Price and token-list jobs | Redis: whole lists of tokens and prices | `listTokensJob`, `refreshPricesJob` | CoinGecko | no lost update, every token priced in turn |
| Solana transaction history and parsers | the history cache of a container, with loads that are pending; the client's cursor | a page from the enriched tier or the bare one, the local parser, both mappers | Triton, RPC nodes | no transaction lost or shown twice between pages; legs are what the ledger moved |
| Balances | cached extension settings and prices | `getBalance`: accounts, metadata, what is hidden, scaled amounts, prices | RPC, DAS, token catalog, CoinGecko | nothing held is hidden, amount and price each no older than a TTL |
| Bitcoin account (`esplora-client.js` and its services) | the cached first page | the walk over two hosts, the unspent outputs | two Esplora hosts | nothing skipped when a call fails over; outputs can be spent |
| SKR staking, native stake accounts | a share price a day, events per transaction, rewards per account and epoch, all in Redis | the recording job, `getSkrStake`, `listStakeAccounts` | RPC | what a stake earned, day by day, adds up |
| NFT listing and spam score | the stored documents | a page: holdings, metadata, hydration, score | DAS, RPC, document hosts | what the first page of the index reaches is listed, what could not be read is not hidden |
| NFT burn, transfer, lookup tables | none: answers a wallet signs and sends in steps | routing, ownership checks, builders, the table | DAS, RPC, the wallet | what lands is what was asked |
| Analytics ingest | a sink | validate, date, send in chunks | GA4 or a file | counted honestly |
| CoinGecko service, price cache | short and long copies | cached reads with fallback | provider call | modelled where the others use it |
| Rate-limit middleware | a counter per client and window | count | Redis | fails open |
| HTTP surface, static catalogs, connector, logging | none that matters here | wiring and mapping | | |

The components that are not modelled, or only in part, are listed with the
reason in `PROJECT.json` ("components").

How they interact in the model: the token bucket appears inside `ProviderClient`
as the waits it may ask for (`Waits`), which `SharedRateLimiter` justifies
(`ProviderAccess` has both, for the runs); the
sanctions answer appears inside `PowerupGate` as "cleared or not", which
`Sanctions` justifies; the provider call appears inside `Sanctions`,
`CatalogCache` and `SwapBuild` as an answer, a failure, and the time it took,
which `ProviderClient`'s budget properties justify. `PowerupGate` decides the
provider that `SwapBuild` starts from. The services that answer a wallet read the
chain, an index and the store; `WalletServices` composes them. None reads what
another keeps, so a behaviour follows one of them, and in each a provider's call
is an answer or a failure. `TransactionHistory` is about which transactions are
on which page, `LedgerTransactions` about what is shown of one: the two filters
are the sets `Spam` and `Housekeeping` in the first, and decided of a
transaction's legs in the second.

### What is hard here

The full list, at the line where each bites, is `PROJECT.json` ("hazards"):
checks and acts on Redis that are separate commands (breaker, sanctions, cache,
locks), containers killed between two of them, Redis failing in the middle,
clocks that disagree, keys that expire at the wrong moment, budgets that waits
and retries eat, reads of a chain that moves between them, tables that cannot be
refreshed; pages whose cursor was taken before the list moved, answers kept too
early or for the wrong reader, several failing lookups behind one reply, and
balances of which one number holds a transfer, a rent and a fee.

## 2. The modules

Every module has one action per step of the code between two `await`s. A
definition named as in the code is that function; `map` in `PROJECT.json` gives
the lines.

### ProviderClient

Slots of `Calls` run `providerCall` in `Containers`. `pc` is the next await:
the breaker's commands (`getOpen`, `getFailures`, `setProbe`, `incr`, `pExpire`,
`setOpen`, `delProbe`, `del`), the limiter, the upstream, the backoff. `left` is
`remainingMs`, in ticks, and may pass zero as it may in the code. A store is
Redis or a container's memory; `StoreFails` restarts the running operation on
memory (`withStore`). `Crash` drops a call anywhere. Modes are `request` (with a
deadline), `noWait`, and `job` (no deadline: the default budget counts anew).

Abstractions: an upstream answer is ok, an outage (network, timeout, 5xx), a 429
or a caller error; a tick is long against a Redis round trip; `:failures`
saturates at the threshold (only comparisons with it matter); a lost command is
modelled, a lost reply is not; `Cooldown > Budget + 1`, as 30 s is to 25 s.

### SharedRateLimiter and RateContract

Tokens are counted in units (`One` to a token) so that a tick refills `Refill`
units; the Lua script is one action, `TryShared`, as Redis runs it. A container
passes a clock between the true time and `Spread` ahead of it. When Redis fails
the container uses its own bucket, whose clock may step back. That bucket is asked twice by the code, each time
by a clock of its own (`tryConsume`, `getTokenCount`): a tick that begins between
the two may fill it, and the call then passes, its wait being 0, without a token,
though `tryAcquire` says that 0 is a token consumed. The model has the second
reading at most a tick after the first; the rate is that of the tokens given out.
`RateContract` is the promise: what has `passed` never exceeds burst + rate times
`time`. `Contract == INSTANCE RateContract WITH time <- now, passed <- granted`
is the refinement mapping; the run checks `Contract!Spec` (`ImplementsContract`)
and TLAPS proves it.

### Sanctions

The refresh job and the check, one Redis command a step. `applied`, `liveAge`
and `held` are history: the download the last rename was meant to install, the
true age of the live list, and the lists that held the address of a check from
its first command to its last. A failure or a kill (`JobFails`) can hit the job
anywhere. `Overlap` says whether two invocations may run at once.

### CatalogCache

Redis copies are a TTL left and the age of the data; the lock is its TTL left.
Each slot of `Callers` is a container with a memo. `source` is what CoinGecko
answered, one copy per source (token list, coin ids, ranks), which
`coingecko-service.js` keeps for a day of its own; a snapshot is as old as its
oldest part (`built`). `Aged` is time passing over all of them. Any Redis
command may fail and a container may be killed anywhere, leaving its lock behind
(`MaxFaults` of both). A fetch takes any time the request budget leaves
(`Tick`'s guard), which is `ProviderClient`'s `WithinBudget`.

Abstractions: the answers of one build arrive, and are saved, together; in the
code a late one may still be saved after another has failed the build. What the
catalog contains is only its age.

### PriceJobs

`listTokensJob` and `refreshPricesJob` over the two documents they share,
`list` and `prices`, maps from coins to stamps and to entries of a stamp and a price; a
stamp is the number of the refresh that set it, a price the number of the refresh
whose answer had it, or 0 where the entry's `price` is undefined: of a batch an
answer prices those coins that it has (`Answers`), and every coin gets its entry. Every Redis command and request is a step; a job holds
its copy of the list (`tokens`) between them. `storeInCache` and `getFromCache`
swallow Redis errors, so a lost write is a step that changes nothing and a lost
read is a missing document. `vain` and `waits` are history: coins whose prices
an error or an expiry took, and how often a coin was passed over.

Abstractions: one instance of each job at a time; of coins with equal stamps the
batch takes any, where the code takes the list's order; of a price, its amount
is left out.

### SwapBuild

One build. The environment moves between its awaits: a fee account is created,
another transaction of the taker lands, and each read reaches a node up to one
slot behind (`NodeSlots`). An answer of a provider is what the code's decisions
tell apart: which route, whether it fits a transaction, whether it is valid,
what it takes. The returned compute-unit limit, priority fees and decoding of
instructions are left out; RPC reads are outside the request's budget, as in the
code, so that a read which throws ends the build (`ReadThrows`).

### PowerupGate

`current`, `sinceFetch` and `sinceGood` are the loader's closure; `parameter` is
SSM's document; `reply` is what a read took from it before it was answered. Two
requests of one container may interleave, as they do in local runs and as the
code's own comment on `fetchedAt` foresees; a Lambda container serves one at a
time, a special case. A document is a function from capabilities to rows, with
defaults and platform overrides as in `rowsFor`; validation and decision are
translated in full, over sets of countries. A text that does not parse, or a
missing parameter, is the empty document: both keep the last good table.

### TransactionHistory

Clients (`Readers`) walk the list of one account page by page, in one container:
`Request` finds the first page in the cache, waits for a load that is `pending`,
or loads; a deeper page starts behind its `token`. Each call is a step
(`singleCall`, `signatures`, `batch`; `rpcSignatures`, `rpcTransactions`), and
`CallFails` is each catch of the code: the enriched tier falls back to the bare
one, or the request ends, and those that wait for it fail with it. Transactions
land (`Land`), entries lapse (`SecondPasses`) and are evicted at the cap. A page of two
tiers is one record: what it lists, what was read for it, what the batch had no
answer for, the cursor.

### TransactionParser, TransactionLegs, LedgerTransactions

`TransactionParser` is `parser/`: transfers, account changes, hints, type and
source of a `jsonParsed` transaction. `TransactionLegs` is what a wallet is shown,
by the mapper for parsed transactions (`TransformTransaction`) and the one for
bare ones (`BuildResource`), and the two filters of the history.
`LedgerTransactions` is what they are measured against: the chain, as far as they
read it, executing one instruction after another with lamports, token accounts,
rent and fee; `moves` is history, what each instruction moved between whom. Every
state is a transaction that could end there, with each wallet as its reader.

Only the programs the type and source rules tell apart are there, one source of
each band of the priority list. A memo is a text or none. Names, logos and
prices of the reply and the compressed-NFT lookups are left out.

Of the chain the modules assume (`LedgerAssumption`, `StartAssumption`,
`InstructionAssumption`) that every instruction has the fields its program and op
call for, that wallets are no token accounts, that the address of an associated
token account is derived from its owner and its mint, and that two rents stay
below the side-leg minimum. A token's owner signs for it: delegates are left out.
An account may be given to another owner at any moment (`SetOwner`), and that is
where the mappers part: the parsed one goes by the last owner a balance list
names and the owners at the end. So `LegsExact` and `HiddenLosesNothing` are
stated of the parsed mapper while no account that held something is in other
hands after (`KeptInHand`), and `CounterpartyTrue` for assets none of whose
accounts changed hands (`Handed`); of the bare mapper `LegsExact` has no exception.

### SkrStaking and StakeAccounts

`SkrStaking`: the daily job and the first request of a day record the share
price; a request reads positions, price, records, signatures and events in turn
while payouts and stakes go on. `ExactHistory` is the walk back over the points
of records and events, as sums over the points in their order: what is held up to a
point is the shares of today less every later change, and a row is the segments
that its record closes; `Earned` is what the payouts gave (`rises` is history).
The cached events of a transaction keep who asked first, as the key of the code
does not. Left out: amounts that are being unstaked, `stakedSince`, APY, the
price in dollars, the liquid staking token and pools.

`StakeAccounts`: the two lists by authority, the epoch, and the rewards epoch by
epoch with their cache, against a cluster that activates, deactivates, and
distributes an epoch's rewards some time after its end. An account takes one epoch
or, when the whole cluster moves more stake than the warm-up rate allows, any
number of them (`NewEpoch`'s `slow`), earning on the active part meanwhile; the
code works its state out of the two epochs alone and has it done after one
(`stake-account-service.js:85-88` says so of a large stake). So `StakesAsOnChain`
says what the state shown is worth: the cluster's, or that of a change already
begun shown as done, never the reverse; and a stake withdrawn in the epoch it was
delegated in, which the cluster drops at once, is shown as leaving until the
epoch's end. The parts of an account that are active and not are left out.

### NftListing and NftActions

`NftListing`: one page, from the index and the Token-2022 program, cut, named,
hydrated one document at a time from store or host, and scored. A text is the
class of what `nft-spam-detector.js` finds in it; `FetchOffchainMetadata` fails
for each document on its own, and a failure is kept like an answer. Of the index
the code asks for the first page of 1000 and no other (`DasLimit`, `FirstPage`):
what is past it is on no page of the wallet, and what the index still lists of
burnt NFTs takes up its room. `HoldingsShown` is about what that page reaches or
the Token-2022 program holds.

`NftActions`: the index's description, which may be out of date about the owner,
picks the builder; each builder reads, or does not read, who holds the asset; the
answer is one transaction, or a table's creation, its extensions and the burn.
The wallet (external) lands them in turn while the asset may change hands
(`HandOver`). Left out: compute budgets, priority fees, blockhash expiry, the
slot a table is derived from, and closing it, which the code never does.

A list that the code filters is one selected by its places (`Selections`), whose
lemmas (`Selected`) say which entries it has and in which order.

### AnalyticsIngest

From the request to the reply, with both sinks, a request of the sink a step. A
prop is a key and the class of its value. The function may be stopped anywhere
and the client then sends the same batch again.

### BitcoinAccount

Transactions of the address are numbered as they are mined. A page takes calls
until it is long enough; each starts at the first host and moves to the next on
an outage. The hosts' first answers differ in length; a first answer holds at
least a chain page of mined transactions and the hosts agree on the chain, which
the module assumes; of the chain it assumes that an output is spent once, by a
later transaction, for what it is worth (`ChainAssumption`). The balance, one
answer mapped, is left out.

### Balances

`getBalance` for the tokens of a wallet. An issuer may change a mint's multiplier
at once or for later (`SetMultiplier`), and the market quotes the unit that is
shown. Extension settings and quotes are cached; metadata, settings and prices
fail on their own, so that an amount may be of a new multiplier and its price of
the old one, or the reverse, until both entries lapse: the code has no repair for
it. `BalanceAsHeld` therefore has each half come of a setting, and a price, of less
than a TTL before the request, and the value exact where one multiplier was in
force all that time. Whole amounts and multipliers stand for decimal ones, so that
divisions are exact. The native SOL line and interest-bearing mints are left out.

### ProviderAccess, Admission, WalletServices

`ProviderAccess` and `Admission` put two modules side by side that one run checks:
the client with its breaker and the limiter it waits for; the gate and the
screening it asks. Each behaviour follows one of the two (`part`, `side`), the
other stands still: they share no state, and what one knows of the other is an
answer (a wait; cleared or not).

`WalletServices` is the composition of the modules from `LedgerTransactions` to `Balances`:
`service` says which of them a behaviour follows, and the rest stand still, which
is sound as they share no state.

## 3. What the runs show

Each passing run exhausts its instance. "mutants" in `PROJECT.json` gives for
every property a plausible bug of the code that TLC then catches.

| Run | Shows | Bounds and why they suffice |
|---|---|---|
| `provider_access`, the client | `WithinBudget`, `BoundedAttempts`, `ReopensThroughOneProbe` (an open circuit ends in the half-open state, and there one probe is out) | two calls in two containers, threshold 2, budget 2, two attempts: a pair of calls is what the breaker's races need, and both can be probe, failure and success in turn |
| the limiter | `RatesKept` (the shared and the local rate), `ImplementsContract` | a burst of one token, half a token a tick, skew 1, key TTL just enough for `TtlCoversRefill`; four ticks let the key expire; two Redis failures |
| `provider_client_live` | `EveryCallEnds`, `HealsByItself`, with a store failure and a kill | threshold and cooldown 1, background calls, which have no deadline to end them |
| `admission`, the gate | `BlockedStaysBlocked`, `TableKeptUp` (an old table stops at the ceiling, an edit arrives within a TTL), `JupiterOnlyScreened` | two requests, an embargoed, a not-offered, a Jupiter-prohibited and an open country, two capabilities and platforms; five documents: strict, switched off, opened by an override, leaking, empty |
| the screening | `ReplacedAtomically`, `ClearedOnFreshList`, `ListedNeverCleared`, `NoSilentShrink` | four addresses, chunks of two (a list takes two SADDs), every subset as a download; refreshes follow one another without bound, with one check beside them |
| `powerup_gate_failure` | violation, below | those of the gate |
| `catalog_cache` | `OneRebuilder`, `StaleBehindFresh`, `ServedAgeBounded`, `EveryCallEnds` | two containers, two sources, a Redis error or a kill; TTLs keep the order memo < fresh < stale and the lock outlives a budget, as 30 s does 25 s |
| `catalog_terms` | violation, below | no fault at all; a source and a fresh copy live for 5 ticks |
| `price_jobs` | `RotationBound`, `StampsBacked` | three coins, batches of two, so that a batch can be short, full, or split a tie; four answered refreshes, one more than a coin can be passed over; a Redis error or a kill; answers for all the coins, some, or none; lives of two hours, so that either document can expire alone |
| `price_jobs_unpriced` | violation, below | the same |
| `swap_build` | `ReturnedAsSimulated`, `GuardCatchesExcess`, `ShownFeeExact`, `FeeSideRight`, `RetriesOnlyHelp`, `EveryBuildEnds` | ticks of 5 s: budget 5, retry floor 3, calls up to 2; all three Jupiter answers; three slots, so that a landing can precede, follow, or fall between the two reads; amounts 7, 20, 21 at 30 % exercise both roundings |
| `history_paging` | `WalkExact`, `LoaderOncePerWindow`, `EveryWalkEnds` | two clients and two queries over a cache of one entry, so that they share a load or evict each other; a page of one and a page cut to the batch of two; one transaction there and one, spam, that lands; a failed call or a transaction left out; a list opened anew |
| `wallet_services` | one property for each service, next table | |
| `balance_value` | violation, below | the same |

Deadlock is checked in every run except `history_paging`, `wallet_services` and
`balance_value`, whose clients stop asking when the bounds are used up. The
limiter's true time stops at `MaxNow` with callers asleep, which `OutOfTime` tells
from a deadlock.

| Service in `wallet_services` | Property | Bounds and why they suffice |
|---|---|---|
| transactions | `LegsExact`, `CounterpartyTrue`, `HiddenLosesNothing` | every sequence of up to three out of 25 instructions, paid by either wallet: three allow an account opened, used and closed, or transfers that net out; the amounts lie on both sides of the side-leg minimum and of two rents |
| SKR | `CalmHistoryExact` | two owners with a stake each, one asking; two days of two ticks, one payout, one transaction that may touch both, one read that fails: a stake between two records, and between two reads, on either side of a payout |
| native stake | `StakesAsOnChain` | one account listed under both authorities, rewards of two epochs, six epochs: a delegation can run its whole course, and take two epochs for either half of it |
| NFT listing | `HoldingsShown` | every combination of name, document, collection and metadata for one NFT, or with a Token-2022 one; or three where the index's first page takes two; a page of two, two pages, two of one name count as duplicates |
| NFT actions | `TableAsBuilt`, `BuiltDoesWhatWasAsked` | every kind of asset, two people, two handovers, so that it may come back; three addresses in chunks of two |
| events | `BatchAccounted` | batches over the cap of four and over the two of a request, with each reason to refuse; two sends; days of two hours |
| Bitcoin | `AddressAsOnChain` | seven transactions with every sort of input and output, four mined at the start; hosts whose first answers hold four and two; sizes that are raised, kept and defaulted; two failures, a list opened anew |
| balances | `BalanceAsHeld` | five mints: one that scales in two accounts, one of its program that does not, one not verified, one empty, one unknown; one change of the multiplier, two requests, one failure, batches of one |

Fairness. Safety runs use none. `ProviderClient` and `CatalogCache` assume that
time does not stop (`[]<><<Tick>>_vars`) and that a call whose await has settled
goes on (`WF` of each slot's steps): Node runs every settled continuation, and
each request to Redis or an upstream carries a timeout or ends in an error.
`SwapBuild` assumes only that the build goes on, and `TransactionHistory` that
each client asks for its next page and its request goes on (`WF` of
`Attend(r)`); nothing is assumed of entries that lapse or transactions that land. Nothing is assumed of what
Redis or a provider answers, nor that an operator or another call ever helps.
`HealsByItself` has a premise instead: from some time on no attempt counts as an
outage and the count carries its expiry.

### Where the code and its documentation disagree

* `catalog_terms`. `coingecko-service.js:42` has cached data refreshed at least
  every 24 hours, and `token-catalog-service.js:4` speaks of a 24 h snapshot. A
  snapshot is joined from answers that are cached for 24 hours themselves: when
  one source fails the others stay cached, and the build that succeeds a day
  later takes them for another day. What holds is `ServedAgeBounded`.
* `powerup_gate_failure`. `availability-table.js:13-15` says that a failure
  never opens a country. The built-in table is no stricter than every valid
  document: a country that only the parameter blocks is let in by a container
  whose first read fails, or past the ceiling. What does hold, whatever fails,
  is `BlockedStaysBlocked` for the countries in the code's own lists.
* `price_jobs_unpriced`. `jobs/handler.js:183-185` says that only the tokens the
  API returned data for are stamped. `getPrices` (253-256) gives every token of the
  batch an entry, its price undefined where the answer has none, so that the whole
  batch is merged and stamped (190-197), and an old price gives way to none. What
  holds is `StampsBacked`: behind every stamp is an entry as new, and no entry
  shows a price older than its stamp. And the rotation needs it: were such a
  coin not stamped it would head every batch (`RotationBound`).
* `balance_value`. `token-ui-amount-service.js:13-18` says that `amount` is the unit
  of every price calculation and the multiplier display-only. `usd-balance.js:23-25`
  multiplies the scaled amount; its own header (7-14) gives the reason, that the
  market quotes the scaled unit, so that it is the former comment which is out of
  date. What holds is `BalanceAsHeld`.

### Seen while modelling

Each of these shaped a premise or an exception of a property; none of them is a
run of its own.

* `circuit-breaker.js:11` calls `:probe` the single half-open probe. A call that
  read `:open` before another's failure set it may still take the probe after
  that failure deleted the key, with an earlier probe out: the property is stated
  for the circuit while it is half-open.
* `sanctions-repository.js:8-9` says the list is replaced atomically. Two
  refreshes at once share the key they fill; the properties and the proofs are
  stated for refreshes that follow one another (`~Overlap`).
* Three Redis errors in one refresh (the list not read, not read again by
  `prepareTokens`, and not saved) make it go on with coins that have no stamp and
  price the ones it priced last (`jobs/handler.js:65-71`). `RotationBound` counts
  from such a read, as from a new coin. The run has too few faults for it; the
  proof, for any number, found it.
* `wallet-delta.js:94` has the mapper of bare transactions read "the same net
  change" as the other. When an account with a balance is given to another owner,
  `parser/index.js:324` leaves one entry, of the last owner and with no change, so
  the enriched history shows neither owner anything, and the bare one a whole
  balance sent and received. `LegsExact` asks the former only while accounts stay
  in one hand (`KeptInHand`).
* The events of a transaction that touches two SKR owners are kept under its
  signature, filtered by the owner who asked first (`skr-staking-service.js:271`):
  `CalmHistoryExact` leaves out reads that borrowed such an entry.
* A stake that the warm-up rate stretches over several epochs is shown as active,
  or as inactive, after one (`stake-account-service.js:85-88`), and one withdrawn
  in the epoch it was delegated in as `deactivating` when the cluster has already
  let it go: the exceptions of `StakesAsOnChain` on the state.
* A null reward is kept like a reward (`stake-account-service.js:209`): asked for
  too early it is missing for as long as the answer is kept, its exception on
  rewards.
* `dasGetAssetsByOwner` (`triton-provider.js:117-137`) reads one page of the index:
  NFTs past the first 1000 it lists are shown nowhere, and no error says so.
* The guard on a shrinking list compares with the live one
  (`jobs/handler.js:299-304`): a series of downloads, each a little smaller, passes
  it, and `NoSilentShrink` is about one replacement.
* An error of the index inside a 200 reads as an empty list
  (`triton-provider.js:82`), and a Token-2022 NFT that the index names too is
  listed twice: with the first page, the exceptions of `HoldingsShown`. Attributes too large to
  store count as none, so that an NFT with nothing else scores as barebones.
* The burn of a print reads no holder: `BuiltDoesWhatWasAsked` has as its one
  exception a print burnt by someone the index takes for its owner, or knows no
  owner of.
* `bitcoin-transaction-resource.js:31` says the fee is shown only when the
  address paid it; the code shows it when the address has an output of its own.
  A transaction that spends several own outputs has no direction (`unknown`).
* `usd-balance.js:12-17` says raw amounts and displayed prices are never crossed;
  where the lookup of the settings fails, `solana-balance-provider.js:152` serves
  the raw amount and its price. `BalanceAsHeld` is stated for the mints whose
  setting was had. An outage of CoinGecko fails the whole balance.
* The bare mapper may name the wallet itself as the other side, so
  `CounterpartyTrue` is stated of the enriched one. An unchecked transfer of one
  unit of a token without decimals reads as an NFT. Accounts that a program
  emptied may count as closed token accounts; what is hidden for it cost the
  wallet nothing (`HiddenLosesNothing`).
* The events function may run for 15 seconds and each request to Google for 5,
  one after another: a batch of several chunks can be stopped midway and sent
  again, and what landed is then there twice, once for each send.

## 4. What is proved

TLAPS checks these for every value of the constants that meets the modules'
ASSUMEs. Each is an inductive invariant `IInv` with `Init => IInv` and
`IInv /\ [Next]_vars => IInv'`, one step of the proof per action. A theorem that
needs more than the ASSUMEs states it as a hypothesis, named here.

* `ProviderClientProofs`: `TypeCorrect`, `BudgetKept`, `AttemptsBounded`,
  `CountOutlivesOpen`, `OneProbeReopens`. The budget is not inductive as it
  stands: `BudgetAt` bounds `left` and the running timer by place, because the
  limiter's wait, the attempt's timeout and the backoff are each cut to what was
  left when they began. `CountOutlivesOpen` holds with store failures and kills:
  `CountKept` follows the two writes of `recordFailure`, so that a count at the
  threshold beside `:open` has no expiry yet or a longer one. `OneProbeReopens`
  supposes `ShortCalls`: no store failure, no kill, no background call, and a
  budget shorter than the cooldown (25 s, `request-deadline.js:18`, against 30 s,
  `profiles.js:14`). Beyond that a probe may outlive its key, which lives a
  cooldown, and be joined by a second.
* `SharedRateLimiterProofs`: `RateLimited`, `LimiterImplementsContract`, both
  from `TtlCoversRefill`. The strengthening is a credit: what was granted plus
  what the bucket holds never exceeds burst plus what time up to `ts` earned;
  when the key is gone, enough time has passed to have filled it. The second
  theorem maps each step to a grant the contract allows, or to a stutter. For the
  local bucket the credit follows both of its refills.
* `CachesProofs`, of the catalog: `TypeCorrect`, `SingleFlight`, `StaleBacksFresh`,
  `AgeBounded`, for any containers, sources and lives with
  `LockTtl > Budget + 1`. The strengthening ties each place of a call to the time
  it has spent (`CallAt`), so that the lock of a holder outlasts it (`LockHeld`),
  and every copy's age to its life used up (`AgesBounded`). Of the transaction
  history, for any clients, queries, cap and life:
  * `WalksAreExact`. `WalksInv` says of every page under way that what it has read
    and what was missing reach, without a gap, from where the page was asked to
    end down to its cursor (`Spans`), of a page shown or cached that it tells all
    of that (`Sound`), and of the pages of a walk that they cover everything from
    the first one's tip to the last cursor, in order (`Walked`). The cursor set
    before the filters is what carries it: `EnhancedSound`.
  * `LoadedOncePerWindow`. `LoadsInv`: what a load stored has lapsed, or has made
    way for as many other queries as the cache holds, or stands in the cache with
    nothing behind it but what was stored since (`Kept`). So the entry that the
    cap evicts, the first, has had the whole cache renewed behind it; and a
    query that is loading is not in the cache.
* `PriceJobsProofs`: `TypeCorrect`, `EveryStampBacked`, `RotationKept`. Each copy
  of the list anyone holds is backed by the entries of the prices, each with the
  price of its stamp or none (`Backs`), no stamp is from the
  future (`AllPast`), and from the answer to the save the refresh's own prices
  back all that those in Redis do (`MergedBacks`), so that the save can only
  improve them. For the rotation, `Rotates` gives every coin the set of those
  asked for since its own turn: in each copy of the list that may yet be saved
  they have newer stamps (`Behind`), so no batch takes one of them before it, and
  every refresh adds a whole batch to the set, but for one that took the last
  coins never priced (`OneMoreWait`). The set leaves out the coin itself, which
  bounds its wait.
* `AdmissionProofs`, of the gate: `BlockedForEveryDocument`, `EveryJupiterBuildScreened`,
  `TableIsKeptUp`. The invariant is that the table held is valid and that each
  admitted request meets its lists. The lemma that carries it, `RowsAreValid`, is
  that validating a capability's rows and each override covers every platform;
  `DefaultIsValid` shows the built-in table passes its own validation for any
  lists. Here the run's five documents become every document. For the third,
  `KeptUp` follows how old the table in memory, and the read under way, may be.
  Of screening: `ListReplacedWhole`, `ClearedOnlyWhenFresh`, `ScreeningSound`,
  `ShrinkGuarded`, from `~Overlap`. With one invocation at a time, `:next` is
  exactly the part of its list already added; each place of a check knows what it
  has established of the lists.
* `SwapBuildProofs`: `TypeCorrect`, `SignedAsSimulated`, `ExcessCaught`,
  `FeeShownExact`, `FeeSideFirst`, `BestAnswerChosen`. `IInv` says of each place
  of a build what its answer, its simulation and its account reads are worth
  there (`SimulatedTrue`, `Guarded`). `FeeShownExact` holds for every
  amount with a fee of at most a half (`2 * Ppm <= Million`); `feeConfig` bounds
  `SWAP_FEE_BPS` nowhere, the documentation uses 50 bps, and above a half the
  estimate can be lower by more than one unit.
* `WalletServicesProofs`, about the composed services:
  * `TableHolds`, `DoesWhatWasAsked`, for any addresses, chunk size, people and
    handovers. `TableInv` says how much of the table has landed after each step,
    `OrderInv` what was read of the asset when a transaction was built. The length
    a step expects of the table is a sum over the chunks before it, so the module
    starts with lemmas on `SumFunctionOnSet` (see below).
  * `StakesShown`, for any accounts and epochs. `StakesInv` keeps, for what a
    request has read and what is in the rewards cache, what the cluster's own
    delegation says of that epoch (`StandsIn`, `EarnedBy`), a change it is slow with
    included.
  * `BalanceShown`, for any mints, multipliers, lives and batch size. `BalanceInv`
    gives every setting or quote that a cache or a request holds a moment, less
    than a life before the request, at which it was the issuer's last (`LastAt`,
    `ReadLately`); `SameSetting` and `SameStage` show that two such moments find
    the same multiplier when one was in force throughout, and `WorthDivided` that
    the product is then exact. A price is one of a moment within a TTL whatever
    the issuer did.
  * `WhatIsHeldIsShown`, for any holdings, limit of the index, page size and thresholds. `NftInv` says
    of what a request holds which NFT of the wallet each entry stands for, and
    that what was read of it is its own or nothing. `ListedRight` counts a mint
    in the joined list, `ScoreGrows` shows that reasons only add to a score, and
    `NoNewReason` that what could not be read gives none.
  * `EachAnswerHonest`, for any batches and limits. `IngestInv` holds, while a
    batch is delivered, that its events are either landed by this send or in one
    place of one request still to send (`Parts`); `CutsAre` shows that requests
    cut a list without loss or overlap, and `HourOfDay` that the hour of a day's
    start is that start.
  * `WalkAddsUp`, for any chain, hosts, page sizes and blocks. `BtcInv` says that
    what a request has read goes down without a gap from where its pages ended
    (`ReadOn`), and that a page goes on where it ended or has come to the first
    transaction (`GoesOn`): a short chunk is the end (`ChunkIs`). The legs of a
    transaction add up to the outputs they name (`DecoratedWorth`), and, by least
    counterexample over the chain, what all of them brought less what they took is
    what is unspent (`NetAddsUp`).
* `WalletHistoryProofs`, with the former's lemmas on sums.

  `LegsShownExact`, `CounterpartyIsTrue`, `HiddenCostsNothing`, for any ledger,
  wallets, instructions and length of a transaction. `LedgerInv` has five parts.
  `LamportsTrue` and `TokensTrue`: what an account holds, less what it held, is
  what the instructions moved, the fee apart; each action changes a sum over token
  accounts in one place or two (`SumAtOne`, `SumAtTwo`). `HomesTrue`: an account is
  whose it was first (`HomeOf`: at the start, or by the instruction that opened it)
  or changed hands. `MovesTrue`: every transfer instruction has its movement between
  the homes of its accounts. From the first two, `DeltaTrue` and `RpcDeltaTrue` show
  that both mappers' net change is `Gained`. From the others, `AccountMapIs` shows
  that the parser finds an account's home by its balance rows or by the instruction
  that opens it, `NativeMoved` and `TokenMoved` that each transfer it lists was one,
  and `HeaviestIsKept` that the choice by weight is out of those that fit.

  `HistoryRowsExact` (`CalmHistoryExact`), for any owners, positions, payouts,
  stakes and days. A history relates one list to another that it never sees: the
  owner's stakes and the day's prices to the payouts. Three things carry it.
  `Balanced`: at every moment the payouts gave a position what its shares are worth
  less what was paid for them (`HeldAfter`, `PaidFor`, `Given`: sums over the
  program's transactions and payouts). `ReadingsTrue`: every price that is recorded,
  or read and still to be recorded, was the price after some n transactions
  (`ReadAfter`), so that `Balanced` holds of it too, whatever happened since.
  `RequestTrue` and `KeptAsRead`: the shares of a request are those after the
  transactions it saw, and its events, with those still to be read, are all of the
  owner's since its first record (`EventsTrue`), unless one was missing or came out
  of another owner's entry. Of the points alone: the segments between two records
  fall apart into those that each record closes (`ClosedParts`), and a segment earns
  what the worth beyond the payments grows by (`GainedStep`), so that the rows add
  up to the difference of that worth at the two records (`SumTelescopes`,
  `RowsAddUp`); at a record no stake is near, it is what the payouts had given
  (`RecordGain`). `ExactFromInv` puts the two halves together. The clause on calm
  reads is needed in `ExactFromInv` (shares and events of one state of the chain),
  the one on quiet records in `RecordGain`. Amounts are multiples of
  `SHARE_PRICE_SCALE`: the code's division drops less than one base unit of SKR for
  each segment, which neither the run nor the theorem counts.

Induction over data is done by least counterexample: a set of naturals that is
not empty has a least element (`LeastOf`, from the library's `WFMin`), so that the
first cardinality at which a sum misbehaves cannot exist. `SumExists` ..
`SumRenamed` give what sums over a finite set are in this way.

`LocalRateKept` and `SleepFits` of the limiter (`RateLimited`) and
`StampNeverFlatters` of `Sanctions` are proved with the rest and repeated by no
run.

Only model-checked: the liveness properties (fairness and ENABLED are out of the
prover's reach). Every invariant that a passing run checks has its theorem.

## 5. Plan

Done: the door to every provider, the limiter under it, screening, the cache over
it, the swap, the gate, the price jobs; then the services that answer a wallet.
What is left, in order:

1. An abstract specification of the history, "a walk is the list as it was at
   some moment, without what the filters hide", refined by `TransactionHistory`.
2. A composition of `PowerupGate`, `Sanctions` and `SwapBuild`: no build without
   a cleared wallet in an open country, from one request to its reply.
3. `getCachedOrFetch`'s two tiers of market data; the powerup registry.

## 6. Not modelled, and why

Formatting, HTTP details, logging and metrics (no property depends on them);
static catalogs; the instruction-level checks of swap answers, which stand as one
validity flag; the contents of the token catalog; the response signature of 0x (a
digest of one answer); dapp, scam and logo services (cached fetches, their logic
is parsing of URLs and pages); the memo powerup; market charts and exchange rates
(read-through copies); the rate-limit middleware (one atomic counter);
`AVAILABILITY_TABLE_JSON` and other local-only switches; `BREAKER_DISABLED`.

## 7. Running it

    tlasany PowerupGate.tla
    tlc -workers 2 -config MCAdmission.cfg MCAdmission
    tlapm AdmissionProofs.tla
