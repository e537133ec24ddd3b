# A TLA+ model of scoutwyze-compute

scoutwyze-compute is a Fastify server that ranks GPU offers, quotes them, books
them at a vendor and is paid for each of these calls, with prepaid credit or with
USDC per request. This directory holds TLA+ modules translated from its source,
TLC configurations that check them on small instances, and TLAPS proofs of what
matters most. Paths below such as `billing/creditLedger.ts` are under
`src/src/`; line numbers are in PROJECT.json.

What is worth modelling here is money, waiting and forgetting: two payment rails,
remote calls awaited in the middle of a handler, a cache that must not serve
what it no longer knows, and a process that the host restarts at any time.

## 1. Inventory

| Part | State it keeps | Operations | Talks to | What is hard | What makes it correct |
|---|---|---|---|---|---|
| Credit ledger `billing/creditLedger.ts` | tables accounts, ledger_entries | topUp, charge | called by every paying route and by the webhook | crashes between transactions, rounding | balance follows from the entries, never negative |
| Stripe intake `api/routes/stripeWebhook.ts`, `payments/stripeWebhook.ts`, `payments/processedEvents.ts` | table processed_payment_events | webhook | Stripe (at least once), ledger | duplicates, lost answers, a crash between recording and crediting | each payment credited at most once, and only a failure loses one |
| Checkout, sign-up `api/routes/signup.ts`, `payments/stripeCheckout.ts` | none of its own | open a session, issue a key | Stripe, key store | the account id is passed through a third party; a session whose link is lost | what is paid for arrives at the account it was bought for |
| Keys and admin `billing/apiKeyStore.ts`, `api/routes/admin.ts` | table api_keys | create, revoke, top up | bearer routes | revocation while a request is waiting; two inserts without a transaction | a revoked key buys nothing new, a key has its account |
| Bearer rail `api/middleware/auth.ts`, `api/routes/{quote,rank,book}.ts` | a handler's locals | charge, answer, dispatch | ledger, cache, vendor | the await of the vendor in the middle of book | ledger and answers agree, pods are accounted for |
| Vendor bookers `engine/vendorBooker.ts` | none; the vendor has the pods | book | RunPod | an answer lost after the pod exists | no pod without payer and notice |
| x402 rail `api/middleware/{auth,x402}.ts`, `payments/{baseVerification,payAiFacilitator}.ts` | processed_payment_events, signed receipts | verify, settle, confirm, record, reuse a receipt | PayAI, Base RPC | three awaits, a facilitator that may lie, replay | no grant without an executed transfer, none twice; an executed payment is never called wrong |
| Ingestion `ingestion/{worker,cache}.ts` | cache entries, timer, in-flight flag | cycle, fetch per adapter, read | provider feeds; read by every answer | slow, hanging, failing feeds; overlap | fresh data only, and it keeps coming |
| Adapters `providers/*.ts` | none | row to fact | feeds | rows without price or specs | prices positive, nothing unusable offered |
| Ranking `engine/rankedScoring.ts` | none | filterAndScore | cache | ties, equal prices, weights | complete, and in an order no offer can complain about |
| Quotes `engine/{router,costCalculator,riskScorer,constraintFilter}.ts` | none | buildRouteQuoteResponse | cache | rounding against a limit | limits kept, cheapest first, bad feeds named |
| Sample and its limiter `api/routes/sample.ts`, `api/middleware/rateLimiter.ts` | a counter per address | allow | ranking | window borders; one address for all behind a proxy | a rate that holds over any stretch; refused only for traffic of one's own address |
| Outreach runner `admin/outreachRunner.ts`, `admin/agentLog.ts` | in-flight guard, table agent_log | trigger, the child's error and close | a child process | error and close for one child; a trigger that throws | runs kept apart, the end of each in the feed, the guard freed |
| Start and migration `index.ts`, `db/connection.ts` | columns of request_log | open the database, add a column | before the worker | a start that dies between two ALTERs | the server comes up again, and only complete |
| Telemetry, admin console, public pages, SDKs, MCP server, scripts | statistics or nothing | - | - | - | not part of the decisions above |

**How the parts interact.** Node runs one handler at a time and switches only at an
await; better-sqlite3 is synchronous, so every `db.transaction` is one step, and all
or nothing. The ledger is shared by intake, the bearer routes and the operator; the
events table by both payment rails; the cache is written by the worker and read by
every route. Five remote parties are awaited or call in: Stripe, RunPod, PayAI, a
Base RPC node, provider feeds.

## 2. Modules

| Module | Models | State to code |
|---|---|---|
| `CreditLedger` | the ledger, as a library of actions | `accounts`, `balance`, `ledger` are the two tables; `TopUp`, `Charge`, `EnsureAccount` the transactions |
| `StripeIntake` | checkout, Stripe and the webhook, over the ledger | `processed` is the events table; `handling` marks the point between `recordIfNew` and `topUp`; `stripe` is Stripe's queue |
| `PaymentIntake` | the abstract promise of intake | `credited`, `funds` |
| `PaidAccess` | the abstract promise of the x402 rail: sell for a transfer, repeat for a while | `purchases`, `repeated` |
| `BearerRoutes` | quote, rank, book and the admin routes, over the ledger | `phase` is where a handler is; `vendor` the vendor's own state; `offer` the local that survives the await |
| `PrepaidAccess` | the abstract promise of the bearer rail: pay once, at a price it may have, with credit that is there; deliver only what was paid for | `funds`, `paid`, `delivered` |
| `X402Payment` | verifyX402Payment, PayAI, chain | `phase` names the three awaits; `start` is `now`; `tx`, `auth` are locals; `processed` the events table; `mined` the chain |
| `Ingestion` | start, migration, worker and cache | `columns` is the file's request_log, `missing` what PRAGMA showed this process; `entry` is `IngestionCache.state`, `timer` the interval, `fetches` the adapter calls of `Promise.all` |
| `RateLimiter` | FixedWindowRateLimiter and its key | `hits` is the map, `AddressOf` the `request.ip` a caller is seen under |
| `Ranking` | the adapters, filterAndScore, quotes | `cache` is what `getStates` returns, each list of facts a function on the rows an adapter kept; `answer` one response with its request |
| `OutreachRunner` | OutreachRunner and its agent log | `running` is the guard; `run` says where each triggered child is; `agentLog` counts the rows of each kind per run id |
| `CreditLedgerProofs`, `StripeIntakeProofs`, `BearerRoutesProofs`, `X402PaymentProofs`, `IngestionProofs`, `RateLimiterProofs`, `RankingProofs`, `OutreachRunnerProofs` | theorems | |
| `MC...` | the constants of the instances TLC checks | |

`StripeIntake` and `BearerRoutes` both EXTEND `CreditLedger`, so the code of the
ledger is translated once and its lemmas are proved once. An operator whose comment
begins "A bug that ..." is not part of any specification: it is a plausible mistake in
the definition below it, kept to show which property notices it.

**Where the atomic steps are.** A handler without await is one action, or two when it
holds two transactions between which the process can die: intake is `RecordEvent`
then `TopUpEvent`. Two statements outside a transaction can be cut between as well:
`CreateKeyCut` inserts the account row alone, and `AddColumn` is one ALTER. Checkout is two
actions around its await of Stripe. Quote is charged in a preHandler and answered in the
handler, two actions. Every route parses the body before it
looks at the key, so an invalid one is refused for free (`RefuseBody`). Book is two, before
and after the vendor; x402 has four, around its three awaits. A commit and the answer that
follows it in the same handler are one action for the callers, and a second action has the
process die between the two: `CutAfterCharge` for a rank and a booking, `CrashAfterRecord`
for a payment whose transaction is used up and whose receipt nobody gets. A charge that
throws is a 500 on all three routes (`ChargeThrows`). A crash drops what is in flight and
keeps the tables; the cache and the limiter start empty.

**Remote parties** are as hostile as the code has to expect and no more. Stripe may
create a session whose link is lost, and delivers again even after a 200. RunPod may create a pod and lose the answer. PayAI may
name any transaction as the settlement; the chain is believed, executes an
authorization at most once and only inside its window; anyone who holds the signed
authorization may broadcast it. A feed may fail, hang up to fetch's own limit, or
answer late.

**Lists.** The adapters and filters keep rows of a list; the model keeps their places, so
that a candidate is a place in the cache (`AllFacts`), and two equal rows are two
candidates. Only what is sorted or answered is a sequence: `Sorted` is the sequence of a
finite set in a strict total order, which for `Array.sort`, being stable, is the code's
comparison with ties broken by place.

**Data.** Money is integer cents, and mills where a caller passes dollars, because that
is where `toCents` rounds. Regions are sequences of name parts, so that the prefix
test of the code is the prefix test of the model. A transaction is named by the one
authorization it executes, hence two transfers in one transaction are not modelled, nor
two spellings of one hash, which the code compares as the raw strings PayAI sends. In
`Ranking` prices are tenths of a cent, since feeds quote such prices and the quote engine
rounds them away; a request's GPU is matched by equality where the code looks for a
substring in any case, and its region by name parts where the code looks at characters.
The server's clock does not step back. Scores are scaled to whole numbers. Reason
texts, headers and the bodies sent to vendors are left out.

## 3. Runs

| Run | Question | Properties |
|---|---|---|
| `stripe_intake` | Do retries, lost answers, crashes and failed transactions credit a payment once? | `TypeOK`, `LedgerSound`, `AckedIsRecorded`, `CreditsAtMostOnce`, `LostOnlyByFailure`, `PaidIsCreditedOrLost` |
| `stripe_loss` | Is a duplicate always a payment already credited? (no) | `DuplicateWasCredited` |
| `bearer_routes` | Does the ledger say what the callers were told? | `TypeOK`, `SellsForCredit`, `BillingMatchesAnswers`, `PodsAccountedFor`, `KeyHasAccount`, `RevokedKeySpendsNothingNew`, `InFlightEnds` |
| `bearer_unpaid_pod` | Is every unpaid pod reported? (no) | `UnpaidPodIsSurfaced` |
| `x402_payment` | Is every grant paid on chain, replay limited to overlap, and no payer whose transfer was executed told it paid wrongly? | `TypeOK`, `GrantIsPaid`, `OnlyAcceptableMoneyMoves`, `DoubleGrantNeedsOverlap`, `ExecutedTransferIsAccepted`, `EveryRequestEnds`, `SellsForTransfers` |
| `x402_double_grant` | Is one transaction granted once? (no) | `OneGrantPerTransaction` |
| `ingestion` | Does the server come up complete, is only fresh data served, and does it keep coming? | `TypeOK`, `ServedFactsAreFresh`, `ReadyBeforeListening`, `HealthyDataAgeIsBounded`, `FactsNeverGoBack`, `HealthyFeedIsServedAgain`, `EventuallyListens` |
| `ingestion_stale` | Does a healthy feed stay servable beside a hanging one? (no) | `HealthyFeedStaysServable` |
| `rate_limiter` | What does a fixed window bound? | `TypeOK`, `RateIsBounded`, `LimitedOnlyByItsAddress` |
| `outreach_runner` | Does the guard keep runs apart, and come down when scripts end? | `TypeOK`, `OverlapIsBounded`, `FeedTellsTheEnd`, `GuardComesDown` |
| `ranking` | Are rankings and quotes right? | `TypeOK`, `RankingIsComplete`, `NothingAboveABetterOffer`, `PreferenceIsHonoured`, `NothingFromABadFeed`, `QuotesKeepTheLimit` |
| `ranking_availability` | Is what is ranked available? (no) | `RankedIsAvailable` |

Every property of a run that passes has a mutant in PROJECT.json: a one-line mistake in the modelled
code under which TLC finds the property violated.

**Bounds, and why they are enough.**

- *stripe_intake*: two payments into one account and an event of another type, so that
  credits to one balance interleave; a second account that must stay untouched; ages
  -301, 0 and 301 around the tolerance of 300 seconds; two faults, because a loss needs
  one and a fault during the retry after it another.
- *bearer_routes*: one account with two keys; a quote, a rank, and two bookings of equal
  hash under different keys, so that they run at once and one key is revoked while the
  other waits; a quote with an invalid body, which must stay free. The top-ups, 4 mills and 110 mills, are an amount that rounds to nothing
  and one that pays for some of the requests and not all. One fault, which may be a crash, a
  crash between a charge and its answer, a throwing charge or a cut-short key.
- *x402_payment*: three requests, two of one hash; a good authorization and one that
  pays too little; four points in time with a receipt TTL of one, so that receipts are
  used, expire, and authorizations run out; one crash. A double grant needs two
  requests, the third comes after them. There is one payer: with a second one's authorization
  the states become too many to enumerate, so that PayAI naming somebody else's transfer is covered by the
  theorem `X402GrantIsPaid` only. CHECK_DEADLOCK is off: once the clock is at its
  bound and every request is done, the model has nothing left to do.
- *ingestion*: units of 30 seconds; interval 2, TTL 6 as configured; fetch gives up after
  10, the 300 seconds of Node's own fetch. One remote feed and two files, as wired in
  `index.ts`. Ages beyond 13 (`MaxAge`) are not told apart; that is more than the TTL, and more
  than a call's limit and an interval together, so no property sees the difference. The
  database file starts without either column; a crash may come between any two steps.
- *rate_limiter*: three callers, two of them behind one proxy and one with an address of its
  own, two requests in a window of three units, seven points in time: a window, its border
  and the next; restarts at any time.
- *ranking*: five RunPod catalogues (empty, all rejected, one row, a sold-out row before
  one in stock, a row that appears twice around a free one); two fixtures, each with a
  row to drop (Lambda's for being unavailable, which CoreWeave's adapter does not look
  at, and one that does not parse); facts aged 0
  or 3 minutes, 3 being the cache's TTL; RunPod and Lambda bookable, as in
  `tests/integration/book.route.test.ts`, CoreWeave not; requests whose limits fall on,
  below and between the prices. Two prices have tenths of a cent, and two limits lie between
  an offer's cost before and after the last rounding, one above the rounded cost, one below.
- *outreach_runner*: four triggers: a failed start, the run started between its error and
  its close, the run its close lets in beside that one, and one that is refused. The
  theorems hold for any finite number.

**Fairness, and why the code justifies it.** The host restarts a dead process (weak
fairness of `Restart` and `OpenDatabase`). A handler that has started is run on by the event
loop (`TopUpEvent`, `AnswerQuote`, `BookReturns`, `AddColumn`, `Start`, `EndCycle`, the timer). A remote call
without answer is ended by fetch, whose failure is always one of the outcomes
(`RemoteFails`, `Unconfirmed`, `VendorAnswerLost`, `FetchFails` at the limit); no answer is
assumed to come. That a call ends is thereby an assumption and not a result: the liveness
properties of the two rails would not notice a call that hangs for ever. Node
reports the end of a child (`Report`). That the outreach script ends is not assumed, as its calls
of `gh` have no timeout; `GuardComesDown` is stated for the case that it does. Stripe retries until it gets a 200 and no longer: strong fairness of the two ways to deal
with a verified delivery of a pending event (`Retried`), since other requests and crashes
disable it in between. Time goes on
(`Tick`) in `Ingestion` only, where nothing is possible without it. Nothing is assumed
of customers, operators, PayAI, the chain or the vendor.

## 4. What the code does that its text denies

1. **A payment can be lost** (`stripe_loss`, code bug). `recordIfNew` and `topUp` are two
   transactions. If the process dies between them, or the second throws, Stripe's retry
   is answered `duplicate_ignored`, "Real retry of an event we already credited", and
   the customer never gets the credit. `LostOnlyByFailure` shows this is the only way;
   proved beside it, for any number of payments: no more are lost than failures were
   seen (`IntakeLossIsBounded`), and without one the comment is true
   (`IntakeDuplicateIsExplained`).
2. **One transaction can pay for two requests** (`x402_double_grant`, code bug).
   `isProcessed` is read before the await of the chain, `recordIfNew` runs after it and
   its result is not used. `DoubleGrantNeedsOverlap` shows that the two must overlap.
3. **A pod can run unpaid and unreported** (`bearer_unpaid_pod`). A lost answer, or a
   crash while waiting, leaves a pod the caller was told was declined; the comment in
   `book.ts` calls an insufficient balance the one remaining edge case.
4. **A hanging feed takes the healthy ones down with it** (`ingestion_stale`).
   `Promise.all` and the overlap guard hold up every poll until it is over, and 300
   seconds exceed the TTL of 180. `HealthyDataAgeIsBounded`, proved as `IngestionHealthyAge`,
   says how bad it gets: data of a healthy feed is never older than a call's limit and one
   interval, 360 seconds, so an outage lasts three minutes at most. It also says what would
   cure it: calls given up after the TTL less the interval, 120 seconds.
5. **A trigger can throw with no run in flight**, against the comment on
   `OutreachRunner.trigger`: the guard is set before the log and `spawn`, either of which
   may throw, and then stays set until a restart. `GuardComesDown` states this exception
   and `RunnerGuardIsHeld` proves that it is the only one besides a script that goes on for
   ever; it has no run of its own.
6. **Availability is not filtered on ingestion** (`ranking_availability`). The RunPod
   adapter keeps rows with availability "none", which `filterAndScore` says cannot reach
   it.
7. **The sample's limit is per connection address**, not "per minute per IP"
   (`api/routes/sample.ts:54`, `tests/integration/sample.route.test.ts:47`): the key is
   `request.ip`, `index.ts:102` sets no `trustProxy`, and `fly.toml` has Fly's proxy in front, so
   callers share a count. `LimitedOnlyByItsAddress` claims no more than that. It has no run of
   its own, as how Fly connects to the machine is not in the repository. A restart
   forgets all counts, so `RateIsBounded` is about one life of the process.

## 5. Proofs

`tlapm` checks these for every set of accounts, events and hashes, any amounts and any
number of failures; the only assumptions are the named ASSUMEs of the modules
(`NoHash` is not a hash, `NoEvent` not an event, an event's cents are an integer, prices and
times are numbers, a catalogue is a sequence of rows with whole tenths of a cent, no fact is read past
the TTL, the runs to trigger are finitely many).

- `LedgerIsSound`: any sequence of top-ups and charges leaves a ledger in which each
  entry's balance is the one before moved by its own amount, the account row agrees
  with the last entry, and nothing was ever below zero. `LedgerSound` is inductive
  together with the type invariant; the one real step is `PostSound`, since both
  operations end in the same write.
- `LedgerAddsUp`, `BearerAddsUp`: in a sound ledger the balance is the sum of the top-ups
  less that of the charges, and at no entry had more been spent than added. The sums are
  running sums over the entries (`RunningSum`, which exist: `RunningSumExists`). This is
  an induction over the entries, done by a least counterexample: `LeastNat` takes it from
  the well-foundedness of < on the naturals, so no induction theorem is needed that takes
  an operator.
- `IntakeTypeOK`, `IntakeLedgerSound`, `IntakeAckedIsRecorded`: invariants of intake.
  They are not inductive by themselves. The missing part is `HandlingInv`: the event
  between its two transactions is one to act on, is recorded, and is not yet credited.
  That every step of intake is a ledger step (`IntakeLedgerStep`) brings in the first
  theorem.
- `IntakeLostOnlyByFailure`: the action property, from the same invariant: of the steps
  that clear `handling`, the one that is not a fault adds to `credited`, and the others
  lose the one event that was being handled.
- `IntakeLossIsBounded`, `IntakeDuplicateIsExplained`: so there are no more lost payments
  than faults, and what is answered as a duplicate is credited or lost. Since a duplicate
  is answered only for a recorded event that is not being handled (`DuplicateInv`), the
  comment that finding 1 refutes holds while nothing fails.
- `IntakeCreditsMatchTopUps`: the credited payments of an account and its top-up entries
  are in bijection, and the amounts agree. `PostRows` says what one more entry does to the
  entries of a kind, and `AddPair` extends a bijection by a pair.
- `IntakeImplementsPromise`: intake implements `PaymentIntake`, with events for payments
  and `balance` for `funds`. `TopUpEvent` maps to `Credit`, `Spend` to `Spend`, all else
  stutters; `HandlingInv` gives "not credited before", `ToCentsOfCents` that what Stripe
  charged is what is added, through dollars and back.
- `BearerLedgerSound`, `BearerPodsAccountedFor`, `BearerRevokedKey`: every step of the
  routes is a step of the ledger (`StepLedger`; `PriceNat` for the price of a booking),
  so the ledger's theorem carries over. `PodsAccountedFor` needs `DispatchInv`: the
  vendor was asked only for a booking that waits for it or has got one of the six
  answers that may follow. `BearerRevokedKey` is an action property that needs no more
  than the types: whatever is billed looked its key up in the same step, or was waiting.
- `X402GrantIsPaid`, `X402OnlyAcceptableMoneyMoves`, `X402DoubleGrantNeedsOverlap`,
  `X402ReuseWasPaid`: from one inductive invariant, which adds to these `LocalsInv` (what
  is in flight passed the server's own checks, and started in the past), `OverlapInv`
  (the overlap, from the moment a transaction is found unused, where `GrantIsPaid` says
  that nobody was granted it so far) and `ReceiptInv` (a receipt names a granted request
  and runs out a TTL after its start). `ReuseWasPaid` is proved only: what TLC would add
  to it is in the run's `SellsForTransfers`.
- `RunnerOverlapIsBounded`, `RunnerFeedTellsTheEnd`: for any finite set of triggers, at
  most one run more than the guard says is in flight for every failed start. The guard
  is a boolean that does not know its holder: a child that could not be started reports
  `error`, which lets the next run start, and then `close`, which releases the guard
  that run holds. Inductive is `IInv`: the type invariant, the bound itself (each step
  changes both sides by at most one element: `StepOverlap`), and `FeedMatches`, which
  says for each run what the log holds of it in the state it is in (`LoggedEntries`
  counts one INSERT).
- `RunnerGuardIsHeld`: while the guard is set there is a child whose end clears it, or a
  trigger that threw after setting it.

- `BearerBillingMatches`: under each hash the billed requests of an account and its charges
  are in bijection, each charge of what its request is due. A bijection says this without
  sums, and tells two requests of one hash apart from one charged twice. It is inductive
  with `RequestInv` (where a handler is tells what it has said: only a quote is charged
  before it is answered, only a booking waits, for an offer it has).
- `BearerImplementsPromise`: the routes implement `PrepaidAccess`. A charge maps to
  `Sell`, with or without the delivery (`CutAfterCharge` is a sale that is never delivered); a
  quote's answer to `Deliver`; an operator's top-up to `Add`; awaits, refusals, revocations and crashes stutter.
- `BookingPrice`, `BearerBookingsFollowTheAsk`: for any hours, rate and margin, rounding to
  cents moves the vendor's cost by half a cent at most and the price by half a cent more.
  The price is never below the cost as entered, yet that may be 0.4 cents below what the
  vendor asks (0.1 hours at 14 cents is entered as 1 cent). `Follows` therefore compares the
  charge in the ledger with the ask itself: at most 0.4 cents below it, not below it at all
  once the margin is a cent or so, with the default 15 percent from 6.4 cents up, and off the
  ask and margin by the two roundings only.
- `BearerTypeOK`, `BearerKeyHasAccount`: from the same invariant as the other theorems of
  the routes; the account row is inserted first, whatever cuts the creation short.
- `X402TypeOK`, `X402ExecutedTransferIsAccepted`: a request that waits for the chain has an
  authorization that `InBounds` let through (`LocalsInv`), and what it paid is what it
  signed, so `Mismatch` is not enabled for its own transfer.
- `X402Implements`: the rail implements `PaidAccess`. `Grant` maps to `Buy` (`OverlapInv`
  gives the condition on a transfer sold before), `ReuseReceipt` to `Repeat`
  (`ReceiptInv`), `Mine` to `Execute`, `Tick` to `Wait`; all else, crashes included, also the
  one that leaves a recorded transaction behind (`CrashAfterRecord`), stutters. It needs that the chain executes nothing unsigned (`MinedInv`).
- `IngestionTypeOK`, `IngestionServesFresh`, `IngestionReady`, `IngestionFactsNeverGoBack`:
  inductive with `ProcessInv` (what runs in which state of the server), `FileInv` (what
  this process will add is what the file lacks), `WarmInv` (in the first cycle a feed not
  yet tried has an open call), `DatedInv` (the cache's date is the date of the request) and
  `OrderInv` (one open call to a feed, begun after the cached facts were asked for).
- `IngestionServesGoodFeeds`: facts are served only of a feed that is ok, and no older than
  the TTL, which is what `Ranking` takes for granted of its cache.
- `IngestionHealthyAge`: `HealthyDataAgeIsBounded` for any limit and interval, with no
  assumption on how they relate to the TTL. Its invariant adds the age a healthy feed's facts
  and the timer, or the open calls, can have together.
- `LimiterTypeOK`, `LimiterRate`, `LimiterFair`: (k + 1) times the limit of grants take at
  least k windows, for any k, limit and window. The counter forgets the windows before the
  current one, so the invariant is about the history of grants since the start: there is a set of grants
  that opened a window, two of which are a window apart, and no full limit of grants in a
  row goes without one (`OpenedInv`). `Spread` then counts windows along the stretch,
  again by a least counterexample.
- `RankingTypeOK`, `RankingComplete`, `RankingNothingAboveABetterOffer`,
  `RankingPreferenceIsHonoured`, `RankingNothingFromABadFeed`, `RankingQuotesKeepTheLimit`:
  whatever rows the feeds hold. An answer is a function of the cache it is given from
  (`AnswerInv`), and the cache holds typed facts of feeds that are ok (`CacheInv`); the
  work is in the algorithms. `SortedIsBijection`: sorting lists each element of a finite set
  once, and one before another exactly if the order says so. `StableOrder`: comparing score,
  price, age and place is a strict total order. `ScoreDominates` and `ScoreBoundsThePrice`:
  the arithmetic of the weights, over any price range. `RoundedIsNear`: what the last rounding
  of a cost can do to a limit. Completeness, with the status that goes with it, then is a bijection
  from the places an answer lists a fact at to its copies in the cache.

Only model-checked is what is liveness: `PaidIsCreditedOrLost`, `InFlightEnds`,
`EveryRequestEnds`, `GuardComesDown`, `HealthyFeedIsServedAgain` and `EventuallyListens`.
Liveness under fairness is out of the prover's reach. Every invariant and every action
property of a passing run is a theorem, as are the three refinements. `LedgerSound` is
proved of the routes too; there TLC checks it of intake only, the routes' run having the
stronger `SellsForCredit`, `BillingMatchesAnswers` and the types.

## 6. Not modelled

- *Telemetry, admin console, public and discovery pages*: written or shown, never read
  back into a decision.
- *SDK, MCP server, scripts*: clients of the routes; of the outreach script only how it ends.
- *The Lambda bookers*: `index.ts` never registers them. The request body sent to RunPod
  is not modelled either.
- *Whether a caller who was charged on chain and then refused is ever made whole* (PayAI's
  answer lost, the node out of reach or behind): the code does not try. What is stated is
  that such a caller is told of a failure to look and never that it paid wrongly
  (`ExecutedTransferIsAccepted`).
- *Floating point*: scores are scaled to whole numbers, so ties that rounding of doubles
  makes or breaks are not told apart.

## 7. Plan

Done, in this order: ledger, intake with its promise, bearer routes and x402, each with its
promise, start and ingestion, limiter, ranking and quotes, the outreach runner; proofs for each.

1. Ranking over the live cache: a composition of `Ingestion` and `Ranking`, in which ages
   come from the worker and not from `Ages`. What the one promises the other is proved
   (`IngestionServesGoodFeeds`); the composition would show it on one state.
