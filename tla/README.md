# A verification of the Qlozet backend

Qlozet is a marketplace for ready-made and tailored clothes. Its backend (NestJS,
MongoDB through Mongoose, Bull queues, Paystack for money, Shipbubble for
couriers) runs as several identical instances behind a load balancer
(`fly.toml`), so every request, cron and webhook may run next to any other, on
any instance, and an instance may be stopped at any time.

This directory models the parts of the backend that move money and goods, checks
them with TLC on small instances, and proves the central properties with TLAPS
for instances of any size. All source paths are relative to `src/src/modules/`.

## How the models read the code

- **One `await`, one boundary.** JavaScript runs a handler without interruption
  between two awaits. An action is such a stretch, reduced to those boundaries
  where other calls can make a difference: between a read of a document and the
  write that depends on it.
- **One document, one atom.** A conditional `updateOne`/`findOneAndUpdate` and a
  `$inc` are one atomic action. A `find` followed by a `save` is two.
- **What a Mongoose `save` sends.** Only the paths whose value differs from the
  loaded one. A path that names an array position (`shipments.1.status`) makes
  the write conditional on the loaded `__v`; an array sent whole
  (`markModified`) does so too and increments `__v`; scalars are not guarded.
  `updateOne` neither checks nor changes `__v`. The operators `Written` and
  `Current` of `OrderDocument` say this once for all order handlers.
- **Outside services** (Paystack, the courier, the customer, an instance that
  stops) are actions of their own, marked external in `PROJECT.json`.
- Amounts are small numbers, texts and wording are left out, and formatting,
  notifications and logs are skipped: nothing in the modelled paths reads them.
- Operators that begin with the comment `Mutation:` are plausible wrong versions
  of the definition next to them. No specification uses them; they document
  which slip each property would notice.

## Inventory

| Component | State | Operations and interactions | Hard behaviour | What makes it correct |
|---|---|---|---|---|
| **Vendor earnings** (`business/business.service.ts`, `business/business-earning-cron.ts`, `orders.service.ts` reversal) | `BusinessEarning` documents, `order.earnings_recorded`, the vendor wallet's `pending_balance` and `balance` | recorded by webhook, verify endpoint, wallet checkout, bespoke acceptance, backfill; scheduled by confirmation, delivery, satisfaction, disputes; released by a cron on every instance; reversed by cancellation and rejection | the same cron on many instances, claims that must be reverted when the credit fails, read-modify-write of the wallet, crashes between claim and effect | an earning is recorded once, paid once, in the end, and not after a cancellation; the wallet equals the sum of the earnings |
| **Wallet funding** (`wallets.controller.ts`, `payment.service.ts`, `webhook.service.ts`) | the FUND transaction's `status` and `metadata.funding_credited`, `wallet.balance`, the charge at Paystack | webhook and verify endpoint each may credit | at-least-once delivery, an early answer used late, swallowed errors | a paid charge is credited once, an unpaid one never |
| **Vendor payouts** (`wallets.service.ts` requestWithdrawal, `webhook.service.ts`) | `wallet.balance`, the payout transaction, the transfer at Paystack | debit first, then ask Paystack, restore on error; the outcome comes by webhook; earnings and reversals move the same balance | overlapping withdrawals, lost answers, asynchronous failure | never overdrawn, nothing withdrawn twice, no debit forgotten, a truthful ledger |
| **Order review and shipping** (`orders.service.ts`, `webhook.service.ts`, `products.service.ts` restoreInventory) | the order document with its shipments and items, refunds, stock, labels, parcels | confirm, reject a shipment or item, decline fabric, cancel, auto-reject cron, production report, fulfil, courier webhook | many writers of one document with stale copies, promises nobody awaits, refunds that fail, reordered reports | refunded and restocked once and for a reason, completed only when delivered, the garment after its fabric |
| **Checkout** (`orders.service.ts` createOrder and cancelOrder, `webhook.service.ts` finalizeCheckoutOrder and verifyAndFinalize) | the order's `status`, `payment_status`, `inventory_deducted`, `earnings_recorded`, the stock, the customer's wallet, the transaction, the charge at Paystack | from the wallet: save, deduct stock, debit, mark paid, record earnings, compensation on error; by card: save, open the charge, finalise when the webhook or the verification reports it; cancel with refund and restock | a saga without a transaction, two finalisers at once, half-finished and failed finalisations, a cancellation in between | stock and money move together or not at all, an order by card moves them only when the card was charged, and in the end does |
| **Inventory** (`products.service.ts`) | variant stock and yards | deduct and restore an order in a transaction, called by checkout, finalisation, cancellation, rejection | the last piece, several lines of one item on the same unit | stock never negative, restored iff deducted |
| **Pricing and validation** (`orders.price-calculation.ts`, `orders.validation.ts`) | none | an order's totals from products, variants, discounts and extras | several formulas for the same price | the parts add up to the total |
| **Late penalty** (`orders.service.ts` checkLateFulfillments) | a shipment's `late_penalty_days` and `late_penalty_amount`, the vendor's earnings and wallet | an hourly cron takes a share of the price that grows with the days from unreleased earnings, then from the balance, and gives it to the customer | the claim and the save of a copy are two writes, releases and reversals move the same money, other calls save the shipments whole | each tier is compensated once, the vendor bears exactly that, a late shipment is penalised in the end |
| **Tokens and AI jobs** (`wallets/token.service.ts`, `measurement/*`, `assistant/*`) | the purses' token balances, the wallet, job records, a Bull queue | charge before the job, after it or around a call; run, complete, refund; purchase; a free daily quota | errors between charge and queue, a stopped worker's job run again, keys flushed under a worker | no purse overdrawn, refunds only for charges, a failed job costs nothing, everything charged is settled |
| **Fabric reservation** (`fabric-reservation/*`) | reservations with a deadline, the yards of a fabric | reserve (locks yards, then fails at the order of its fee), claim (fails before it writes), cancel, expire by cron; sales of the same fabric | load and save of stock and reservation by calls that overlap, an error after half of the writes, a stop between two saves | every yard has one owner, an overdue reservation is closed |
| **Bespoke quotes** (`bespoke/*`, `webhook.service.ts`) | design, quotes and their versions, the orders and charges of acceptances | request, draft, submit, revise, expire, cancel; accept by wallet or card, finalised by webhook and verification | a payment beside a revision, an expiry or another payment; shared finalisation; a failure after the debit | accepted means paid, declined for a reason, at a submitted price, with the upfront part scheduled |
| **Returns, disputes** (`returns/*`, `disputes/*`) | their documents, frozen earnings, the payment, refunds, stock | file, answer, decide; request, approve or reject, receive | decisions racing the release cron, each other and the safety-net cron; stale answers | refunded money never paid out, one refund per payment it shows, stock back once, no earning stuck |
| **Discounts** (`products/discount.service.ts`) | discounts with dates, rules and overrides, the products' applied discount and price | create, update, delete, include, exclude, apply, listener of changed products, refresh cron | applications that overlap and write from old copies, cron beside edit, a stop between two writes | the shown price is what an existing discount gives, and dates are followed |
| **Accounts** (`auth/*`, `ums/*`) | one-time codes, refresh tokens, team invitations | register, verify, reset, invite, accept | reuse and expiry of codes | a code works once and in time |
| **Cart, messaging, notifications, tickets, waitlist, platform settings, currency** | one document per user or thread | CRUD | little | little beyond the single write |
| **Catalog, collections, taxonomy, style library, size guide, recommendations, assistant, logistics, uploads** | reference data, vectors, external calls | CRUD and scoring, HTTP clients | numeric or external | outside a state model |

`PROJECT.json` lists them all with their status, and the hazards at their lines.

## Modules

| Module | What it models |
|---|---|
| `Earnings` | one vendor-earnings ledger per set of orders: `recordBusinessEarnings`, scheduling, `releaseFunds`, `autoReleaseStuckEarnings`, `reverseBusinessEarnings` with `reconcileBusinessWallet` |
| `AfterSale` | extends `Earnings`: the calls of `disputes.service.ts` and `returns.service.ts` with freeze, unfreeze, reduction and deletion of earnings, the gateway refund and the stock |
| `LatePenalty` | extends `Earnings`: `checkLateFulfillments` beside the releases, the reversals and the calls that save the shipments whole |
| `EarningsProofs` | about the three: types, recorded once, released once, the wallet equals the ledger, refunds are final, no refund after one the payment shows unless two overlap, stock back once, compensated once, the vendor bears the penalty |
| `WalletFunding` | `handlePaystackWebhook` for charges, the controller's `verifyPayment` and `verifyPaystackPayment` |
| `IdealFunding` | the abstract specification: a paid charge is posted in one step, once |
| `VendorPayout` | `requestWithdrawal`, `debitWallet`, `sendPayout`, `updateStatus`, the transfer webhooks, beside earnings and claw-backs |
| `VendorPayoutProofs` | type correctness, never overdrawn, nothing paid twice, truthful ledger |
| `OrderDocument` | the order document, the state of a call with its copy, Mongoose's save, refunds and stock |
| `OrderReview` | confirm, reject shipment, reject item, declined fabric, cancel, auto-reject |
| `OrderShipping` | production report, fulfilment, the carrier, its webhook |
| `Orders` | both on one document, with crashes, fairness and the properties |
| `OrdersProofs` | type correctness, completed means delivered, fabric before garment, refunded for a reason, given back once |
| `Inventory` | `updateInventory` and `restoreInventory` as operators on the stock, with a reference definition of what an order needs |
| `Checkout` | `createOrder`, `finalizeCheckoutOrder` behind `handlePaystackWebhook` and `verifyAndFinalize`, `cancelOrder`, over `Inventory` |
| `CheckoutProofs` | type correctness, the inductive invariant, the three safety properties that follow; what deducting and restoring an order's items does, and that every unit is accounted for |
| `TokenJobs` | the token purse: `spend`, `refund`, `purchase`, and the eight kinds of features that use it, with the queue's worker |
| `WalletProofs` | about `WalletFunding` and `TokenJobs`: types, nothing unpaid is credited, once with serial deliveries, refinement of `IdealFunding`; purses never overdrawn, refunds for charges, failed jobs are free |
| `Bespoke` | one design with its quotes: `bespoke.service.ts` with `acceptQuote` and both finalisations |
| `BespokeProofs` | type correctness, accepted is paid, declined for a reason, submitted prices |
| `Discounts` | `discount.service.ts`: a vendor's discounts, their application, the listener and the cron |
| `FabricReservation` | `fabric-reservation.service.ts` beside sales of the fabric |
| `Storefront` | `Discounts` and `FabricReservation` side by side |
| `StorefrontProofs` | type correctness, prices follow discounts, every yard accounted for |
| `SumTheorems` | the laws of `SumFunctionOnSet` (of the community module `Functions`) that the equations about money and yards rest on |
| `MC...` | the instances for TLC |

How their state corresponds to the code:

- **Earnings.** `doc[e]` is the `BusinessEarning` of an item's upfront or completion
  part: `held` is `released: false`, a release date is `null`, `later` or `due` (time
  is the action `Elapse`). `rec`, `rel` and `rev` are the local variables of each
  running call: what its `find` returned (`todo`, with the net amount *as read*), the
  document in hand (`cur`), the wallet as loaded. `paid` is the order's
  `payment_status`, which fulfilment and cancellation ask for and confirmation and
  rejection do not; `Pay`, `ConfirmShipment` and `Transit` (a courier's report on one
  shipment) set the order's status whatever it was. `created` and `credited` are
  history. The separate earning of a fabric vendor (`business.service.ts:1522-1573`)
  is left out: it is one more earning of an item, of another vendor than the item's,
  and errors of its creation are only logged. `Legacy` are orders recorded by a
  version without `earnings_recorded`; `Init` chooses which of them exist.
- **AfterSale.** `call[c]` is one call of an endpoint, with what its `find` read;
  `dispute[c]` and `returned[c]` are the documents call `c` created, so a decision
  names the call that opened the case. `payment` is the payment's transaction,
  `deducted` is `inventory_deducted`. `unsaved` counts refunds at Paystack whose
  answer or whose save to the payment was lost, `raced` marks orders two of whose
  refunds overlapped, `refundedAway` earnings a full refund deleted. The earnings themselves
  and their crons are those of `Earnings`.
- **LatePenalty.** `tier` and `amount` are `late_penalty_days` and
  `late_penalty_amount`, `late` the days past the deadline (time is `DayPasses`),
  `version` Mongoose's version of the order. `pen[n]` are the local variables of a
  run: the shipments as it loaded them (`todo`), and of the one in hand the
  increment, what is left of it, the earnings still to visit and the wallet as
  loaded. `copy[r]` is the order as a report or a rejection loaded it. `given`,
  `rewritten` and `mixed` are history: what the customer was given (or recorded as
  owed), the shipments for which an older copy was used, the vendors whose charge
  met other work on the same money. `made` is the mix of calls, runs and failures.
- **WalletFunding.** `hook[h]` holds the webhook's copy of the transaction
  between its load and its `save`; `ver[v]` the early answer of Paystack and the
  document loaded after it. `acked` are the events answered with 200. The state
  starts where `fundWallet` has created the transactions.
- **VendorPayout.** `req[w]` is how far a call of `requestWithdrawal` is; each
  value of it is one await. `CreatedChannel` is what `TransactionService.create`
  stores, which is not what its callers pass. `earned` and `restored` are history.
- **Checkout.** `order[o]` keeps the four fields the handlers read and write;
  `Place` and `DeleteOrder` create and delete the document. `buy[o]`, `call[a]` and
  `cancel[o]` are how far a call of `createOrder`, of a finaliser and of
  `cancelOrder` is, one value per await that another call can notice. `Promise.all`
  is `call[a].todo`: the two parts settle in either order, and when one throws the
  other goes on in the background (`Settle`, `Left`). The deduction and the
  restoration run in a database transaction and are one action each. Both kinds of
  order reach the finalisation, because `TransactionService.create` drops the
  channel it is given (`CreatedChannel`). Recording the earnings is their claim
  only; the ledger behind it is `Earnings`. A finalisation may fail at each of its steps
  (`FinaliseError`), and so may the lookup before it (`HookIgnore`); the webhook
  answers all the same, and `missed` is the history of the parts it failed in.
  `supply` and `taken` are history, too.
- **Orders.** `order` is the document; `call[c].doc` is a call's copy. The calls
  of a run are given by `Call`, `Op` and `Arg`; `Mix` says which of them are made
  together. A cron run that ended may start again. The price is taken apart into
  `Part`s (the goods of an item, the fabric of an item, the fee of a shipment), and
  `refund[p]` counts how often a part was paid back; amounts are left to the
  planned pricing module. `background` are promises the auto-reject starts and does
  not await. `labels[s]` numbers the labels bought, `order.label[s]` is the one the
  document knows, `parcel[s]` is the carrier's truth. `order.deducted` stands for
  `inventory_deducted`, `order.claimed` for `shipments.$.refunded`. The payment has
  succeeded and its transaction has a wallet. `RefundParts` is
  `processPartialRefund`: it refunds, or ends in an error before or after the credit,
  which its callers log (`refundErrors` is the history of such parts). The production
  steps other than
  "ready to ship" change nothing that another handler reads.
- **TokenJobs.** `req[c]` is where a request's handler is, `job[c]` where the worker
  is with the job it queued, `record[c]` the status document the customer polls.
  `Charged1st` are the features charged before their job, `Queued2nd` those charged
  at its end. `again` are jobs the queue handed out a second time, `flushed` those
  whose keys a video request flushed. `struck` and `cut` are history: calls hit by an
  error nobody repairs, and calls whose instance stopped.
- **Bespoke.** `quote[q]` carries Mongoose's version, which guards a save only where
  it replaces the line items. `order[c]` and `charge[c]` are the order and the card
  transaction acceptance `c` made. `expired` are quotes past their seven days.
  `submitted`, `paidFor`, `raced`, `withdrawn` and `lateClaim` are history.
- **Discounts.** `discount[d]` is the document with `phase` for its two dates,
  `wanted` for its rules (the traits of a product they accept; store-wide accepts
  all); `product[p]` keeps base price, trait, `applied_discount` and
  `discounted_price`. `dcall[c]` is the one call of each kind, with the copies it
  read: `doc` of the discounts, `seen` of the products, `todo` the products of its
  loop, `due` the rest of a cron run. `loose` marks products whose price was left
  behind or written from outdated copies, `abandoned` discounts switched off
  without a clearing.
- **FabricReservation.** `stock` is `yard_length`, `reservation[r]` the status of the
  document, `rcall[c]` a call with its copies of both. `ReserveRecord` ends in the error
  that creating the fee's order always raises; `claimFromReservation` fails before it
  writes, so it is no action. `Buy` is an ordinary sale of the fabric.
  `overtaken` records that a call wrote over a change it had not seen or stopped
  between two writes that belong together.

## Runs

| Run | Question | Instance |
|---|---|---|
| `earnings_release` | Is every paid order recorded once and completely, and every scheduled earning paid once, with the wallet in sync? | one order of one vendor, a tailored item split into two earnings and a ready-made one, two recorders, two release runs, credits that fail, the order possibly a legacy one |
| `late_penalty` | Is a customer compensated once per day of delay and the vendor charged exactly that, is every late shipment penalised while the cron looks for its order, and an earning still paid at most once? | one order of two vendors; one's tailored item has earnings of 9 and 1 and a price of 20 and may be two days late, with penalties of 2 and 3, the other's matters only by when it is shipped; eight mixes: two penalty runs; one with the other vendor and a courier; one with a release; one with a courier and a production report or a rejection; one with a reversal; two releases with a reversal; a recording call with a release; a reversal that stops; crashes |
| `funding_serial` | Does a webhook that is delivered again and again implement the ideal, its liveness included? | two charges of different amounts, one handler, declines |
| `funding_faulty` | Can anything unpaid be credited? | one charge, two handlers, two verifications, failed credits, crashes |
| `payout` | Is nothing withdrawn twice, the ledger truthful, every debit sent or restored and every outcome recorded? | two withdrawals of 1 and 2 from a vendor earning 2, one reversal, every fault |
| `orders_cron` | Do two auto-reject runs beside a confirmation, a cancellation beside a vendor's work, and two vendors' rejections give nothing back twice, refund every rejection in the end unless its refund fails, and let the order leave review? | two plain vendors, refunds that fail, one crash |
| `orders_ship` | Is an order completed only when everything arrived, the garment shipped only after its fabric, and nothing refunded revived? | fabric and garment, two vendors, a production report, three courier reports (late, repeated, reordered), a refusing carrier, lost parcels, or the auto-reject or rejections beside it |
| `checkout_saga` | Does every checkout, finalisation and cancellation account for every unit of stock, leave the wallet settled, serve cards only when charged, and serve them in the end unless a webhook met an error? | a coat (price 2; one piece of a size and 3 yards) and a cloth (price 1; 2 yards in two lines); both from a wallet of 2, with stock for both, or the cloth by card, with 4 yards for the two; one webhook handler, one verification, one cancellation; one failure of any kind, of the finalisation included |
| `token_jobs` | Is no purse overdrawn, every refund for a charge, every failed job free, every charge settled? | every kind of feature in mixes of two or three, a customer and a vendor, 1 or 2 tokens, queue, database and upload errors (also after a debit, before it is answered), one stopped instance |
| `after_sale` | Does a refunded earning stay unpaid, a payment go back once, but for refunds it does not show and refunds that overlap, the stock go back once, and every earning end? | one delivered order with its earnings; seven mixes of disputes, answers, decisions, returns and receipts beside the release cron, the safety-net cron and the satisfied customer; failed credits and reverts, refunds whose answer or save is lost |
| `bespoke` | Is a quote accepted only when paid, declined only for a reason, at a submitted price, and its upfront part scheduled? | two tailors' quotes and a repeated request; seven mixes of drafts, submissions, a revision, a cancellation, two finalisers and payments by wallet and card; a wallet that pays both; one failure or stop |
| `storefront` | Do prices follow the discounts that exist and the discounts their dates; has every yard one owner, and is an overdue reservation closed? | one product (two base prices, two traits), two discounts of which either may be the better, nine mixes of calls; one fabric of 5 yards, two reservations of 2, five mixes of reserving calls (each fails half way), cancellations, two crons and two sales; one stop in each |

**Bounds.** `MaxCredits` (2) caps how often a transaction is credited and
`MaxEarned` (2) how many units a vendor earns, so that TLC's state space is finite;
the second credit is the one a property would notice, and the earnings cover one of
the two withdrawals, the case where they compete. `MaxCrashes` (1) bounds
how often an instance stops in the order and token runs, `MaxStops` and `MaxCuts` (1)
the same in `storefront`, and `MaxFailures` (1) how many failures of any kind a
checkout or a bespoke design meets: each of their properties is about what one
failure leaves behind. The other components' crashes are unbounded. A lost reply credits an earning at most twice
(`ReleaseCreditError`). `MaxLate` (2) is one increment after a first penalty, and
the cap meets the second day; `MaxVersion` (1) is one save of the whole shipments,
enough to be loaded before a claim and written after it. Two instances of each cron or handler are enough for every
race found in the code, which is between two calls; the proofs remove the bound
where they exist. Components with many endpoints are run on *mixes*: the initial
state chooses which of the calls are made at all, so that every pair of calls that
write the same document meets in some mix while the state space stays a sum
instead of a product. `CHECK_DEADLOCK FALSE` appears in every configuration because
requests need not be made: a state in which nobody calls is a proper end.

**Fairness.** A handler that runs takes its next step (Node's event loop), a cron
fires again and again, a promise settles, the payout delay elapses: weak fairness.
Strong fairness stands where the environment may interfere infinitely often but
not always: Paystack repeats an event until it is answered (its documented retry),
the database does not fail the same credit for ever, and crashes do not cut off
every delivery of one event, or every run of the penalty cron before it comes to a
shipment (`LateClaim`). A revert of a claim may fail where the run says so
(`"revertError"`); `EventuallyReleased` is checked without, `EventuallyPaidOut` with it
and excepts the earnings forfeited by it. In `Checkout` that is the fairness of `HookLoad` until
the event is in `acked`: the handler answers with 200 even when the finalisation
failed, so nothing is assumed beyond the first answer. Where every call has finitely
many steps (`TokenJobs`, `Bespoke`, `Storefront`) one weak fairness of all working steps
together is enough. No fairness is assumed of requests: vendors and
customers may never act, which is why `ReviewEnds`, `DatesAreFollowed` and
`OverdueIsClosed` depend on the crons alone.

## What is proved

For every value of the constants, with the named assumptions of each module:

- **`EarningsProofs`.** `TypeCorrect`. `RecordsOnce`: `RecordedOnce` is not inductive,
  because nothing in it says that a second call cannot be under way; `ClaimInv` adds
  that a call past its claim has its order's flag set, that at most one call is past
  the claim of an order, and that the documents it still has to create do not exist,
  or that the order is one of `Legacy` and has them all (`Whole`), so that the call
  will do nothing. `Whole` is stable without reversals only: `RecordsOnce` and
  `ReleasesOnce` assume `Legacy = {}` or `Reverser = {}`, and with both the property
  is false (see below). `ReleasesOnce`: `CreditInv` adds that an earning that was
  credited stays released or deleted, that at most one run holds its claim, and that
  it is not credited while it is claimed, so neither a revert nor a reversal can
  re-open it. `ReleasesOnce` needs `"lostReply" \notin Faults`: with a lost reply the
  property is false. `LedgerAgrees`: `LedgerInSync` speaks of moments at which no
  recording and no release is under way. At the others `SumInv` says that each balance
  of a vendor is the sum over all its earnings of what that earning contributes: an
  earning counts in `pending_balance` from the `$inc` that ends its item's recording
  to the credit that takes it out, in `balance` from that credit on. `BookInv` says
  that what a call has read of an earning is what is stored. `NetIsShares` starts the
  induction for orders of `Legacy`: a sum over items of what `NetOf` adds up is the
  sum over their earnings. The theorem excludes what is known to break the equation (a
  reversal saves a wallet it read, a crash, a lost reply or a revert that fails
  separates a document from its `$inc`; see below).
- **`SumTheorems`.** What a sum over a finite set is after one term changes, an index
  is added or taken away, two functions are added or one is bounded by another, or
  the set is made of disjoint parts.
  Induction principles take an operator and cannot be instantiated here; instead each
  law looks at a smallest subset on which it fails (`LeastSubset`, from the
  well-foundedness of inclusion on finite sets).
- **`VendorPayoutProofs`.** `TypeCorrect`; `NoOverdraft` from the conditional
  debit and the clamp; `LedgerTruthful` from `TruthInv`, which says what each
  position of a request, and each event a handler has loaded, implies about the
  transfer. `NothingPaidTwice`: `CoverInv` counts with the wallet every withdrawal that
  is debited and not given back, whether Paystack knows of it or not, so that each step
  of a request moves its amount from one side to the other (while no reversal has begun,
  as the property says).
- **`WalletProofs`.** Of wallet funding: `TypeCorrect`. `CreditsOnlyPaid`: `PaidInv` carries
  the early answer of Paystack through every later step. `CreditsOnce`, for one
  handler without crashes and verifications: `OnceInv` relates the stored flag, the
  handler's copy and the history. `ImplementsIdeal`: from the same invariant, every
  step is a charge, a post or a stutter of `IdealFunding`.
  Of tokens and jobs: `TokenTypeCorrect`; `PursesNeverOverdrawn`, `RefundsAreForCharges`
  and `FailedJobsAreFree` from one invariant `TokenInv`: `Places` says where a request of
  each kind and its job may be at the same time, `Paid` that a call that still owes a
  refund was charged once more than it was refunded, `Returned` that the refund
  precedes the record of the failure.
- **`OrdersProofs`.** `OrderTypeCorrect` with `PlaceInv`, which ties the position of a
  call to its handler and to what it has in hand. `CompletesDelivered` and `FabricFirst`
  from `DeliveryInv`: a shipment marked delivered, in the document and in every copy a
  call holds, has arrived with the carrier, and a call that waits to buy a garment's
  label has seen its fabric arrive. `RefundsAreForRejected` from `RefundInv`: what a call
  or a promise in the background is refunding or restocking is marked in the document or
  will be by a save that the version guard protects. It assumes that an order has one
  garment shipment per vendor (`OneGarment`; `createOrder` makes one) and that no save of
  a whole array runs beside the auto-reject, whose claims do not raise the version
  (`CronApart`; see below for what happens otherwise). `GivesBackOnce` for the three ways
  to give back that `GivesApart` separates: rejections by vendors, the auto-reject of
  plain vendors, a cancellation; `RejectGive`, `CronGive` and `CancelGive` are an
  invariant for each, in the first of which the version guard decides between two
  rejections that loaded the same document. The mixes of `orders_cron` satisfy
  `GivesApart` and those of `orders_ship` `CronApart`; mixes of the three do give back
  twice.
- **`CheckoutProofs`.** `TypeCorrect` for everything but the stock, the wallet's
  balance included. None of `WalletSettled`, `DeletedHoldsNothing` and
  `PaidBeforeGoods` is inductive, because they say nothing of a call half way.
  `CheckoutInvariant` proves their strengthening: `AnsweredInv` (a finaliser's call, a
  charge and a report belong to a call of `createOrder` that is done, so finalisers
  never meet one under way), `WalletInv` (what each position of a wallet checkout
  implies about its debit and its order), `HoldInv` (where an order cannot hold
  stock) and `CardInv` (what a finaliser read of a card order was true and stays
  so). `SettlesWallet`, `DeletesEmpty` and `GoodsArePaid` are its consequences, with
  every fault allowed. The lemmas `LaterSteps`, `CreateLocal` and `CallCard` say
  once what the steps of a kind leave alone.
  The stock: `UnitsAddUp` (every unit is in stock or held by an order that says so, for
  any finite number of orders and whatever their items are) and `AccountsForStock`
  (`StockAccounted`, which adds that no counter is below zero). `StockInv` sums over the
  orders; `StockSteps` says that every step deducts one order, restores one or moves no
  stock. What the two operations do is a matter of folds over lines and items:
  `FoldOver` and `FoldPrefix` turn a fold into a function of how far it is, `Induction`
  follows it, and `DeductIs`, `RestoreIs` and `OrderNeedIs` show that a deduction that
  succeeds takes, and a restoration gives back, what the reference `Need` adds up.
  `AccountsForStock` assumes that no item names a unit of a colour variant in two lines
  (`ColorsOnce`): with such an item the counter does become negative, see below.
- **`EarningsProofs`, after the sale.** `AfterTypeCorrect`. `RefundsAreFinal` and
  `ReleasesOnceAfterSale` (both without a lost reply) extend `CreditInv` of
  `EarningsProofs` by `AwayInv`, no release run has claimed what a refund deleted, and
  `ReadInv`, on what a received return read. `RefundsOnce`: `RefundInv` says that of an
  order without overlapping refunds at most one call is refunding, and that after a
  refund that is not lost between the gateway and the payment (`unsaved`) the payment is
  reversed or about to be, so that no other follows. `RestocksOnce`: the flag
  `inventory_deducted` and the number of restorations determine each other (`StockInv`).
- **`EarningsProofs`, late penalty.** `LateTypeCorrect` with `LatePart`, without which a
  take could exceed what remains of a penalty. `CompensatesOnce`: `CompensatedOnce` is
  not inductive, because a run has promised the customer an amount long before it gives it.
  `AmountInv` says that a tier and an amount go together wherever they are kept (the
  document, a run's copy, a report's or a rejection's copy), so that a higher tier never
  has a lower amount; `GivenInv` that what was given and what runs under way will give
  for a shipment (`InFlight`, summed over the runs, whence the assumption that there are
  finitely many) is at most the amount in the document, as long as no older copy was used.
  `ReleasesOnceLate`: a step of a run changes amounts of earnings and never their
  state (`LateRunKeeps`), every other step is one of `Earnings`, so `CreditInv` carries
  over; `MixInv` says what is known of recording in each kind of mix, all of those of
  `late_penalty` included. `BearsPenalty`: `PenaltyIsBorne` speaks of rest. `BorneInv`
  says for every other moment what the accounts of a vendor are, as long as one call at
  a time works on its money (`VendorInv`): `Account` counts what earnings still
  contribute to the pending balance (`Unpaid`), what a charge took from an earning and
  not yet from the wallet, and what the wallet has paid; `ChargeOk` says what the charge
  knows of the earnings it has not visited and that the wallet it loaded is still that
  one. The claw-back is the hard step: that the balance covers it (`BalanceCovers`)
  follows from an inequality per shipment in `Account`, summed over the vendor's
  shipments (`SumOfSums`), because what is not in the earnings of the shipment any more
  has been released into the balance. Two assumptions, and each is needed, because
  `reconcileBusinessWallet` does not go below zero and what it cannot take is lost:
  no penalty is above what the earnings of its shipment were worth (`Covered`; by
  default a penalty is at most 25 % of the price and the commission 10 %), and no older
  copy of an order was used (`rewritten`), which has the customer given a penalty again.
  Without a lost reply, as for `ReleasesOnce`, and without reverts that fail, because
  an earning claimed for good has left the pending balance in no account.
- **`BespokeProofs`.** `TypeCorrect`. `AcceptsOnlyPaid` and `DeclinesForReason` from
  `PaidInv`, which puts a payment behind every position of a finalisation;
  `OrdersSubmittedPrice` from `PriceInv`, which puts a submission behind the copy an
  acceptance works on.
- **`StorefrontProofs`.** `TypeCorrect`. `PricesFollow`:
  `PriceFollowsDiscount` speaks of moments at which no call runs and is not inductive.
  `PriceInv` says of every other moment that a product's price is settled or some call
  under way owes it a write (`Owes`): an application that has not passed it yet, and
  then works on a copy that carries the discount, or the listener of its own change.
  `Carried` is the common step: what other calls owe, they still owe after a step that
  does not change what the product carries. `YardsAreAccountedFor`: `YardsAccountedFor`
  speaks of rest, too. `YardInv` holds at every step: the stock, what the active
  reservations hold and what the calls account for (yards sold, locked for a reservation
  that is not recorded yet, or given back by a closing whose status is not saved yet)
  come to the supply. `PlaceInv` says where calls are and that a closing one found the
  reservation active, `FreshInv` that the reservation of a reserving call is not there
  yet; `YardInv` and `FreshInv` hold until the first outdated write (`overtaken`). The
  assumption that a reserving call makes a reservation of its own is the model's naming
  of what `new this.reservationModel` creates.

Each theorem of type correctness stands for the module's type invariant in its runs.

Only model-checked: all liveness (`EventuallyRecorded`, `EventuallyReleased`,
`PostsOnce`'s fairness, `PayoutSettles`, `ReviewEnds`, `RejectionIsRefunded`,
`ChargeIsServed`, `EventuallySettled`, `EventuallyPaidOut`, `UpfrontScheduled`,
`DatesAreFollowed`, `OverdueIsClosed`, `LatenessIsPenalised`), which is outside TLAPS's reach.

## Where the code falls short

The following showed up while modelling. The runs avoid it by the mix of calls they
make (each run's instance above says which) or name the exception in the property;
none is hidden by an invented guard.

*Checkout*
- The conditional debit is refused when another checkout of the customer emptied
  the wallet after the balance was read: the error leaves `createOrder` before the
  compensation begins, and the pending order keeps its stock for ever.
- An order by card whose stock is gone when it is finalised is a paid order with
  earnings and without stock (`missed`); the error is swallowed and the event
  answered. If the instance stops then, the earnings may be missing too.
- So is every other error of a finalisation (`webhook.service.ts:202-207`): Paystack
  gets its 200 and does not repeat the event, and the charged order stays unpaid, or
  without earnings or stock, unless the customer verifies it. An error of the lookup
  is answered as an unknown reference (`webhook.service.ts:106-111`). `ChargeIsServed`
  excepts the orders a webhook failed in.
- A finalisation that identifies its order by id, also a repeated one, puts the order
  back to `in_review` whatever it became, cancelled and refunded included, although
  the comment says that a replay must not (`webhook.service.ts:245,283`).
- Orders from the wallet are finalised by the verify endpoint as well, although the
  code means to exempt them: the channel `wallet_checkout` is never stored.
- A cancellation between the two saves of a wallet checkout is overwritten by the
  second; a failure after it refunds a second time.
- A failed checkout deletes its order after the earnings were claimed and perhaps
  partly recorded; they stay.
- An instance that stops inside `createOrder` leaves the debit, the stock or both.
- A `charge.failed` that arrives late overwrites `success`, and `cancelOrder` then
  finds no successful transaction.
- The compensating calls' own errors are only logged; the model lets them succeed.
- Two selections of one size of a colour in one item are compared with the same
  copy of the product (`TakeColors`), so the stock may become negative. The runs'
  items name a size once, and `AccountsForStock` assumes it.

*Earnings*
- A release run claims and credits an earning between the reversal's find and its
  delete by id: the vendor of a cancelled order is paid, and nothing is clawed back,
  although the comment says that both cases are handled
  (`orders.service.ts:1954,1986`).
- `reconcileBusinessWallet` loads and saves the wallet; a release's or a
  recording's `$inc` in between is overwritten. `LedgerInSync` is therefore checked
  without reversals.
- A credit that is applied but whose reply is lost reverts the claim, and the next
  run pays again (`"lostReply"`).
- An order from before `earnings_recorded` whose earnings a cancellation or a rejection
  deleted is recorded again by a later or simultaneous call: nothing shows any more
  that it was recorded.
- A crash after the claim of an earning, or after the claim of an order's
  recording, is never repaired: the flags say that it was done.
- An error of the revert of a claim is swallowed (`business-earning-cron.ts:213`):
  the earning counts as released and is never credited.
- A release run that loaded an earning as due credits it although a dispute froze
  it meanwhile: the claim asks for `released: false` only.

*Late penalty*
- A courier's report on one vendor's shipment sets the whole order in transit
  (`webhook.service.ts:578-588`), and the cron asks only for orders in processing or in
  review (`orders.service.ts:3056`): another vendor of the order that is late is never
  penalised. `LatenessIsPenalised` speaks of orders the cron still looks for.
- The increment comes from the run's copy, and `order.save()` writes the tier and
  amount of that copy over those of a run that was faster by a day: the same days
  are charged again, beyond the cap of `late_penalty_max_percent`.
- A production report or an item rejection that loaded the order before the claim
  and saves afterwards puts the old penalty back (the claim does not raise the
  version), and it is charged again.
- A version conflict at `order.save()` after the claim ends the run: that tier is
  claimed, but neither charged nor compensated, and the orders behind it wait for
  the next run. A stop after the claim has the same effect.
- A release run that loaded an earning before the charge credits its old net amount.
- A run penalises what it loaded: a shipment dispatched or an order cancelled in the
  meantime too. The price counts rejected items of the vendor.
- An error while charging the vendor is caught and the customer is compensated all
  the same; what a vendor has withdrawn already is not recovered.

*Funding and payouts*
- The verify endpoint and the webhook guard the same credit by different fields
  (`wallets.controller.ts:107`, `webhook.service.ts:171`), so a charge that is
  verified and reported is credited twice. `CreditedOnce` is proved without
  verifications.
- A verification asked before the charge went through saves `failed` over a
  `success`, which re-opens the claim for another verification.
- An event whose credit failed is answered with 200, so Paystack does not repeat
  it; only a repetition for another reason heals it.
- A transfer request that times out is restored although Paystack may have accepted
  it (`Lost`).
- `TransactionService.create` drops the channel it is given (`transactions.service.ts:55`),
  so a payout has the default channel. `webhook.service.ts:394` says that a failed
  transfer's funds "must be returned to the vendor — exactly once", but the branch
  that does it is never taken; nor is the one that books `lifetime_paid_out`.

*Orders*
- The last two vendors confirm at once: both saves pass the version guard, each sees
  the other unconfirmed, and the order stays in review.
- A vendor confirms between the auto-reject's load and save: the shipment is both
  confirmed and rejected, its fee and goods refunded.
- Two fulfilment requests for one shipment both pass the claim, which accepts the
  status it sets (`orders.service.ts:3778-3786`), and two labels are bought.
- A rejection overlaps a fulfilment: the label is bought for a failed shipment.
- The last two deliveries are reported at once: neither handler sees the other's,
  and the order is never completed.
- A rejected shipment is never delivered, and completion waits for all shipments.
- A garment whose fabric shipment failed at the courier waits for it for ever.
- A confirmed or webhook-updated order leaves `cancelled` again and can be
  cancelled, and refunded, a second time; two concurrent cancellations both refund.
  `cancelOrder` says it prevents cancelling completed orders and does not.
- Refunds of single shipments or items are not subtracted from a later
  cancellation; the auto-reject does not mark items, so a later cancellation also
  restocks them again.
- Declining fabric refunds and restocks all items of the garment's vendor, those
  rejected earlier included.
- The auto-reject claims the refund, then starts it without awaiting it: an
  instance that stops in between loses it (`RejectionIsRefunded` excepts a crash).
- `processPartialRefund` may end in an error (`orders.service.ts:2692,2737,2785`); it is
  recorded as failed or logged, the rejection goes on, and nobody tries the refund
  again (`refundErrors`, which `RejectionIsRefunded` excepts). When the mark after the
  credit fails, the credit stands. A cancellation whose refund ends in an error stops
  there, perhaps with the money returned, and can be made again.
- The auto-reject of a fabric order refunds the garment's goods with the fabric and
  again with the garment. `orders_cron` has plain vendors.

*Tokens*
- A refund looks up the price again; a price changed meanwhile is refunded in the
  new amount. The balance shown prefers the business's purse while `spend` takes the
  customer's.
- The size prediction takes its tokens before the call and never gives them back,
  although the processor's comment says that it only checks the balance
  (`outfit.processor.ts:10-13`).
- Questions asked at once all count the same conversations, so more than the daily
  quota are free.
- When the record of a debit fails (`token.service.ts:133`), the tokens are spent and the
  feature answers with an error; nothing gives them back (`SpendUnanswered`).
- A call in `struck` or `cut` keeps its tokens without a result, or is refunded
  twice when its job was cut off at the end and run again.

*Disputes and returns*
- The gateway refunds a payment and the answer, or the save of the payment as
  reversed, is lost (`transactions.service.ts:300-320`): the callers swallow the error
  (`disputes.service.ts:327`, `returns.service.ts:261`), and the next refund pays again
  (`unsaved`).
- Two disputes about the same pair can be filed at once; a vendor's answer saved
  after the decision re-opens the dispute, and it can be decided again.
- Two decisions, or a decision and a received return, both refund when the second
  asks before the first has reversed the payment (`raced`).
- A partial refund takes the whole amount from every unreleased earning of the vendor
  and then refunds the whole payment; a full one leaves `pending_balance` as it was.
- The safety-net cron, a rejected return, the customer's satisfaction and a second
  decision schedule earnings another dispute still freezes; a release run claims by
  id without looking at the date again.
- Orders paid from the wallet carry the channel `checkout`, so their refunds are sent
  to Paystack.

*Bespoke*
- A pending order of an earlier attempt is reused with its old total after a
  revision.
- A card payment finished after a wallet payment for another quote is finalised too:
  two accepted quotes and two debits.
- A wallet acceptance that fails after the debit is refunded, but its quote stays
  accepted and the others declined.
- A draft saved late gives a submitted quote a price nobody submitted (`raced`);
  `submitQuote` sets the design to quoted whatever it became; requests made at once
  may exceed the limit of vendors or ask one twice.
- The upfront part is never scheduled when a finaliser that found the order paid
  wins the recording (`lateClaim`), or after a stop between marking and scheduling;
  errors of the acceptance are swallowed.
- The cron looks for pending quotes only: a submitted one expires when somebody
  tries to use it.

*Discounts*
- Switching a discount off leaves its products as they are, and the cron switches it
  on again while its dates last.
- The best discount is not chosen again when one expires or is deleted; an
  application in progress may put a discount back after it was cleared, on a
  product that then carries a discount that is off or gone (`loose`).
- `syncProductWithDiscounts` ignores the manual lists; `includeProduct` applies a
  discount that is off or out of its dates.
- A discount is active when it is made. If a run of the cron does not fall between
  its making and its start, nothing applies it when it starts.
- Changes of dates, `value_type` or `condition_match` alone are not applied, nor is
  any change while the discount is off.
- A stop between switching off and clearing leaves the prices for good (`abandoned`);
  a discount deleted under the cron ends the whole run.

*Fabric reservations*
- `createReservation` never succeeds: it saves the stock and the reservation and then
  creates an order of type `reservation` (`fabric-reservation.service.ts:149`), which the
  schema's enum refuses (`orders.schema.ts:361`). The organizer gets an error; the
  reservation is active, holds its yards until it is cancelled or expires, and has no
  fee.
- `claimFromReservation` never succeeds either, for the same reason
  (`fabric-reservation.service.ts:331`) and because a guest's order has no customer,
  which the schema requires (`orders.schema.ts:336`): it fails before it writes, and
  nothing is ever claimed. What the code would do with claims and fees is not modelled.
- Two closings release yards twice; the stock is saved from a copy, so a sale or
  another reservation in between is undone (`overtaken`).
- A stop between lock and record loses the yards; one between release and status
  releases them again in the next run.

## Plan

The components with a module are done; what is left of the rest, in this order:

1. `Pricing`: the formulas of `orders.price-calculation.ts` as functions, checked
   against each other and against a reference definition over small items.
2. `Collections`, beside `Storefront`: rule-based membership, its listener and cron.
3. `OneTimeCode` for `auth`, `Team` for `ums`, `Cart`, `Messaging`.
4. Theorems to come: that a finalised or cancelled order's steps implement an abstract
   purchase that moves stock, money and earnings together.

## Not modelled

Reference data and CRUD (catalog, collections, taxonomy, style library, size guide,
tickets, waitlist, platform settings, notifications), because one request writes one
document and no other request depends on the order; recommendations, the assistant
and the image models, because they compute numbers or call models; the HTTP clients
of courier, mail and uploads, which appear as environment actions; reports and
lists, which change nothing. Of the modelled components: the totals of an order, the
earning of a fabric vendor beside the tailor's, the claims and fees of reservations, and
`vendor_earnings` with what a penalty takes off it, the
backfill of ledger entries, bank linking (a constant of `VendorPayout`), and the
notifications every handler sends at its end.
