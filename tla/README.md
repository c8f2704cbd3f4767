# Ekmool in TLA+

TLA+ models, TLC runs and TLAPS proofs kept beside the Ekmool storefront: a Next.js shop (`apps/web`), an Expo
app (`apps/mobile`), the packages they share (`packages/*`), and a MySQL 8 (InnoDB) database. Paths are relative
to the repository; `W` stands for `apps/web/src`.

- [The system](#the-system) · [Modules and how they correspond to the code](#modules)
- [Runs, bounds, fairness](#runs) · [What is proved](#proofs)
- [Where code and documents disagree](#disagreements) · [What is not modelled](#left-out) · [Plan](#plan)

`PROJECT.json` lists components, runs, mutants, the source lines of each definition, findings, hazards and theorems.

<a name="the-system"></a>
## The system

Several stateless server processes answer HTTP requests; everything that lasts is in MySQL, so requests interact
through rows and row locks. The database is the only arbiter: there is no queue, no leader, no cross-request
memory except the rate limiter and page caches. Beside the servers run a browser (which keeps a cart and an outbox),
a phone app, a payment provider that calls back, a mail provider, and one or more schedulers.

| part | code | state | operations | correct when |
|---|---|---|---|---|
| checkout | `W/app/api/checkout/route.ts`, `createOrder` in `W/db/queries/orders.ts` | `product_variants`, `orders`, `order_items`, history | one transaction takes stock, claims a coupon, writes the order; then the payment provider; replays by idempotency key | stock adds up, one order a key, an answer is true |
| coupons | `W/db/queries/coupons.ts` | `coupons.times_used`, `coupon_redemptions` | preview (no lock), claim and record (in checkout's transaction) | neither cap is passed |
| browser checkout | `W/components/checkout/CheckoutForm.tsx`, `W/lib/offline-queue.ts`, `public/sw.js` | key in a ref, basket in localStorage, outbox in IndexedDB | submit, retry, pay, hold an order offline, drain | a retry makes no second order; no basket vanishes |
| payments | `W/app/api/payment/webhook/route.ts`, `markOrderPaid`, `markPaymentFailed` | `payment_status`, `razorpay_payment_id` | webhooks, at least once and in any order | recorded money stays recorded |
| cancellation | `cancelOrderByCustomer`; `cancelStaleOrders` in `W/db/queries/jobs.ts` | order status, stock | give stock back under the order's lock | once, never of a paid order |
| invoices | `allocateInvoiceNumber` | `invoice_counters`, `orders.invoice_number` | allocate on first rendering | consecutive and unique within a year |
| reminders | `W/app/api/jobs/*`, `W/db/queries/jobs.ts`, `email-log.ts`, `W/lib/mail` | two claim columns, `email_log` | select, claim, send, log, give back | at most one mail of a kind; nobody is missed |
| returns, admin | `W/db/queries/returns.ts`, `admin.ts`, `W/app/admin/actions.ts` | `return_requests`, status, stock | request, decide, refund; free edits | a refund has a trail |
| customers, privacy | `W/db/queries/{customers,privacy}.ts` | addresses, every table that names a person | save, edit, remove, set default, erase | one default; nothing comes back |
| back in stock | `W/lib/back-in-stock.ts`, `W/db/queries/back-in-stock.ts` | `back_in_stock_requests` | ask, drain on restock, stamp | settled by a mail, and no more mails than restocks |
| rate limiter | `W/lib/rate-limit.ts` | buckets in memory or Redis | check, sweep, fall back | a bucket grants its limit and what refills |
| caches | `W/lib/revalidate.ts`, `purge-subscriber.ts`, `W/db/queries/products.ts` | page caches of each instance | load, purge, announce, repeat | an edit shows everywhere |
| catalogue | `W/db/queries/catalog-admin.ts`, `W/app/admin/catalog-actions.ts` | products, packs, photographs | save, publish, archive, reorder | what is on sale can be bought |
| content, reviews, wishlist, newsletter | `W/db/queries/*` | their tables | single statements | — |
| phone app | `apps/mobile` | keystore session, key per attempt | sign in and out, ask, place a COD order | the session is the one asked for, but where operations overlap; no order is lost sight of |
| arithmetic | `packages/core/src/{coupons,gst,shipping}.ts` | none | pure functions | figures add up |

What makes it hard to test: transactions that meet in the middle, rows read before a lock and used after, a
commit whose acknowledgement is lost, webhooks after a cancellation or a refund, a service worker and a page
writing one store, two schedulers firing one job, a run cut short between claiming and sending or
still at work when its orders are released, a purge that never
arrives, an answer that belongs to the session before. `PROJECT.json`
lists these hazards at their lines, with the properties that cover them and, where none does yet, why.

<a name="modules"></a>
## Modules and how they correspond to the code

**`Orders`** — the life of an order, one action per transaction: `PlaceOrder` (`createOrder`),
`AttachRazorpayOrderId`, `MarkOrderPaid`, `MarkPaymentFailed`, `CancelOrderByCustomer`, `FindStaleOrders` with
`CancelStaleOrder`, `UpdateOrderStatus`, `SetVariantStock`, `SetVariantActive`, `CreateReturnRequest`,
`DecideReturn`. Every writer locks the order's row before it decides, so a transaction is one step; what is not
under one lock stays apart (the sweep's query and each candidate's transaction, the provider call, webhooks).
Variables are the columns; `base` and `drift` are history, for the sum of the stock. Webhooks are enabled for
ever after their event, which is at-least-once delivery in any order.

**`ShopLedger`** and **`Checkout`** — `ShopLedger` says what a checkout, a cancellation and an admin edit do to the
books, each in one step. `Checkout` is the code statement by statement: the locks each statement takes (`owner`),
where each handler is (`pc`), the provider call after the commit, the replay after `ER_DUP_ENTRY`, failures at any
statement, commits whose acknowledgement is lost, and InnoDB's deadlock victims. `createOrder`'s `SELECT … JOIN … FOR
UPDATE` locks the rows of both tables, line by line, in whatever order the optimizer walks them: `plan` is that order,
an order of the variants and the table the join begins with, and two requests may have different ones. A circle
(`Deadlocked`) is a set of transactions each of which waits for, and is waited for by, another of the set; only its
members may be victims. `Checkout` implements `ShopLedger` (`ImplementsLedger`). This justifies treating a checkout as one
step in `Orders`.

**`InvoiceSeries`** and **`Invoices`** — the same pair for `allocateInvoiceNumber`: a series whose only step
allocates the next number, and the statements with two row locks, failures and the turn of the financial year.
`Refinement` is the abstract specification as a property.

**`Outbox`** — the browser. `page` is where `handleSubmit` is, `keyRef` the ref, `basket` localStorage, `outbox` the
IndexedDB store, `drain` the drains of the service worker, `net` and `reply` the network. Of the server it keeps
what `Checkout` establishes: one order per key, and an answer for every outcome. Responses are reduced to what the two
clients branch on. A replay may be refused, because the code does so (see below).

**`Reminders`** — the two jobs that chase unpaid orders. An entry is a line of a schedule (`cron-runner.mts`, `vercel.json`),
with the job it fires (`JobOf`) and the hours between two firings (`PeriodOf`); `schedule` is the entries of the deployment.
`hour` and `age` are the clock; `run` is the state of a run, and an entry may fire again while its last run is at work.
`Batches` are the reads a run may make: the oldest orders that are due, up to the LIMIT. `Claim` is the guarded `UPDATE`,
`Log` the insert whose error is swallowed, `Lapse` a missed firing or a run cut short anywhere. A run lasts as long as it
may: `strikes` counts the hours that strike over it (two stand for more), since only Vercel holds a route to its
`maxDuration` and the mails have no socket timeout. `leftOut` is history: who was due and found no place in the last batch.

**`AddressBook`** and **`Customers`** — the saved addresses of one customer. `AddressBook` edits a book one step at a
time under its cap; `Customers` is every statement of `createAddress`, `updateAddress`, `deleteAddress`,
`setDefaultAddress` and `eraseCustomer`, with the row locks (`owner`) and the gap locks (`gap`) of the scans, what each
transaction has written and nobody else sees (`view`), and InnoDB's deadlock victims. `ImplementsBook` is the refinement.

**`BackInStock`** — the waiting list of one pack: `Ask` in two steps (stock read, row inserted), orders and
cancellations that move the stock, edits that drain the list when they take it from zero, mails one by one, the stamp
at the end, erasures, and drains cut off anywhere. `life` tells a row from the one that replaced it after an erasure.
`heard` says who was mailed since they last asked, `crossed` whose last ask came between a mail to them and its stamp.

**`Catalogue`** and **`Storefront`** — `Catalogue` has the operations of the admin desk on one product, each with the
purge it will owe: `updateProduct` and `updateVariant` read first and judge by that reading. `Storefront` extends it
with the copies of the instances: `loadCatalog` as three queries one after another, the mark of a purge, its
announcement over Redis, losses, reconnects and the hourly expiry. `crossed` says a purge came while a load was under way.

**`PhoneSession`** and **`Phone`** — the app. `keystore` and `cached` are the two places a token lives; `calls` and `door`
are where each request and the sign-in or sign-out is between its awaits. `Phone` adds the checkout screen: the ref
with its key, taps whose requests and answers travel apart, and what each outcome does to the key; `Stick` is a success
without a body, at which `placeCodOrder` throws and the screen waits until it is left. A restart ends both.

**`RateLimiter`** — the buckets of Redis and of each process (`Processes`). A check is one action, because the script and `checkSync`
are each indivisible; requests make their checks in parallel, so any order of checks is a behaviour. Time is counted in
units; tokens in fractions of one over the window.

**`Totals`** — the sum of a function to the integers, counted: over the keys, the units above zero less those below.
A library sum is a recursion, of which nothing can be proved here; this one is a difference of two cardinalities, of
which everything needed can. `MCOrders` has TLC compare it with the library's (`TotalIsTheSum`). `Orders` and
`ShopLedger` state their stock with it.

Each `MC*` module gives a component its constants for TLC. A definition marked `Fault:` is a variant of the
definition that follows it, as a plausible mistake would leave it; no specification uses one. They are what shows that
each property can fail.

<a name="runs"></a>
## Runs, bounds, fairness

| run | states | shows | bounds, and why they are enough |
|---|---|---|---|
| `Orders` | 269k | `StockLedger`, `RecordedPaymentStays`, `TimelineTracksStatus`, `RefundTrail`, `NeverReleasePaid`, `UnpaidIsReleased` (of the orders the sweep looks for: none of their payments has failed) | two orders for two units of one variant: they compete, and either may be cancelled while the other is placed; one admin edit |
| `Invoices` | 33k | the series is consecutive, unique, refined; every rendering ends | two orders, two requests, two years: same order, different orders, across the year end |
| `Checkout` | 92k | `StockBalanced`, `CirclesNeedCrossedWalks`, `OneOrderPerKey`, `CouponWithinLimits`, `AnswersAreTrue`, `ImplementsLedger`, `EveryRequestEnds` | two requests and a cancellation over two packs of one product and one of another; `Traffic` names the pairs that may meet: baskets that cross two products or share one by two packs, under equal plans of either kind or different ones, one key twice, a coupon with one use left. Two checkouts wait in circles, and so do a checkout and the cancellation. The admin edits one pack and its product |
| `Outbox` | 741k | `RetriesMakeOneOrder`, `PlacedIsAnOrder`, `PaysForItsOrder`, `CartIsNotLost` | one basket, two keys, two drains, one request adrift |
| `Reminders` | 1.3M | `AtMostOneMail`, `NoticeBeforeRelease`, `EveryOrderIsChased` | a daily reminder over two orders with a batch of one, so that one may be left out for good; an hourly notice; a reminder fired hourly and daily at once. Orders placed in the first two hours, fifty hours, two runs of an entry at once, two hours that strike over a run (so that a notice may outlast the release), one lapse |
| `Customers` | 308k | `ImplementsBook`, `OneDefault`, `ErasedKeepsNothing`, `DefaultLostOnlyByLateEdit` | three requests from three devices, four ids, a cap of two: three transactions make every cycle of two row locks and a gap |
| `BackInStock` | 424k | `ToldWasMailed`, `OneMailPerRestock`, `LeftWaitingHasACause` | two people, two drains at once, three edits, one erasure: a restock inside a restock |
| `Storefront` | 562k | `LiveHasPack`, `OnePrimary`, `StaleHasACause`, `EventuallyShown` | two packs, two photographs, two admins, two committed requests; the copy of one instance beside another that also serves the desk. Instances act on each other only by announcements, so one watched copy is enough |
| `Phone` | 1.2M | `SignedInAsAsked`, `OrderIsKnownOrHeld` | two sign-ins with a request of either under way, so that one may be answered in the other's session; two taps, the fewest by which a key is used twice |
| `RateLimiter` | 1.6M | `WithinAllowance` | a key of one token a minute and one of two an hour of six, Redis and one memory, four minutes, one restart: the hourly bucket is swept by the minute's window while a third empty |

Every invariant, action property and refinement above is also proved for all sizes, so for those the bounds only decide
how soon TLC finds a mistake. They matter for the four liveness properties: `UnpaidIsReleased` is about one order that
another competes with, `EveryRequestAnswers` and `EveryRequestEnds` about requests that wait for each other, of which two
are the fewest, and `EventuallyShown` about one copy.

`MaxAdminMoves`, `MaxAdrift`, `MaxBaskets`, `MaxLapses`, `MaxPlaced`, `MaxSlow`, `MaxStock`, `MaxRequests`, `MaxEdits`,
`MaxErasures`, `MaxTaps`, `MaxTime`, `MaxLosses`, `LastId`, `LastHour` and `LastYear` bound what would otherwise go on for
ever; they are in guards and `ASSUME`s, not in constraints. `PlaceHours`, `Slots`, `Edited` and `Traffic` choose the cases
TLC goes through; in the proofs they are any sets. Symmetry is used only in runs without liveness properties.
Deadlock is checked in `Invoices`, `Phone` and `RateLimiter`. The other systems may stop (every request answered, the
bounds used up), and being stuck with work left is what the liveness properties and `CirclesNeedCrossedWalks` are about.

**Fairness.**

- `Orders`: the cron container runs the sweep every night; the provider redelivers until it is answered; a
  candidate's transaction does not fail for ever (strong, because the sweep may fail and come back).
- `Invoices`, `Checkout`: a handler that has begun goes on; strong where it waits for a lock, because InnoDB queues
  waiters in order of arrival; deadlock detection is on.
- `Outbox`: the server answers, scripts run on, a registered sync fires once.
- `Storefront`: a copy expires within the hour, a load that began goes on, an announcement arrives or is lost.
- Nobody has to buy, pay, cancel, edit, purge or reconnect.

`Reminders` states no fairness: `EveryOrderIsChased` is an invariant, because `Tick` cannot pass a firing that is due.
That no firing is skipped and no run cut short is the property's assumption `lapses = 0`; how long a run takes is not
assumed.

Two more runs, `Orders_admin_cancel` and `Orders_failed_payment`, show sentences of the code that the code does not keep;
see [below](#disagreements).

<a name="proofs"></a>
## What is proved

All for arbitrary finite or infinite constants under the named `ASSUME`s (positive quantities, `Nobody` is not a
transaction, carts are what the checkout schema lets through, Redis is not a process; finite sets of orders in `Orders`,
of requests in `Checkout`, of drains in `BackInStock`, of packs and photographs in `Catalogue`). Components whose proofs
share a module share nothing else.

**`TotalsProofs`** — `TotalChange`: where a function changes in one place, its total changes by the difference. Each
sum below is an induction over steps by that lemma; none needs an induction over a set.

**`OrdersProofs`** — `TypeCorrect` (stock never below zero), `PaymentsStayRecorded`, `TimelineFollows`,
`RefundsLeaveATrail`, and the action property `PaidIsNotReleased`. Inductive invariant: types with the three
column relations. `recorded => captured` and `pay = "paid" => recorded` must stand together, or a late
`payment.failed` breaks the induction. `StockIsAccountedFor`: the shelf, the live orders and `drift` account for every
unit; a step changes the entry of one order, so `TotalChange` says by how much. `OneWayWithoutDrift` says how far the
comment that `Orders_admin_cancel` refutes is right: exactly where the admin's status changes cancel out.

**`InvoicesProofs`** — two halves. `InvoiceSeries` keeps `SeriesInv`: numbers lie inside their year, every place
up to `last_seq` is taken, no two agree; `Consecutive` follows. `Invoices` keeps `LockInv`: who is past a lock owns
it, and what it read under it is still so. Then a commit is an allocation and any other step a stutter
(`ImplementsSeries`), so `NoHoles` and `NumbersAreUnique` are inherited, without the unique index. `AnswersHold`: a number, once
set, is never changed, so what was answered stays so.

**`CheckoutProofs`** — two-phase locking. `Ok(r)` says what a request has checked and holds at each statement,
`CancelOk(c)` the same of a cancellation. `Keeps(t)`: a step of `t` takes no lock from another transaction.
`Stable(u)`: it changes nothing under `u`'s locks. So what was checked is true at the commit, and the commit is a step
of `ShopLedger` (`Serialisable`). `KeysAreUnique` and `CapsHold` are proved of the ledger and inherited.
`AnswersStayTrue`: a request is moved, answered and given its order by its own steps alone, and an order in the table
keeps its key and its payment order.
`OnlyCrossedWalksDeadlock`: in a circle of checkouts nobody waits for the coupon, the customer or the key, because who holds
one of these waits only for the next, and at last for nothing. Of members that walk alike, the one that waits at the
line furthest along waits for one that has come as far; where products come first, or no two share a product by
different packs, that one waits for a row whose holder would have to hold what it holds itself.
`BooksBalance`: every step of the ledger moves as many units off the shelf as into the order it writes; inherited by
`Checkout` through `Serialisable`.

**`ClientsProofs`**, of `Outbox` — `KeyInv` (what the page knows of its key, and that every key of the current basket it no longer
holds was given up for a reason), `OneUnblamed` (of two keys of one basket one was given up for cause), `MintInv` (only minted keys
travel), `NetInv` (what a sender waits for and what it is told agree with the orders table). From them:
`OneOrderPerBasket`, `PlacedHasAnOrder`, `PaymentHasAnOrder`, `CartIsKept`.

Of `PhoneSession` — `TheRightSession`. `DeviceAgrees`: unless something went astray, operations of two kinds do not
overlap, the keystore holds `wanted` but while it is being cleared, and whoever has read it or saved to it holds what it
holds. `Moved` says what the step of one request, or of the door, does to what is under way; every step is a case of it.
Of `Phone` — `NoOrderIsLost`. What makes it inductive: an attempt has one request and one answer (`Numbered`); while the
last tap is undecided, or refused, no order has its key (`LastUndecided`), so that a refused first attempt may be
forgotten; and every attempt still under way is under a key the app has, or let go of (`OrdersFollowed`), or its order
could come to exist unseen. `PhoneTypeCorrect` includes that every receipt shown is of an order the shop has.

**`JobsProofs`**, of `Reminders` — `ClaimInv`: whoever sends holds a claim nobody else holds, on an order not yet mailed; a
release gives back only an order whose mail failed (`OneMail`). `NoticeInv`: an order a notice run has in hand
was under 47 hours old when it was read, so it is under 48 until a second hour strikes over the run (`NoticeOnTime`).
`EveryoneIsChased`, for entries of any period from 1 to 27 hours and any LIMIT: `ChaseInv` says of every hour at which an
entry fired while the order was in the window that the order was mailed, is in the hands of a run of the job, or was left out
of the last batch (`Chased`). Windows of 27 hours (20 to 46) have a firing in them (`FiringWithin`). The three ways out are
kept by every step: who loses a claim lost it to a run that is about to send (`TriedInv`). `FewOrdersFindAPlace` bounds the
last: it takes more orders than the LIMIT.

**`CustomersProofs`** — who has scanned the addresses is `Alone` with them: it owns every row and holds the gap, so
nobody inserts or changes one before it commits. `Progress(d)` says what a request holds and has written at each
statement; at a commit that makes it a step of the book (`Implements`). `AtMostOne` and `Erasure` are inherited;
`LateEdit` names the one commit that can lose the default.

Of `BackInStock` — a row settled has been mailed since it was asked for, or its ask crossed the mail (`Settled`): an erasure
ends a row's `life`, so what a drain remembers is the row in the table or one gone for good, and an ask made again
while a drain remembers the row is in `crossed`. `LeftWaiting`: beside a full shelf somebody is on the way to
whoever waits without a cause. `OneMailEach`: mails made and mails still to be made are counted together, and each restock
adds one. Counting needs that the drains are finitely many; the library's theorems on finite sets do the rest.

**`InstancesProofs`**, of `Storefront` — `Sellable`: under the lock of the product, publishing and archiving see each other's packs.
`PrimaryKept`: every way a photograph leaves has its heir. `Excused`: a copy not marked, with no purge due and no named
reason, is `Current`; its induction needs the same of what a load has read so far (`LoadsTrue`).

Of `RateLimiter` — `AllowanceHolds`. `Solvent`: what the watched bucket has granted and what it could grant now are together
no more than its limit, what has refilled since and one limit for each time it was forgotten. Redis's expiry
costs nothing, because after two windows any bucket is full (`InRedisFacts`); a sweep by another's window may. Products of
variables are kept out of the prover's way by naming each and stating how it changes. `BucketsAreBuckets`: no store ever
holds more than a full bucket.

**Only model-checked:** liveness (`UnpaidIsReleased`, `EveryRequestAnswers`, `EveryRequestEnds`, `EventuallyShown`), which is
out of the prover's reach. Every other property of the passing runs is stated by a theorem.

<a name="disagreements"></a>
## Where code and documents disagree

Shown by a run:

| run | the text says | the code does |
|---|---|---|
| `Orders_admin_cancel` | "one way an order is cancelled and one way stock comes back" (`orders.ts:818`) | the admin's status change cancels without returning stock |
| `Orders_failed_payment` | the sweep "cancels orders left unpaid for more than 48 hours and puts their stock back" (`jobs.ts:99`) | one whose payment attempt failed has `payment_status = 'failed'`, is never a candidate (`jobs.ts:111`) and keeps its units |

Met while modelling, described but not run:

- A webhook replay "updates zero rows" (`orders.ts:661`): after a refund, a replayed capture sets `paid` again
  (`orders.ts:691`).
- "Every checkout takes the same locks in the same order and two of them cannot deadlock against each other"
  (`orders.ts:221-223`): of variants and products the optimizer chooses the order. Two walks in different orders, or walks by
  variant over two packs of one product, can wait for each other in a circle; InnoDB rolls one back, and that customer is
  answered 500. `CirclesNeedCrossedWalks` says when, and that coupon, customer and key have no part in it.
- "Nothing is missed by that" of a daily reminder (`abandoned-payment-reminder/route.ts:27-30`): a pass reads 50 orders
  (`jobs.ts:7-22`), and with more than that due, one may be left out of the only pass in its window. `EveryOrderIsChased`
  names the case.
- A final notice after the release is "worse than none" (`jobs.ts:54-56`), and the bound of 47 hours is to prevent it. It does
  while a run takes under an hour; the VPS scheduler holds no run to that, `brevo-smtp.ts` sets no socket timeout, and
  `claimFinalNotice` looks at no status. `NoticeBeforeRelease` names the case.
- A replay "returns the original order" (`orders.ts:135`): it is refused when its own order used up stock or coupon.
- "We will send it the moment you are back online" (`QueuedOrders.tsx:119`): a drain that met an error counts as done
  (`sw.js:297`), and nothing fires it again.
- `getOrderTimeline` "cannot drift from the truth" (`orders.ts:749-753`): `markOrderPaid` writes a row to "confirmed"
  even for an order already cancelled or packed. `TimelineTracksStatus` states the exact extent.
- `releaseReminder` frees a claim "so a later run may retry" (`jobs.ts:39`); `hasEmailBeenSent` counts the failed row
  (`email-log.ts:30`), so no later run does. A mail the provider took but reported as failed, whose row also could
  not be written, may go out twice.
- A 500 after the commit makes the page give up its key (`CheckoutForm.tsx:272`), so the next attempt is a second
  order; `RetriesMakeOneOrder` names this exception. The phone app keeps the key on a 500
  (`apps/mobile/app/checkout.tsx`, `keepKey`).
- A replay of an online order that never got its provider id goes to the confirmation page unpaid; a retry as COD
  after a dismissed payment reopens the payment window of the online order.
- `queueOrder` returns false "if the browser cannot do this — no IndexedDB, or no service worker"; only the first is
  checked. A held order carries a Turnstile token that may have expired when it is sent, and is then refused.
- `createAddress` says two saves at once would make "two defaults or none" without its lock (`customers.ts:194-196`);
  `updateAddress` makes none all by itself, when the address it makes the default was removed before: it clears the
  others first. `DefaultLostOnlyByLateEdit` states that nothing else does. `getDefaultAddress` then prefills the oldest
  address, where its comment says the most recent.
- The schema of the waiting list "stops … mailing the same person twice" (`005_discovery.sql`): overlapping drains do,
  once for each restock (`OneMailPerRestock`). And asking again "puts the person back in the queue"
  (`back-in-stock.ts:45-47`): a request repeated between a mail and its stamp is settled by that stamp, for a pack that has sold
  out again. `ToldWasMailed` names it (`crossed`).
- "One always remains" (`catalog-admin.ts:850`) of the photographs: deleting the last one is allowed.
- "Nothing changed" (`catalog-actions.ts:435`) is judged by a reading that another admin may have overtaken: the row
  changes and no page is purged until the copies expire.
- "Those rolled the transaction back, so nothing was created" (`apps/mobile/app/checkout.tsx:545`): true of the attempt
  that was refused, not of an earlier one under the same key, whose order may exist. The next tap is a second order.
  `OrderIsKnownOrHeld` names this exception. A key kept over an edit of the basket returns the order of the old one.
- "A sign-out racing the first read cannot be overwritten by it" (`useSession.ts:78`): `loadSession` publishes what it
  read after the sign-out has published null. `SignedInAsAsked` names such overlaps, and the 401 of an earlier session that
  ends the new one (`astray`); it says that nothing else does.
- `placeCodOrder` "never throws" (`apps/mobile/src/api/checkout.ts:165`): of a 2xx with an empty or cut body it reads
  `result.data.orderId`, and `placing` is never reset. The order may exist and the key is held, but the screen has to be left.
- `document-cache.ts:101` writes the body before its etag and counts an interruption as one wasted download; if the
  document then goes back to the old etag, the next 304 keeps the newer body under it.
- The rate limiter's sweep drops "buckets that have fully refilled" (`rate-limit.ts:82`) by the window of whichever
  caller triggers it, so a minute's check forgets an hourly ceiling; `WithinAllowance` counts it. It speaks of each store by itself: a check
  whose answer from Redis is lost is made again in memory, and the two are not summed.
- The shipping mail is sent "once" per transition (`actions.ts:34`), so shipped, packed, shipped sends two.

<a name="left-out"></a>
## What is not modelled

Wording, layout, validation messages, logging, search ranking, reports, CSV, the audit log (nothing reads them back),
the provider's and the mail server's own behaviour beyond how the code uses it, deployment scripts, and the arithmetic of
discounts, taxes and shipping: the models carry no amounts. In the modules above:

- the limit of 200 of a night's sweep (the next night takes the rest); coupon windows and product scope (they refuse as the caps do); return items and
  amounts; statement timeouts other than as failures;
- InnoDB's gap locks, but in `Customers`, the one place where a transaction inserts into a range another has scanned; the
  read view of `setVariantActive` and `setProductActive` is taken after they hold the row;
- in `Checkout`, the locks of `setVariantActive` and `setProductActive` one after the other (each is one step, so the admin
  desk is never in a circle), and rows a scan locks beyond those of its result (the other packs of a product where the join
  begins with products); rows filtered out by `is_active` are locked like the others;
- the count of a coupon by customer after an erasure has rewritten the redemptions;
- `Storefront` has one level of cache for each instance (pages, data cache and the catalogue document expire and are
  purged alike), follows the copies of `Watched` only, and leaves stock out of the page;
- the form and the basket of the phone, its document cache, and which buckets each route of the API checks.

The rest is listed in `PROJECT.json` with reasons.

<a name="plan"></a>
## Plan

Done: `Orders`, `Invoices`, `Checkout`/`ShopLedger`, `Outbox`, `Reminders`, `Customers`/`AddressBook`, `BackInStock`,
`Catalogue`/`Storefront`, `PhoneSession`/`Phone` and `RateLimiter`, each with proofs of its safety properties.

Next, to prove: for what the liveness properties rest on, the safety part that can be (in `Invoices` and `Checkout`, that
whoever waits waits for somebody who can go on). To model, if the code around them grows more states: the wishlist on two
devices, the newsletter's tokens, and the splitting of discounts and taxes.
