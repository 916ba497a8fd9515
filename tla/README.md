# A TLA+ model of the Vendure community plugins

The repository is a set of plugins for the Vendure shop. Each one connects the
shop to a service somebody else runs: payment providers (Mollie, Stripe,
Braintree), a search engine (Elasticsearch, OpenSearch), a message queue
(Google Pub/Sub), a cache (Stellate), a procurement gateway (PunchCommerce).
The hard part of every plugin is the same: two systems hold two copies of one
fact, messages about it are repeated, late or lost, and the code acts on what
it read an await ago. That is what is modelled here.

## 1. Inventory

| Part (below `src/packages`) | State | Operations | Who it talks to |
|---|---|---|---|
| **mollie-plugin** `mollie.service.ts`, `mollie.controller.ts`, `mollie.handler.ts` | the order and its payment records in the shop's database; payments and captures at Mollie | `createPaymentIntent`, the webhook, `syncMolliePaymentStatus`, `handleMolliePaymentStatus`, `addPayment`, `settleExistingPayment`, `settlePayment`, `createRefund` | Mollie's API; Mollie calls the webhook until it hears 200; Vendure's `OrderService` |
| **stripe-plugin** `stripe.service.ts`, `stripe.controller.ts`, `stripe.handler.ts`, `stripe-utils.ts` | the order; payment intents and idempotency keys at Stripe; the customer's id at Stripe | `createPaymentIntent`, the webhook, `createPayment`, `createRefund`, `getStripeCustomerId` | Stripe's API and events; `OrderService` |
| **elasticsearch-plugin**, index life: `elasticsearch.service.ts`, `indexing/*.ts` | indices and aliases of the search engine | `createIndicesIfNotExists`, `reindex`, `switchAlias`, update jobs | the job queue, the search engine, the catalog |
| **elasticsearch-plugin**, documents: `indexing/indexer.controller.ts`, `plugin.ts` | documents of each product, per variant, channel and language | an event becomes a job; a job deletes and writes documents in bulk requests | event bus, job queue, catalog |
| **elasticsearch-plugin**, search: `build-elastic-body.ts`, `search`, `totalHits` | none | builds a query, maps the answer | the search engine |
| **braintree-plugin** | the customer's reference to a vault record | `createPayment`, `createRefund`, `generateBraintreeClientToken`, `getBraintreeCustomerId` | Braintree's API |
| **pub-sub-plugin** | topics, subscriptions and listeners of a process | `add`, `start`, `stop`, `destroy` | Google Pub/Sub |
| **stellate-plugin** | events buffered per purge rule | buffer, `handle`, `purge` | event bus, Stellate's API |
| **punchout-gateway-plugin** | the session id on the active order | `authenticate`, `determineActiveOrder`, `transferCart` | PunchCommerce, `OrderService` |
| **sentry-plugin** | none | reports errors | Sentry |
| `scripts/release` | versions, git tags | `prepare-release` | git, npm |
| `scripts/docs`, `e2e-common`, `dev-server`, `docs` | not part of the running shop | | |

What is hard in each, and what makes it correct:

* **Payments.** A webhook is repeated, comes late, overtakes another, runs
  beside a sync or a second webhook, or dies half way; meanwhile the customer
  edits the cart, pays a second payment, or an administrator cancels, modifies,
  captures. Correct means: the shop books nothing the provider does not have,
  loses nothing the provider took, and calls an order paid only if it is.
* **Index life.** Two processes start, reindexes fill new indices while update
  jobs write to the old one and the catalog is edited between its pages, any
  request fails, any process stops. Correct means: the shop never loses its live
  index and has one, nothing vanishes from the search during a reindex, the live
  index agrees with the catalog afterwards, nothing is left over. Nothing in the
  code keeps two processes from moving the live name at a time, or a product
  from slipping between two pages: the properties say exactly that these are
  the ways in which it goes wrong.
* **Documents.** The catalog changes between the reads of a job and between its
  bulk requests; some requests fail silently. Correct means: once the jobs are
  done the index has exactly the documents the catalog asks for, and the
  documents of one product agree on what they say of the product.
* **Vault.** Braintree keeps what it did when the shop's transaction is rolled
  back, two first payments of one customer each make a record, refunds are made
  again when an answer was lost. Correct means: nothing is booked that was not
  taken, refunds are booked, and what a customer paid with is found under the id
  the shop keeps.
* **Queue.** A message is delivered again when a lease runs out or a process
  dies, beside the run that is still at work; a queue is started before `init`,
  twice, or stopped. Correct means: a job leaves the queue only after it ran.
* **Cache.** A purge overtakes an answer on its way into the cache, is lost, cut
  short, or names the wrong key; the index a listing is read from lags. Correct
  means: whatever in the cache is out of date is about to be purged.
* **Punch-out.** A basket is read before a slow request and its order closed
  after it, while the customer edits, transfers again or opens a second session;
  Vendure checks an order and saves it later, without a lock. Correct means:
  what the shop closed the gateway has, sessions do not mix, an answer of
  success is true, and an order that was transferred goes out of use.

`PROJECT.json` lists every hazard found while reading, at its line, with the
properties that would catch it, or why none does.

## 2. Modules

| Module | Models |
|---|---|
| `VendureOrder` | the part of Vendure's order process the payment plugins use (external): states, transitions, adding and settling payments |
| `PaymentBooks` | abstract specification: what any payment plugin promises |
| `MolliePayments` | mollie-plugin, one order |
| `StripePayments` | stripe-plugin, one order |
| `SearchIndices` | elasticsearch-plugin: indices, aliases, update jobs, reindex |
| `ProductDocuments` | elasticsearch-plugin: documents of one product |
| `PunchOutTransfer` | punchout-gateway-plugin: sessions, their active orders, the transfer |
| `AtLeastOnce` | abstract specification: what a job queue promises |
| `PubSubQueue` | pub-sub-plugin, one queue |
| `StellatePurge` | stellate-plugin: purge rules, buffers, purges, and the cache |
| `CachedSearch` | composes the last two: a change is an event for the purge rules and a job for the search index, and neither waits for the other |
| `BraintreePayments` | braintree-plugin: payments, refunds and client tokens of one customer |
| `MC...` | the constants of the instances TLC checks |
| `...Proofs` | theorems about the module of that name |

### How state and actions correspond to the code

**MolliePayments.** `order` is the order in the database (its state, total,
whether it was placed, its payment records in order, and `ready`: whether it
has the customer, lines and shipping Vendure wants before it arranges payment).
`mollie`, `intents` and `capture` are what Mollie has. `hook` holds the status
changes Mollie has no 200 for: `ReceiveWebhook` delivers one any number of
times, and finishing a request takes it out or, if the answer is lost, does
not. A `worker` is one request; its `pc` is the await it is at. `FetchPayment`
(the call to Mollie), `ReadOrder` (the order and the whole decision taken from
it, `Decision`), `AddPayment` (one database transaction), and
`SettleExistingPayment` and `MoveSettledOrder` (settling saves the payment and
moves the order afterwards, in no transaction) are the steps of
`handleMolliePaymentStatus`, so a decision is carried out on an order that may
have changed since, and a crash may leave a settled payment of an order that
was not moved. `StartSync` is
`syncMolliePaymentStatus`, which handles payments newest first and ends at the
first that throws or lets it return. `settlePayment` is `SettlePaid`,
`RequestCapture`, and the polls `CaptureConfirmed` and `CaptureGivenUp`.

**StripePayments.** `intent` is a payment intent with its amount and whether
Stripe still knows its idempotency key; `owed` the events Stripe has no 2xx
for. A webhook is one transaction from `ReadOrder` to `TransitionAndAdd` or
`AddPayment`; but the second try of the transition (`RetryTransition`) runs in
a context of its own and commits at once, as controller 131-141 does, so a
crash after it leaves the order moved and unpaid. `AmountInStripeMinorUnits`
is `Math.round(total / 100)` in a currency without fraction.

**SearchIndices.** `exists`, `docs` and `alias` are the search engine; a
process is at one await at a time. `Start ... ProbeIndex` is
`createIndicesIfNotExists`; `StartDeaf` is the start that does not reach the
search engine, makes no index and listens to no event (`deaf`). `EditProduct`
and `DeleteProduct` happen in a process, which adds an update job unless it is
deaf. `TakeUpdate ... WriteProduct` is an update job, `TakeReindex ...
CopyProduct` the loop of `reindex`, `LookAtLive ... DropNew` `switchAlias` with
its `catch` and `finally`, into which any of its requests may fail
(`SwitchFails`), taken or not. The query of a page asks for no order: `Pages`
are all sets of products of the size that skip and take give, so that a product
may be in two pages or in none, whatever moved the rows. The documents of a
product are one version number here. `exposed`, `missed` and `raced` remember
what the properties must make exceptions for (below).

**ProductDocuments.** `product` and `variant` are the catalog with channels,
states and prices; `docs` the index; `queue` the jobs, each with the channel of
the request that caused it. `Clear` is the reading part of
`deleteProductOperations`, `ReadProduct` and `ReadVariants` the two reads of
`updateProductsOperationsOnly`, and `Clearing` and `Writing` send the bulk
requests one by one. `ClearFails`, `ReadProductFails` and `WritingFails` end a
job with an error, `ReadVariantsFails` lets it go on as if the product had no
variants, and a request that fails is passed over, as the controller does. `View` is the set of documents the code would write.

**PunchOutTransfer.** A `request` is a query, a mutation or a transfer at its
current await. A mutation of the shop finds its order in `StartEdit`
(`determineActiveOrder`), finds that it may be changed in `CheckEdit` or
`CheckMove`, and changes it in `CommitEdit` or `CheckoutOrBack`, where its
transaction ends, whatever became of the order meanwhile; `CheckTransition` and
`Transition` are the same two steps of the transfer. Whether a save writes what
changed or the whole row as it was read is Vendure's and TypeORM's matter:
`SavedOver` allows both. The `activeOrder` query and the transfer have no
transaction, so that `CreateOrder` and `TagOrder` (order first, session id
later), `PostBasket`, `Transition` and `Close` (state first, `active` later) are
writes of their own, between which `CutOff` may strike. `StartTransfer` reads the basket that
`PostBasket` sends however the order has changed since. `received` is what the
gateway took; `touched`, `overruled`, `stranded` and `confirmed` remember what
properties speak of.

**PubSubQueue.** `message` is each job at the subscription, `process` the
strategy's `hasInitialized`, `started` and `listeners`, and how many listeners
are really on the subscription. A `run` is a message at work; it keeps its
lease until it ends or `LeaseExpires`, and may go on without. `FinishRun` and
`FailRun` are the `then` and `catch` of the listener, `InitStrategy` starts what
was started too early. `DestroyStrategy` takes the listeners off and keeps their
entries, as the code does: a queue that is initialized and started again then
has an entry and no listener.

**StellatePurge.** A copy in `cache`, or in `fetch` on its way there, is
described by what changed since it was read (`stale`). `Handle` is the table of
the default rules, `Evicts` what Stellate throws out for a purge, by type, key
field and key; `SentKeys` has the cut that `debugLogging` makes in the payload.
`lag` is what the index has not read again; `CachedSearch` lets the end of a
queue's job (`EndJob`) take it away.

**BraintreePayments.** An `attempt` is one `addPaymentToOrder`, in one database
transaction: `reference` and `booked` change only in `BookPayment`, where it
commits, and `wrote` is the lock on the customer's row from the save on. `known`,
`charged` and `methods` are Braintree's and stay when the transaction is rolled
back (`SaleBreaks`, `RollBack`). `DropReference` saves the customer with an id
that is `undefined`, which TypeORM leaves out of the update.

## 3. Runs

Passing runs:

| Run | Instance | Shows |
|---|---|---|
| `mollie_payments` | 2 payments, 1 request at a time, totals 0, 1, 2, 2 disturbances | `RecordsAreBacked`, `NoSilentLoss`, `SettledOrderIsPaid`, and `KeepsTheBooks`: MolliePayments implements PaymentBooks |
| `mollie_live` | 1 payment, 2 requests at a time | `PaidIsHandled`: what Mollie took is in the end booked or reported, however two requests interleave |
| `mollie_sync_only` | 2 payments, webhook processing off | `SyncHandlesPaid`: the sync mutation alone handles what was paid |
| `stripe_payments` | 2 intents, 2 requests, totals 10000 and 10049 at 100 units to one of Stripe's, 2 disturbances | `RecordsAreBacked`, `NoSilentLoss`, `SettledOrderIsPaid`, `KeepsTheBooks`, `PaidIsHandled` |
| `search_indices` | 2 processes, 2 products on 2 pages, 2 reindexes, 1 edit or deletion of each product; 3 events in all, of products that change, reindexes and kinds of fault | `OneLiveIndex`, `StaysLive`, `StaysFound`, `MirrorsCatalog`, `NoLeftovers` |
| `product_documents` | 2 variants, 2 channels, 3 changes, requests of 4 operations, 1 error in a read or a request | `Mirrors`, `GroupsAgree`, `IndexCatchesUp` |
| `punchout_transfer` | 1 user with 2 sessions, 2 requests at a time, 2 orders, 2 changes, 1 cut-off | `HandedOver`, `CartsAreIsolated`, `SuccessIsTrue`, `TransferCloses` |
| `cached_search` | 2 products, a collection, tax rates, 1 copy, 2 changes, 2 jobs, 1 process, 1 fault | `StaleIsOwed`, `IndexIsOwed`, `StoppedIsSilent`, and `DeliversAtLeastOnce`: PubSubQueue implements AtLeastOnce |
| `braintree_payments` | 3 payments of a customer, 2 records, 2 refunds and 2 tokens at a time, 2 faults | `StoredMethodsAreOffered`, `RefundsAreBooked`, and `KeepsTheBooks`: BraintreePayments implements PaymentBooks |

Runs that refute what the repository says (findings in `PROJECT.json`):

| Run | Refuted | Because |
|---|---|---|
| `mollie_paid_in_full` | an order in PaymentSettled was paid in full | the same Mollie payment is looked for only once the order is placed; a repeated webhook of a partial payment books it twice |
| `stripe_refund` | what the shop refunded is what Stripe gave back | `createRefund` does not divide by 100 in a currency without fraction |
| `listing_purge` | a listing is purged when its collection changes (README.md:115 of the plugin) | the purge names its key `id`, but the cache is configured to know listings by `collectionSlug` |

**Bounds, and why they are enough.** Two payments are the least for an order
paid twice, in part, or by the wrong one; two requests the least for a race.
Totals 0, 1 and 2 make a free order, a partial and an excess payment. 10049 is
a total that Stripe's rounding does not give back. One disturbance is an edit,
a modification, a crash, a toggle or the expiry of a key; two allow a change
and its reversal, or a change and a crash. Two pages of one product are the
least for a catalog read in parts. `MaxEvents` is a bound on three things taken
together, so that each of them meets both others: products that change, reindexes
that are taken, and kinds of fault. A failed request or job may then strike any
number of times (`Recurring`); a crash and a start that does not reach the search
engine strike once, which is the least for a process that is missing half way
through, or deaf. Three allow two reindexes at a time beside a change or a fault, or one
reindex between a change of each product. Three changes of a product make one
before a job, one during it, and one that must put right what a failed request
left. `BulkLimit` 4 cuts both deletes and writes into several requests. Two
sessions and two requests are the least for carts to mix and for two transfers
of one order; two changes allow a line and a save over it, of an edit or a move
to checkout that read the order before. (With three, the way back from checkout
is saved as well: 27 million states, checked once without an error, but longer
than the other runs.)
One copy at a time is enough in the cache, because copies do not affect one
another; two changes make one before and one during a purge, and two jobs for
one product. One process is enough for what the queue promises, since a job
whose lease ran out may come back to the process it still runs in; for more of
them see the proofs. Three payments of a customer are two that overlap and one
that comes later; with two records both may be made, and with two faults one
may break and the environment be switched.
The runs set `CHECK_DEADLOCK FALSE`: every one of these systems may come to
rest, with all payments handled or all jobs done and the bounds used up.
Symmetry is used only in runs without liveness properties.

**Fairness.** A request the server has begun runs on unless the server stops
(weak fairness of each worker's steps; a crash is never forced). Mollie and
Stripe repeat a notification until they see a 2xx (strong fairness of delivery:
the model's two workers stand for a server that takes any number of requests,
and being busy must not starve one notification for ever). In
`mollie_sync_only` the storefront repeats the sync mutation, as the option's
documentation asks of it. A worker of the job queue takes waiting jobs and
goes on with them. Nothing is assumed of customers, administrators or of
changes to the catalog. Nor is anything assumed in the later three runs, whose
properties are of safety: `StaleIsOwed`, `IndexIsOwed` and `TransferCloses` say
of what is still wrong that something is under way to put it right, and what
would make it happen (time, Pub/Sub, the shop's own process) is not this code's.

**Exceptions the properties state.** `SettledOrderIsPaid` leaves out orders
with a payment recorded twice, which is the finding `mollie_paid_in_full`.
`NoSilentLoss` counts a payment that was only logged as handled: that is all
the code does with a payment it cannot book. `SyncHandlesPaid` leaves out
a payment behind one the handler throws on: an authorized one, or one whose
settlement was cut off before the order was moved (`LeftBehind`), which every
later try finds settled already. `OneLiveIndex` and `MirrorsCatalog` leave out
shops in which two processes were about to move the live name at a time
(`raced`: two reindexes, or starts that found no index); `StaysLive`,
`StaysFound` and `NoLeftovers` do not. `MirrorsCatalog` leaves out products
whose last update overlapped a reindex or another update, or was lost with a
fault or in a deaf process (`exposed`): such an update is written to the index
that the switch deletes, a known limit of this design. It and `StaysFound` leave
out products that were in no page of a reindex (`missed`), failed bulk requests,
which are logged and swallowed, and a plain index under the live name, which a
first start that made none leads to (`Undisturbed`). `NoLeftovers` is about
behaviours without a fault. `Mirrors`, `GroupsAgree` and `IndexCatchesUp` speak of
an index whose last job had no error (`harmed`: a request or a read that failed,
also the read of the variants that is only logged), since nothing repeats
one, nor found its product gone from the channel of its request: a product
taken out of the channel of the very request keeps its documents there until
its next change, which the plugin's e2e test 'removing product from channel'
does not see, as it removes from another channel. `HandedOver` leaves out the
lines of orders that were edited while they were transferred (`touched`): such
edits succeed and are closed with the order, but the gateway does not have
them. `SuccessIsTrue` leaves out orders that a request of the storefront, having
checked them before the transfer did, saved afterwards (`overruled`).
`TransferCloses` leaves out a transfer that was cut off between its two saves
(`stranded`). `StaleIsOwed` leaves out (`excused`) copies whose purge
failed, was cut off by `debugLogging` or overtook them, listings read while the
index lagged, and listings after a change to their collection or its members,
the finding `listing_purge`: in all of them the copy stays until `maxAge`. `IndexIsOwed` leaves out changes whose job could not be added
(`unsent`). `RefundsAreBooked` leaves out what Braintree
did though its answer was lost, which nothing in the plugin finds again; `StoredMethodsAreOffered` leaves out payments that overlapped with
another one of the same customer.

## 4. Proofs

TLC agrees on the instances above; these hold for every value of the constants
that satisfies the module's `ConstantsAssumption`:

* `MolliePaymentsProofs`: `TypeCorrect`, `BooksAreBacked` (`[]RecordsAreBacked`),
  `NothingIsLost` (`[]NoSilentLoss`), `SettledIsPaid` (`[]SettledOrderIsPaid`) and
  `Refinement` (`Spec => KeepsTheBooks`).
* `StripePaymentsProofs`: the same five, and `RoundTrip` (what the two
  conversions of amounts do to a total).
* `CachedSearchProofs`: `TypeInvariant`, `CacheIsPurged` (`[]StaleIsOwed` of the
  cache alone), `SearchIsPurged` (`[]StaleIsOwed`), `IndexNeverForgets`
  (`[]IndexIsOwed`), `StopSilences` (`StoppedIsSilent`), `QueueRefines`
  (`Spec => DeliversAtLeastOnce`).
* `BraintreePaymentsProofs`: `TypeInvariant`, `MethodsAreOffered`, `RefundsReconcile` (`[]RefundsAreBooked`), `Refinement`
  (`Spec => KeepsTheBooks`).
* `PunchOutTransferProofs`: `TypeInvariant`, `TransferredIsHandedOver`,
  `CartsStayIsolated`, `SuccessStaysTrue`, `TransfersClose`: all the run
  `punchout_transfer` checks.
* `SearchIndicesProofs`: `TypeCorrect`, `AliasStays` (`StaysLive`),
  `LiveNameIsUnique` (`[]OneLiveIndex`), `NothingIsLeftOver` (`[]NoLeftovers`),
  `LiveIndexMirrorsCatalog` (`[]MirrorsCatalog`), `ProductsStayFound`
  (`StaysFound`), for any number of processes, reindexes and products.
* `ProductDocumentsProofs`: `TypeCorrect`; and with one worker
  `IndexMirrorsCatalog` (`[]Mirrors`), `GroupedSearchesAgree` (`[]GroupsAgree`).

With this every safety property the passing runs check, and every refinement, is
a theorem.

The assumptions are the types of the constants, and the few facts the code
rests on: shipping fees are numbers with a least one (the plugin takes the
cheapest method); no product bears the name of another source of a page; prices
are positive numbers and there is one; a shop has finitely many processes; and
the names of new indices, which contain the time, are not those of other things.

Two theorems need more, which they state as a hypothesis: the last two of
`ProductDocumentsProofs` ask for one worker. Vendure runs the jobs of this queue
one at a time in a process, and with a second process an update job may write
what it read before the other one's change, which `SearchIndices` treats
(`exposed`).

**Mollie.** `RecordsAreBacked` is not inductive: a request books what it
fetched, not what Mollie has now. `BackedInv` adds that what a request holds is
safe (`HeldStatusIsSafe`: a status it fetched and is about to book still backs a
booking, because Mollie never takes back paid, and authorized only becomes
released or paid) and that a capture that succeeded belongs to a paid payment.
`NoSilentLoss` needs more (`NoLossInv`): a notice of "paid" is true, the request
that serves it fetched "paid" (`PaidNoticeIsTrue`), and an order in a paid state
has been placed (`PaidStatesArePlaced`), so that a payment it does not record is
reported as a double one rather than passed over. The proofs go action by
action: `Resting`, `ReturnsFacts` and `ThrowsFacts` say how any request ends,
`RecordAppended` and `RecordSettled` what the two bookings do to the records
(an order that is moved after its payment was settled keeps them),
and `VendureOrderProofs` what Vendure's own operations keep.

The refinement maps Mollie's status of a payment to what happened to the money,
and what the order says of it to a booking. `StepsOfTheBooks` sorts the steps into
four: nothing is booked, a record is appended, a record is settled, Mollie acts.
A booking of one payment is a step of `PaymentBooks` because what it leaves is
backed (`BookedIsCharged`), so that the abstract guard follows from
`RecordsAreBacked` *after* the step: what the request read before is no help.

**Sums.** `SettledOrderIsPaid` compares two sums, of settled records and of
money taken, and `RefundsAreBooked` has one over the refunds on their way. They
are folds (`MapThenSumSet`), whose recursion picks elements in no known order.
`VendureOrderProofs` shows that this recursion exists on every finite set, that
its value depends only on the terms, that any element can be taken out of it
(`SumRemove`), and that a sum whose terms are different terms of another one is
no greater (`SumOfPart`). The induction behind each is on the smallest set that
would refute it, because the library's induction theorems take an operator.
`CoveredIfSettled` is the invariant of the order: it is in PaymentSettled only
while its settled records cover the total; each plugin shows that its steps keep
it and that finitely many payments exist, and `SettledIsTaken` sends each record
to its payment. For refunds, `FlightAdds` says what one request adds to the sum
and, read backwards, what it takes away when it is booked or lost.

**Stripe.** `BooksInv` adds to type correctness that every event owed or at
work tells the truth about its intent (`EventsAreTrue`). `QuietStep` and
`AnsweredStep` reduce every step to "no record changes" or "one request is
answered"; `Booking` and `AddStep` treat the step that books. The refinement
maps an intent that succeeded to money taken and a record to a booking, and
shows that each step books at most one intent.

**Cache.** `StaleIsOwed` asks of a buffered event that the requests it will be
turned into purge the page, which depends on all events of the buffer.
`CacheInv` says less and is inductive: what a copy, in the cache or still on its
way there, is stale about has an event in some buffer or a request under way.
The buffers hold only what their rule is for, and `RulesCover` shows, rule by
rule, that an event is covered by the purges made of it whatever comes with it:
the two together give `StaleIsOwed`.

**Queue.** `IndexIsOwed` is inductive once `QueueInv` is known: a message was sent
exactly if it has a job, only such jobs run, and a process listens at most once,
and not at all if it has no entry in `listeners`. The composition is not proved again:
each step of `CachedSearch` is a step of the cache or leaves it alone, so that
`CacheInv` carries over. The refinement maps a message to added, its
acknowledgement to gone.

**Braintree.** That no stored method is lost is not visible in the methods: it
depends on what the attempts at work have read. `VaultIsTrue` says that an
attempt makes a new record only when no record worth keeping is known to the
shop, and that another one works on the shop's id, unless the two overlapped;
`StagesAreTrue` says what an attempt at each await has done; `OverlapIsNoticed`
that overlapping attempts are marked. Each action is one lemma (`SaleStep`, ...)
over these. The refunds have an invariant of their own (`RefundsInv`): finitely
many are on their way, and the sums balance.

**Punch-out.** `CartInv` says that what each request holds since its last
await still fits the order it will write to (`Fits`): an edit found an order of
its session, a posted basket shows its order or the order was touched, an
accepted one was received, and a row that was read, and may be written back
whole, is one the order may return to. Two more parts make it inductive: an
order nobody has tagged yet has no lines and stays AddingItems, and only one
request is about to tag it (`TagsAlone`).

**Index life.** Three invariants, each on top of the last. `LifeInv` says that no
index becomes live that was so before (`NewIsUnused`: the names of new indices
are used once), that a process about to delete indices holds none that is live,
and that one about to move the alias has something to put there (`Kept`).
`OneInv` adds that nobody touches a product before the first index is live
(`Booted`), who will give each index a name or delete it (`Accounted`), and that,
unless there was a race, one process at most moves the live name (`Single`).
`DocsInv` adds how far each reindex has come (`Filling`): a product is in its new
index, or on the page at hand, or was in no page yet, and after the last page
the last means `missed`, because `Turns` counts what the pages had against the
catalog. `Overlaps` and `UpToDate` say which updates are marked `exposed` and how
far the others have come, `Fresh` that what no index has yet is not in one of
them. `ProductsStayFound` is read from the same invariant step by step: at the
switch, `Filling` has become a statement about the new index.

**Documents.** `UpdateComesLast` says that a change leaves a job behind, and
`OnItsWay` that the one at work turns the index into the view: while it clears,
the requests left to send empty it, while it writes, they fill it with what the
catalog asks for *now* (`Lead`), because any later change would have left
another job. `DocsAreFindable` supports the first part: each document is under
an id the clearing job will list. The chunks of `BulkLimit` operations are
handled by one lemma about the requests a list of ids is cut into, for every
limit. `GroupedSearchesAgree` follows from the equality of index and view, and
the least and greatest price of a finite set.

**Only model-checked.** `PaidIsHandled`, `SyncHandlesPaid` and `IndexCatchesUp`,
which hold under fairness: the prover does not do liveness, nor ENABLED. The
three refutations are runs of TLC by nature.

## 5. Abstractions and what is left out

* One order, one product: the code never handles two at once. (The exception,
  a Mollie account with more than 500 newer payments, is not modelled.)
* One queue, one user, one channel in the later modules. Of several runs of one
  job in one process that lost their lease one is kept. Paying the order of a
  punch-out cart in the shop is left out. In `StellatePurge` a listing shows all
  products: that a product comes into it is a change to the members.
* Time is abstract: a buffer closes, a lease expires, a copy ends at any moment.
* What reads and writes only (adapters, `build-elastic-body.ts`, sentry-plugin,
  `getStripeCustomerId`, options) and what is not part of the running shop
  (generated GraphQL types, test helpers, documentation and release scripts) is
  not modelled. By lines this is most of the repository: the generated types and
  the shared test helpers alone are about 57000 lines, and hold no behaviour.
* A database transaction is atomic. Vendure, Mollie, Stripe and the search
  engine are modelled from how `src/` uses them and marked external.
* Payment methods are configured; addresses, order lines and the wording of
  messages are left out. Stripe's webhook secret is the right one.
* Documents stand for those of all languages; only the fields that depend on
  several variants are kept, and a variant has one price in all channels. A bulk
  request fails as a whole.
* `BulkLimit` is even. With an odd `reindexBulkOperationSizeLimit` a request
  would end between an update and its document; what the search engine makes
  of the halves is outside this code.

Behaviour met while modelling that no run is about:

* Mollie: a crash between the two saves of `settlePayment` leaves a settled
  payment of an order in PaymentAuthorized, and every repetition of the webhook
  throws. The extra payment of an order in ArrangingAdditionalPayment is taken
  for a double payment and only logged. An authorized payment of an order that
  is already in ArrangingPayment makes the handler throw at every repetition of
  the webhook, though README.md:117 says that it "will transition your order to
  'PaymentAuthorized'".
* Stripe: `createPaymentIntent` asks for the whole total whatever was paid
  already; rounding to Stripe's unit leaves an order of 149 open by 49.
* Search: two reindexes at a time read the same live index, and both new
  indices end up under the live name; so do those of two processes that start
  together on an empty search engine. A product that is in no page of a reindex,
  because rows moved while the catalog was read, is gone from the search until
  it changes again. A process that does not reach the search engine when it
  starts listens to no event until it is started again. When the live name is a
  plain index, `switchAlias` deletes it before it puts the alias: searches fail
  in between, and for good if the next request fails. A synthetic document has the product's id made negative, which is
  not a number for ids that are strings, so that such products share one.
* Punch-out: README.md:258 says that transferring a session again "returns an
  error since no active order exists". The `activeOrder` query of the session
  makes a new order, which is then transferred; so does an edit that looked for
  the order before and commits after. An edit that checked the order before the
  transfer did and is saved after it may take it out of Transferred again, if
  Vendure writes the whole row. An order stranded in Transferred but
  active makes every later transfer of its session fail.
* Braintree: the resolver means to remove an id that Braintree does not know
  (braintree.resolver.ts:64-66), but sets it to `undefined`, which is not
  saved; the sales of the customer are declined as long as the id is sent.
  Awaiting `processPayment` in the handler would not settle the lost answer of
  a sale but book it as an Error.

## 6. Plan

In this order, the most important first:

1. *Done.* `VendureOrder`, `PaymentBooks`, `MolliePayments`, `StripePayments`,
   with proofs; `SearchIndices`, `ProductDocuments`.
2. *Done.* `PunchOutTransfer`; `PubSubQueue`, `AtLeastOnce`, `StellatePurge`,
   `CachedSearch`; `BraintreePayments`.
3. *Done.* Proofs of the safety properties and refinements of all modules above.
   *Left:* the same of what is added below. Not to be proved: liveness.
4. Search queries (`build-elastic-body.ts`, `totalHits`) as operators over the
   documents of `ProductDocuments`, against a reference definition of a match;
   assets in update jobs; `prepare-release` as an algorithm over a graph.
