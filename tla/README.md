# Hassa backend: TLA+ specification

This directory specifies the Hassa food-delivery backend in TLA+: the wallet
ledger and the handlers around it, orders with their payments and refunds, the
assignment of deliveries to drivers, what a delivered order earns and who
collects its cash, accounts with their one-time codes, staff, restaurants,
menus and ratings behind a cache. TLC checks the specifications on small
instances, TLAPS proves the theorems named below for every instance. Paths in
comments are relative to the repository; the file names without a directory are
unique in it.

    tlc -config MCDelivery.cfg MCDelivery      # one run
    tlapm DeliveryProofs.tla                   # one proof module

## 1. The system

Every service is an Express process with a PostgreSQL pool. A request handler
is a chain of awaited statements and HTTP calls; between any two of them other
handlers, in the same process or in a replica, run. Only `Wallet.credit`,
`Wallet.debit`, `Order.create` and the writing functions of `Rating.ts` and
`Address.ts` use a database transaction.
Services call each other over HTTP with a service token, without retries and
mostly without waiting; events go out over Redis publish/subscribe.

| component | state | operations | what is hard | what makes it correct |
|---|---|---|---|---|
| wallet ledger (`wallet-service/src/models/Wallet.ts`, migration 022) | `wallet.wallets`, `wallet.transactions` | ensureWallet, credit, debit, setFrozen | concurrent transactions on one row, duplicate events, freeze in between, rollback | the ledger explains the balance; an event is booked once; a frozen wallet stands still; every transaction ends |
| wallet handlers (`controllers/`, `models/Payout.ts`, `DriverPayment.ts`) | `wallet.payouts`, `wallet.driver_payments` | topup, adjust, add-funds, internal credit/debit, payout request/approve/reject, driver payments, freeze | read-check-write over several calls, stop in between, two admins | payouts are funded once; a rejection returns the money, once; paid means credited |
| cash collections (`cashCollectionController.ts`) | `wallet.cash_collections` | collect, list | balance check and insertion in two statements | not more is collected than owed |
| orders (`order-service`) | `orders.orders`, items | createOrder, updateOrderStatus, listings | payment, row and refund in two services, lost or late answers, unanswered COMMIT | wallet orders are paid; refunds stay within payments; a refund goes with a cancellation, once |
| ratings (`ratingController.ts`, restaurant `Rating.ts`) | ratings, averages | submit, recalculate | concurrent transactions miss each other's rows | average = average of the rows; one rating per order |
| deliveries (`delivery-service`) | `delivery.deliveries`, `delivery.driver_status` | auto and manual assignment, sweep of expired offers, decline, status updates, availability, position | handlers overlapping with sweeps, every UPDATE by id alone, timers | no station is skipped; offers end; an accepted delivery stays with its driver; waiting deliveries are offered |
| settlement (`settleDeliveryEarnings`) | wallet ledger, fees | two internal credits | fire and forget, one of two fails, settled again for another driver | earnings are credited once, to the owner and to one driver |
| auth: accounts (`authController.ts`, `otpCodes.ts`, `User.ts`) | users, OTP codes | sign-up, verify, register, reset, administrators and owners | check-then-act over codes, guesses counted late, one code used twice | codes, guesses and uses are bounded; a password changes only on a code |
| auth: drivers, employees (`EmployeeRole.ts`, `DriverProfile.ts`) | profiles, roles | hire, update, assign, approve, reject | account first and profile later, decisions that overlap | no half-made account; a rejected driver does not work |
| auth: addresses (`Address.ts`) | addresses | create, update, delete | the default flag cleared and set in one transaction that cannot see another's row | defaults are bounded |
| auth: rate limit (`utils/rateLimit.ts`) | request times per key in memory | check, reset | window boundary, check before the counted insert | not more than the limit in any window |
| restaurants (`restaurantController.ts`) | restaurants and branches, the owner's account in the auth service | create, onboard, approve, reject, block, open | approval against a block, an account made before its restaurant | only approved restaurants serve; onboarding is all or nothing |
| menus (`menuCategory*`, `menuItem*`, options) | categories, items, option groups, options | CRUD | references checked one or more statements before they are written | references stay in one restaurant, one level deep |
| banners, cuisines | banners, cuisines | CRUD | two writes by id | a cached list is dropped after a change |
| cache (`utils/redis.ts`) | Redis entries with a time to live | get, set, del | a slow reader stores what a writer has just deleted; a change makes more entries wrong than its handler deletes | a card that is not servable is about to go, or its deletion failed, or it was stored late |
| search, discovery, admin analytics | cache, index | queries | stale caches | read-only |
| notifications | inbox, sockets | subscribe, push | at-most-once events | nothing reads it back |
| payment service | none | health | none | nothing to model |

The settlement, the cash collections and the ratings cross services: the
delivery service credits the wallet service, a collection reads orders and
deliveries from the wallet service's own queries, and onboarding asks the auth
service for an account.

Interactions: the order service debits and refunds through
`/internal/debit` and `/internal/credit` of the wallet service and asks the
delivery service for a driver when an order is confirmed; the delivery service
reads orders and drivers over HTTP and settles earnings with the wallet
service; the rating handler writes through the restaurant service; the
notification service listens to what orders and deliveries publish.

## 2. Plan

1. `Wallet`, `WalletTx`: the ledger, and the transactions that implement it.
   Everything about money rests on them. *Done, proved.*
2. `WalletService`: the multi-statement handlers. *Done, proved.*
3. `Orders`: payments and refunds across two services. *Done, proved.*
4. `Delivery`: assignment under concurrency. *Done, safety proved.*
5. `Settlement` over `Wallet`, implementing the abstract `Earnings`; cash
   collections beside it. *Done, proved.*
6. `Accounts`, `Staff`, `AddressBook`, composed in `AuthService`. *Done,
   proved.*
7. `CacheAside`, `Restaurants`, `Menu`, `Promotions`, `Ratings`, composed in
   `RestaurantService`. *Done, proved.*

What would come next: what a driver's approval means for the offers he gets,
across `Staff` and `Delivery`; `Orders`, `Delivery` and `Settlement` in one
composition, once the code says how a cancellation and a delivery of one order
exclude each other; the rate limit as a function of the call times.

Each module takes its sets as CONSTANTS with a named assumption, has one action
per statement or handler prefix, and states its invariants as named conjuncts;
none declares a RECURSIVE operator.

## 3. Modules

**`Wallet`** is the abstract specification: the two tables, and the four
operations of `models/Wallet.ts`, each atomic. `CanMove` collects what makes
credit() and debit() throw, constraints of the schema included: the row exists,
is not frozen, the amount is positive after rounding to hundredths, the new
balance is between 0 and what `NUMERIC(12,2)` holds, and the partial unique
index on (reference_type, reference_id, type), which spans all wallets, has no
such key. debit() checks the balance itself (`Wallet.ts:144`); for credit() the
upper bound is the column's.

**`WalletTx`** runs credit() and debit() statement by statement in database
sessions: BEGIN, SELECT ... FOR UPDATE, UPDATE, INSERT, COMMIT, and ROLLBACK in
the catch block. `tx[s]` holds the locals of the function, `lock` the row
locks. The variables of `Wallet` are the committed rows, as READ COMMITTED
shows them. PostgreSQL is external and modelled from how the code uses it:
locks last until the transaction ends, an INSERT that meets an uncommitted
equal key waits for it, a lost connection rolls back. ensureWallet() and
setFrozen() are single statements that wait for the row lock.

**`WalletService`** has a slot `call[c]` per running handler with the next
database call and what the handler read for it. Handlers start when their
checks pass (a refused start changes nothing), then make their calls one at a
time: `Ensure`, `MoveFunds` or `MoveRefused`, `CreatePayout`,
`UpdatePayoutStatus`, `MarkPaid`; `Abandon` ends one anywhere. addFunds() is
the credit case of adjustWallet(). A payout's `transaction` is the position of
its debit in the ledger. `ReturnsWithinRequests` counts debits and returns of a
user and amount; `ReturnsMatchPayouts` says which payout a return is of, but not
that the payout is rejected: a rejection returns the money first, so the payout
may still be pending, and another review may approve it (`ReviewedOnce`).

**`Orders`** has handlers `tasks[t]` and the requests `calls` that are on their
way to the wallet service. A request may be booked, refused (4xx, 5xx) or lost,
and its caller may be gone when the answer comes. `Order.create` is one
transaction, so it is atomic here, but its COMMIT may take effect unanswered
(`CommitUnanswered`): then the catch block refunds an order that exists. The
history variable `doubtful` names those orders. References are as the code
sends them: a payment's is the *customer's* id (`orderController.ts:489`), a
refund's the order's. Two equal requests on their way count as one, since the
second would meet the key of the first. Cash and card orders are treated alike
by the service, so `"cash"` stands for both. Two more histories serve
`RefundsFollowCancellations`, which relates an order's status to its refund:
`overtaken` are the orders whose status was written while another handler held
a check of it, for then a delivered order may become cancelled and the other
way round; `forgone` are those whose refund was lost, refused or never asked
for, which nothing repeats.

**`Delivery`** has one row per order (UNIQUE order_id), the two flags per
driver, and handlers `tasks[t]` with a program counter that stops before each
statement. `Sweep` is one row of a sweep's list; a sweep over several rows is
several tasks. `deadline` is `assignment_expires_at` relative to now. The
order in which the auth service lists candidates is left open, so any eligible
driver may be picked; a failed HTTP call is a `Stop`. `SetAvailable` shows what
`upsertDriverAvailability` does to a flag that is omitted: the INSERT has
already turned it into `false` when `COALESCE(EXCLUDED...)` reads it, so every
assignment, release and position report also sets `is_online` to false.
`earnings` records which settlements were started.

**`Earnings`** is the abstract specification of a settlement: an order handed
over pays its owner at most once and one of its carriers at most once, and
nothing else changes an income. **`Settlement`** is the code under it:
`Delivered` starts settleDeliveryEarnings() with the driver the row had then,
`SendCredits` is its `Promise.all`, and each credit is a request to
creditWallet() that first ensures the wallet and then posts (`CreditEnsures`,
`CreditPosts`), is refused, or is lost. `FreezeWallet` may come between.
`SetDriver` is what `Delivery` may do to the row. `missed` names the orders of
which a credit failed for good. `EarningsOnce` is the refinement: payments are
read off the ledger, incomes are the balances.

**`CashCollections`** adds orders.status and the collections: collectCash()
reads what the holder earned (`ReadEarned`), what was collected, checks
(`ReadCollected`) and inserts (`InsertCollection`), one query each. `Passes` is
the check as it is: an amount is refused only if something is pending.
`SummaryRow` is restaurantPendingSummary(), which groups by owner, name and
phone (`LabelOf` is a restaurant's name and phone, so two restaurants may share
a row) and subtracts per owner. `peak` and `unguarded` are histories the
properties need.

**`Accounts`** has a request per slot with its arguments, what it has read and
the statement it is at. `ReadCode`, `CountAttempt`, `RecountAttempts` and
`CloseCode` are validateOtp...(), `RetireCodes` and `StoreCode` are
storeOtp...(), per address. One-time codes are members of a small set, so a
guess can hit; `expired` is set by time (`ExpireCode`); `uses`, and the phones
an account has had (`had`), are histories. The mails and messages are left out:
when sending one fails, the rows stay.

**`Staff`** extends it by employees and drivers. A job is the set of statements
its handler has left (`Plan`, less what the body does not name), run in the
order of their `Place`, which is that of the source: every statement is a step,
and `Throw` sends a failed hire to its catch block (`UndoHire`). What the body
may name or leave out, an account switched off, a vehicle, a picture
(`UpdatePicture`), are arguments. **`AddressBook`** runs the transactions of
`models/Address.ts` under READ COMMITTED: the clearing UPDATE sees committed
rows, waits for locked ones, and what is written shows at COMMIT.
**`AuthService`** composes the three.

**`CacheAside`** is the protocol every public reader and every changing handler
of the restaurant service follows; an entry is compared with the database
(`current`, `outdated`, `late`) instead of having contents. A change names two
sets of keys: those whose entries show what it changes, which become outdated,
and those its handler deletes. They differ: a restaurant's row shows in its
card, its details and its menu, and blocking or closing it deletes the card;
categories and items show in the details and the menu, and their handlers
delete the menu; the handlers of options and of ratings delete nothing
(`ChangeUnseen`). **`Restaurants`** has the rows, the handlers that read a row,
test it and later update it by id (`Written` gives the columns each UPDATE
sets), and onboardRestaurantByAdmin() with its account in the auth service and
its rollback. **`Menu`** has the categories, items, groups and options with
foreign keys as the schema has them (cascade or set null); its handlers check
references with SELECTs and write later. **`Promotions`** are banners and
cuisines. **`Ratings`** runs submission and hiding as READ COMMITTED
transactions. **`RestaurantService`** composes these; its `RateIt` lets a
rating change what the cached card and details of the rated restaurant
(`Rated`) show.

`MC*` modules give the constants of a run; `*Proofs` modules hold theorems.
Operators commented "Fault:" are mutations that the runs must detect; no
specification uses them.

## 4. Runs

| run | instance | shows |
|---|---|---|
| `wallet_tx` | 2 wallets, 2 sessions, 1 reference, 2 types, amounts 0 and 2, balance up to 4, 3 transactions begun (366,748 states) | `TxInv` (what was read under the lock still holds at COMMIT), `LedgerExplainsBalance`, `EventRecordedOnce`, `FrozenStandsStill`, the refinement `WalletSpec`, and `EveryTransactionEnds` under fairness |
| `wallet_service` | 1 wallet, 2 handlers, 2 payouts, 1 driver payment, amounts 1 and 2 (635,275 states) | `PayoutsAreFunded`, `ReturnsMatchPayouts`, `PaidMeansCredited`, `CallsMatchRows` and `ReturnsWithinRequests` |
| `payout_review` | the same | **violated** `ReviewedOnce`: an approval and a rejection both go through |
| `orders` | 1 customer, 1 order row, 2 handlers, amounts 1 and 2 (1,342,180 states) | the inductive invariant `OrdersInv`, `OrdersArePaidFor`, `RefundsWithinPayments` and `RefundsFollowCancellations` |
| `second_order` | 2 order rows | **violated** `NewPaymentsAreAccepted`: a customer's second wallet payment is refused as a duplicate |
| `delivery` | 1 order, 1 driver, 2 handlers (281,284 states) | `DeliveryInv`, `StationsAreVisited`, and `OffersEnd` under fairness |
| `accepted_driver` | 2 drivers | **violated** `AcceptedKeepsDriver`: an accepted delivery is taken away |
| `requeued` | 2 drivers, 1 handler | **violated** `RequeuedIsReassigned`: a declined offer waits for ever |
| `auth_service` | 2 requests, 2 clerks, 2 database sessions, 1 e-mail, 1 phone, 2 code values, 2 passwords, codes closed after 2 guesses (708,230 states) | `OpenCodesBounded`, `GuessesBounded`, `UsesBounded`, `PasswordsProven`, `HiresAreComplete`, `ActiveByDecision`, `DefaultsBounded` |
| `restaurant_service` | 2 handlers, 2 readers, 2 restaurants, 3 categories, 2 groups and options, 3 rated orders (657,418 states) | `OnlyApprovedServe`, `OnboardingIsAtomic`, `CardsAreServable`, `MenusStayApart`, `RatingsExact` |
| `menu_nesting` | the same | **violated** `NestingOneLevel`: a category with subcategories becomes a subcategory |
| `settlement` | 4 orders, 3 restaurants of 1 owner, two with one name and phone, 2 drivers, 3 settlements, 3 collections by 2 administrators (398,937 states) | `SettlementInv`, the refinement `EarningsOnce`, `CollectionsBounded`, `SummaryWithinBalance`, and `DeliveredIsPaid` under fairness |

Bounds. `MaxRequests` caps the transactions begun: three give a committed one
and two that race on the result. `MaxBalance` is the capacity of the balance
column and small enough to be reached. `MaxPostings` caps the ledger length at
which a new movement is started, not the movements already running, so races on
a full ledger stay. Two handlers at a time are what a read-check-write race
needs; a third only repeats the role of one of them. `MaxConfirms` is how often
a confirmation reaches the delivery service. The `delivery` run has one driver
because liveness rules out symmetry; `DeliveryInv` and `StationsAreVisited` are
proved for any number of orders, drivers and handlers, and the two violation
runs use two drivers.

Workloads. `MCAuthService`, `MCRestaurantService` and `MCCashCollections`
choose one workload per behaviour (the variable `load`): a group of handlers
that contend for the same rows, with constants and starting conditions that fit
it. Every step is a step of the composed specification; what is left out is
only two workloads running side by side, say a hired employee while a customer
guesses codes. Where handlers of two components do share rows (`selfDriver`: a
driver who registers and is then approved; `phones`: a driver's phone changes
while he resets his password; `ratedCard`: a rating under a cached card), there
is a workload for it. `MaxRequests`, `MaxJobs`, `MaxChanges`, `MaxTasks`,
`MaxChores`, `MaxPosts`, `MaxSettlements` and `MaxCollections` cap the handlers
begun: enough for two that overlap and what has to come before them (an
account, a code, a restaurant, a category). Two attempts stand for the code's
five (`MaxAttempts`): the limit is reached and, by overlapping guesses, passed.

Fairness. `WalletTx!FairSpec`: a session takes its next statement (weak), and a
row that is freed again and again is eventually given to a session that waits
(strong), as PostgreSQL's lock queue does. Nothing forces a session to begin.
`Delivery!FairSpec`: time passes (weak, `Expire`), a started handler goes on
unless it stops (weak), and the sweep timer of `index.ts:15-20` comes round
again and again, so of infinitely many sweeps of an offer some gets to its
UPDATE (strong). A single sweep may still stop at any statement, and no handler
or driver is forced to act. Both specifications leave `Stop` and
`ConnectionLost` without fairness. `SettlesFairly` of `CashCollections`: a
settlement that runs sends its credits, and the wallet service processes the
requests of an order in some order, each weakly; nothing forbids that a
settlement fails or a call is lost instead, which `DeliveredIsPaid` allows for
by `missed`.

Deadlock is checked in the runs of wallets, orders and deliveries: those
services cannot stop for good (a wallet can always be opened or upserted, a
driver can always set his flags). The four other runs say `CHECK_DEADLOCK
FALSE`: their workloads end when the bounded number of requests is used up and
every handler has answered.

## 5. Proofs

All theorems hold for arbitrary constants under the named assumptions, which
TLC evaluates in the runs. They say three kinds of things. Sentinels are not
elements of the sets they are told from (`NoRef`, `None`, `NoDriver`, `Keep`,
...; a table's row is not null: `RowAssumption`, `MenuRowAssumption`,
`DriverRowAssumption`; an e-mail address is no phone). References and types of
the services are among those of the ledger, and functions between the sets have
the types of the columns. What is counted or summed is finite: the handlers and
orders of `Orders`, the requests, clerks and sessions of the auth service, and
the cash orders, restaurants and administrators of `CashCollections`. None says
how many there are.

*Ledger* (`WalletProofs`). `LedgerExplainsBalance`, `EventRecordedOnce` and the
types are inductive together; `FrozenStandsStill` is a property of each step.

*Transactions* (`WalletTxProofs`). `TxInv` is the inductive invariant: a session
past its SELECT holds the lock of its row, the row is still as it read it, only
such sessions hold locks, the checks that passed still hold, and no two
uncommitted inserts share a key. Without `RowOwned` the COMMIT would not be a
`Move` of `Wallet`; without `InsertsDiffer` a first COMMIT could take the key
of a second. From it every step of `Next` is a step of `Wallet` or a stutter
(`TransactionsImplementLedger`), and the ledger's theorems carry over.

*Handlers* (`WalletServiceProofs`). `ServiceInv` adds `CallsMatchRows` to the
properties: what a handler carries between its calls is still true of the
tables. This is what the properties alone lack: that a request about to insert
its payout holds a debit no payout points at yet, that a rejection about to be
written has returned the money. Ledger rows are never removed, so facts of the
form "row i is ..." are stable. `ReturnsStayWithinRequests` compares numbers of
rows: each return names one payout, that payout points at one debit of the same
wallet and amount (`ReturnsAreFunded`), no two payouts share a debit, and no
two returns share a reference, so returns inject into debits. The last step is
the ledger's `EventRecordedOnce`, which holds here because the handlers use
`Wallet`'s own operations (the lemma `HandlersKeepToWallet`, not a result in
itself: what the operations do statement by statement is `WalletTx`).

*Orders* (`OrdersProofs`). The properties compare numbers of ledger rows, and
are not inductive: nothing in them says that a handler told "debited" has a
debit no order uses. `OrdersInv` says so (`SpentOnce`): orders, creations about
to be written and the one refund of failed creations, added up, do not exceed
the payments of that customer and total. Each step moves one unit between these
terms or adds a payment first. `TasksFit` ties a waiting handler to its own
request, so an answer cannot credit another creation; `RefundsAreOwed`, a
conjunct of `OrdersInv`, says which reference and total each refund has.
`RefundsStayWithinPayments` then needs the ledger's `EventRecordedOnce`, which
holds because the steps of `Orders` on the ledger are those of `Wallet` (the
lemma `OrdersKeepToWallet`): refund rows of one total inject into the orders
and the failed creation they name. The premise on `doubtful` is needed: an
unanswered COMMIT leaves an order and a refund for one debit.

`RefundsFollow` needs an invariant of its own, `FollowInv`. As long as no write
of an order has overtaken another handler's check (`overtaken`), every handler
about to write has checked a transition from the status the order has now. So
the status becomes `cancelled` at most once and is never left; the handler that
wrote it is the only one that will send the refund (`Sends`); the refund is then
on its way, then booked, and the booking's key keeps a second one out. What
takes it off this path, a stop, a refusal or a loss, is in `forgone`.

*Deliveries* (`DeliveryProofs`). `DeliveryInv` relates each handler's snapshot
to its row: stamps (`accepted_at`, `picked_up_at`) are never cleared, so a
transition that was checked on an old row still has its predecessors stamped
when it is written, although the status itself may have moved anywhere.
`StationsAlwaysVisited` follows.

*Settlement* (`CashCollectionsProofs`). `SettlementInv` ties running
settlements, requests and ledger rows to pairs in `handed`, and says whose
wallet each kind of earning is booked on. With the ledger's types and keys,
`CreditPosts` is a `PayOwner` or a `PayCarrier` of `Earnings`: the event key
that must be free is what "not paid before" means, and `MoveRecords` says that
a move records its event and no other. Every other step stutters or hands over.
Collections touch none of this, so the same holds of the composition with them
(`SettlementsFitAmongCollections`, `EarningsArePaidOnceAmongCollections`). Its
ledger steps are those of `Wallet` (the lemma `SettlementKeepsToWallet`), so
the ledger's theorems carry over (`EarningsAreLedgered`).

*Cash* (`CashCollectionsProofs`). The limit alone, "the number of administrators
times the most the holder ever had", is not inductive: it does not say how much
those who have passed the check may still add. `MoneyInv` does (`Within`): with
k administrators not about to insert, what was collected is at most k times
that most; or else one of those about to insert, added to what was collected,
stays within k + 1 times it, because it was let pass when the sum was still
below. Whoever inserts uses up one place and makes one free. Earned sums only
matter through `MostEarned`, which never falls although orders are cancelled
and deliveries change hands (`MostGrows`). `SummaryStaysWithin` needs no
history: an owner's rows, each less all that was collected from the owner, add
up to what the restaurants took less at least one such collection
(`RowsWithin`), and what they took is among what the owner holds.

*Sums over sets* (same module). The totals are folds of the community modules.
Their definition is a recursive function chosen by CHOOSE, so the proofs first
show that it exists (`SumsExist`) and satisfies its equation (`SumIs`), then
what adding, removing and splitting a set does (`SumRemove`, `SumGrows`,
`SumParts`). The inductions in them are over the subsets of a finite set, by
`SubsetInduction`: a first-order lemma about the set of good subsets, proved
from the well-foundedness of the natural numbers.

*Accounts* (`AuthServiceProofs`). A limit that is read in one statement and
used in a later one is passed by the requests in between, so none of the three
bounds is inductive. `AccountsInv` counts those on their way too: unused codes
of an address plus requests about to store one (`Storing`) never exceed the
requests there are; likewise the attempts of a code with its wrong guesses
still to be counted (`Guessing`), and its uses with the requests that matched
it and have yet to mark it (`Holding`). `RequestsFit` says what a request knows
of the code it points at. The sets of requests are finite
(`AccountsAssumption`), so the arithmetic is that of `Cardinality` when one
request joins or leaves. `PasswordsProven` is a step property of the whole
service: a reset finds the account by phone, reads, marks and writes by id,
while jobs on staff give the account another phone or none. The invariant
behind it (`HadItsPhone`, `PhonesFit`) says that a reset on its way to its
write has matched a code sent to a phone the account has had, and phones had
are never forgotten (`PhonesStayFit`). That the code was sent to the phone the
account has *now* would be false, and the run's workload "phones" reaches such
a reset.

*Staff* (`AuthServiceProofs`). `StaffInv` follows an account from the statement
that creates it: as long as it lives, each row it needs is there or is still in
the set of statements its handler has left, and the catch block has only the
deletion left (`HireFits`). That is why `HiresAreComplete` cannot be broken by
another handler's updates: none takes a living account's rows away. `Room`
bounds the accounts by the requests and jobs begun, which types the new id. For
`ActiveByDecision` each write to a driver's row keeps the rule whatever the
handler had read before: an approval writes both columns, a rejection clears
the flag, and updateDriver() is remembered in `byHand`.

*Addresses* (`AuthServiceProofs`). `Balanced` is the invariant behind
`DefaultsBounded`: whichever set A of the transactions at work commits first,
the defaults they leave standing and the A they add are no more than the
sessions there are. A bound on the rows alone would not survive two commits
that clear the same default.

*Restaurants* (`RestaurantServiceProofs`). `RowsInv` says what the columns of a
row imply and that a running handler's row exists. It is preserved because every
UPDATE in `Written` keeps the rule for any row, not only for the one the handler
read. `OnboardingFits` follows an account from its creation to its restaurant
or its rollback. `CardsFit` adds the reader who has read and not stored: what
he holds is the servable row, or is marked `old` by the change that made it
wrong.

*Menus* (`RestaurantServiceProofs`). `MenuInv` adds to `MenusStayApart` what
each handler carries from its checks to its write (`ChoreFits`): the category it
will write was of its restaurant when it was checked. A category never changes
its restaurant, so that stays true of the row or the row is gone, and then the
foreign key refuses the write. The deletions are the long part: one cascades
over groups and options, or sets references of many rows to null.

*Ratings* (`RestaurantServiceProofs`). `RatingsInv` says what a transaction that
has recomputed knows: it saw the visible ratings and its own change, unless
another one has committed since (`late`), and that one transaction at a time is
past the lock of the restaurant's row.

`ServiceInv` of the restaurant service is the conjunction of these with the
types of the promotions; a step of one component leaves the rows of the others,
and the cache's entries that are not cards, alone (`OffCards`).

Compositions. The theorems whose names say nothing else are about the composed
`Spec` of their module's service: `TypeCorrect`, `ServiceKeepsRestaurants`,
`MenusApart`, `RatingsAreExact`, `HiresStayComplete`, `DriversActByDecision`,
`ServiceKeepsLimits`, `PasswordsAreProven`, and those of cash. Those about
`AccountsSpec`, `AddressSpec`, `RestaurantsSpec` and `SettlementSpec` state the
same of a component alone.

Only model-checked: the three liveness properties (`EveryTransactionEnds`,
`OffersEnd`, `DeliveredIsPaid`; fairness and ENABLED are beyond the prover), and
the violations, which are counterexamples. Every other property of a passing run
is stated by a theorem, and where the run takes one workload at a time, the
theorem has all of them interleave.

## 6. What the checks found

- **Payouts can be approved and rejected.** Both handlers check `pending` on a
  row they read, then update by id. The money is returned and paid out.
- **One wallet payment per customer.** The debit of an order carries the
  customer's id as its reference, and the idempotency index refuses the second.
  `OrdersArePaidFor` still holds: the second order is refused, not unpaid.
- **Accepted deliveries can change hands.** A sweep, a decline or a reassignment
  that read the offer before its acceptance overwrites it.
- **Requeued deliveries wait for ever.** The sweep looks at `assigned` rows only.
- **Subcategories can have subcategories.** updateCategory() looks at the new
  parent only, not at the children of what it moves.

What the bounds say about races the code allows: a second code may be open, a
sixth wrong guess compared, one code may serve two overlapping resets, two
addresses be the default, and two administrators collect the same cash. Each
property states how far that goes: no further than there are requests at once.

Read in the code while modelling, and kept as it is: `restaurant:ID:details` is
deleted by no handler, and a menu's entry survives a block, a closing or a
rejection, for five minutes at most; a card's `branches_count` and rating, and
the options within a menu, change without a deletion. No document bounds how
old an entry may be, so the only property of the cache is about cards of
restaurants that may not be shown (`CardsAreServable`). Also: two overlapping
updateCategory() calls can make two categories each other's parent;
updateGroup() checks no bounds where createGroup() does; collectCash() accepts
any amount when nothing is pending; register() trusts the e-mail without a code
(the check is commented out); the delivery service's creditWallet() does not
look at `response.ok`.

Also modelled as it is, without a finding because no document says otherwise: an
order written by two handlers that checked the same status may be delivered and
refunded, or cancelled and not (`overtaken`), a refund that is lost is not
repeated, a stopped payout request keeps its debit
without a payout, a driver payment whose credit was booked before a stop can
never be marked paid.

## 7. Not modelled

Reads (listings, analytics, search, discovery) change nothing. Prices are
amounts; `toFixed(2)` appears as amounts in hundredths, with 0 among them.
Redis events feed only the notification service. Without a service token
walletDebit() and walletRefund() do nothing; the models assume it is
configured. Freezes are in `Wallet`, `WalletTx` and `WalletService`; in
`Orders` a freeze would refuse calls, which a lost call does already. Access
checks are left to the callers' roles, except where a handler compares owners.

Of the auth service: log-in, refresh and the user's own profile and device
tokens are reads or single-row updates; the rate limit keeps request times in
the memory of one process, nothing else depends on it, and the models let any
number of requests through, up to their bounds. Of the restaurant service:
uploads, lists, statistics and favourites; carts and home data of the
discovery controller are queries or single inserts. When
ensureOwnership() refuses blockRestaurant() or unblockRestaurant(), both it and
the handler answer, which Express reports; nothing is written, and only the
requests that pass are modelled. When a banner shows is a comparison of dates
in a query.

The notification service listens to Redis events, at most once, and nothing
reads its inbox back into orders, deliveries or wallets. The payment service has
only a health endpoint, the analytics services only queries; the shared
libraries validate input and load configuration.
