# GunSnip: a verification project

TLA+ models of the GunSnip store: its ordering core, the desks its operators work
at, and what browsers do with carts, lists and answers. They are checked with TLC
on small instances, and every safety property is also proved with TLAPS, for every
value of the constants.

## 1. The system

GunSnip is a storefront for model kits: a Next.js client, a NestJS server and
one PostgreSQL database. Everything that has to be right happens in the server,
in database transactions at READ COMMITTED with explicit row locks. There is no
queue, no outbox and no cache of mutable state; the only state outside the
database is the `isSweeping` flag of the expiry job and the rate limiter's
windows, both per process.

### Inventory

| Component | State it keeps | Operations | Interacts with | What is hard | What makes it correct |
|---|---|---|---|---|---|
| Placement (`orders/order-placement.service.ts`, `order-unit.ts`, `basket.query.ts`) | order, items, payment, redemption, idempotency key | `place`, replay of a key | stock, vouchers, cart, payments, mail | double clicks, two tabs, two buyers of the last unit, rollback, crash after commit | one order per key, one order per cart line, nothing oversold, no lost update, no deadlock |
| Order lifecycle (`order-status-machine.ts`, `order-transition.ts`, `fulfilment-effects.ts`) | `order.status`, events | buyer and operator cancel, `advance` | stock, ledger, vouchers, mail, shipment | cancel against sweep against callback against operator | each hold ends once; the counters are what the orders say |
| Fulfilment desk (`order-fulfilment.service.ts`) | shipment row and its stamps | `advance`, `setShipment` | lifecycle, mail, review invites | reads outside the transaction; effects after the commit lost in a crash | nothing ships without a courier; nothing is stamped twice |
| Payments (`payments/`) | `payment.status`, event log, `isSweeping` | callback, operator settlement, expiry sweep | lifecycle | late, repeated and racing callbacks; sweep over a stale list; two processes; poisoned batch | order and payment never contradict each other; unpaid orders close |
| Stock (`inventory/`) | `stock_on_hand`, `stock_reserved`, movement ledger | reserve, release, consume, adjust | everything above | both counters are overwritten by every writer | reserved = held by open orders; reserved <= on hand; shelf = ledger |
| Vouchers (`vouchers/`) | voucher, `used_count`, redemptions | evaluate, redeem, return, admin edits | placement, cart | two checkouts at the limit; limit lowered under use | used = redemptions, within both limits |
| Cart (`cart/`, client's `features/cart`) | carts, lines, attached voucher; a queue of clicks per tab | add, add bundle, quantity, tick, remove, voucher | placement, catalogue | two tabs adding at once; first request twice; a bundle's rows changed one by one; answers lost; edits during checkout | no addition lost; one cart per session; bundles whole; clicks in order and all answered |
| Reviews (`reviews/`) | review, invite, rating aggregate | issue, submit, moderate, list | orders, mail | invite used twice or late; two moderations at once | one review per spent invite; only of what arrived; aggregate = approved reviews |
| Order mail (`notifications/`) | none | `notify` | lifecycle, reviews | sent after the commit, lost in a crash | at most one mail per status reached, none about a status not reached |
| Product desk (`catalog/product-*`, `variant-*`, `image-*`, `requirement-admin`) | product, variants, gallery, files, tools | publish, price, archive, upload, reorder, delete | media, placement | derived columns rebuilt from rows others change; files outside transactions; partial edits | price range, markdown, main picture, file of every row, date of first publication |
| Category tree (`catalog/reference-*`) | categories | create, move, delete | catalogue | checks before writes | a forest, each tree of one type |
| Banners (`catalog/banner*`) | banner, its picture | create, edit, remove, upload | media | partial edit, picture replaced | window open, picture there |
| Voucher desk (`vouchers/voucher-admin`) | voucher | create, edit, remove | placement | partial edit of a shape; edits under redemption | the shape holds as a whole |
| Lists (`common/pagination`) | none; the cursor is the client's | read a page | every admin list, product reviews | rows come, go and move while someone pages; equal timestamps; search and cursor together | every row that stays is seen once; pages keep the search |
| Search field and filter sheet (client) | text, timer, requests under way | type, tick, reopen, answer | search, catalogue | answers out of order, after an abort, or never | the newest answer is the one shown |
| Rate limiter (`common/rate-limit`) | window and count per key | `take` | guards | window boundary | never more than the limit per window |
| Catalogue reads, server-side search, shipping, admin controllers, shared package | reference data | queries | placement reads prices and zones | little concurrency | out of scope, see section 8 |

Interaction is by direct call inside one process, and by row locks between
processes. A placement takes, in this order: the idempotency key row, the
variant rows by id, the voucher row. A transition takes the payment row (if a
payment moves it), the order row, the variant rows by id, the product rows, the
voucher row.

## 2. Modules

| Module | What it is |
|---|---|
| `OrderRules` | the two status machines, what an order status costs, what a payment status implies; tables only |
| `StockRules` | the arithmetic of a variant's two counters: reserve, release, consume, adjust |
| `RunningTotals` | the sum of a function on `1..n` without recursion, so that TLC evaluates it and TLAPS reasons about it |
| `OrderFlow` | orders, stock, ledger, voucher uses, payments and the sweep; one step per transaction; extends the three above |
| `StockPromise` | abstract: claims on the shelf, order by order, without counters |
| `MCOrderFlow` | the baskets of the small instances |
| `RunningTotalsProofs`, `OrderFlowProofs` | theorems and proofs about orders, stock and payments |
| `SumTheorems` | induction over finite sets and numbers, the greatest of a finite set, sums over finite sets: the facts the other proofs share |
| `Checkout` | `POST /orders` statement by statement, with its locks, rollbacks and crashes |
| `OrderPromise` | abstract: an order is placed in one step, on what is true at that moment |
| `MCCheckout` | two situations for `Checkout`: a double click, and two tabs |
| `CheckoutProofs` | theorems and proofs about placing an order |
| `LockOrder`, `MCLockOrder` | the row locks of the transactions that share rows with one another, in order and strength; a small instance |
| `LockOrderProofs` | theorem and proofs about deadlock |
| `Reviews` | invites, submissions, moderation and the rating counters |
| `FulfilmentDesk` | `advance` in its steps, `setShipment` beside it, mails; extends `OrderRules` and `Reviews` |
| `MCFulfilmentDesk` | one order of two lines, three forms, two moderations |
| `FulfilmentDeskProofs` | theorems and proofs about mails, shipments, invites, reviews and counters |
| `Desk` | a request of an operator: checked first, written later, possibly never |
| `ProductDesk`, `CategoryTree`, `BannerDesk`, `VoucherDesk` | what such requests do to a product, the tree, a banner, a voucher; each extends `Desk` |
| `BackOffice`, `MCBackOffice` | the four desks composed; three requests |
| `BackOfficeProofs` | theorems and proofs about vouchers, images, banners, the tree and the product |
| `CartTabs` | the cart of one session under several tabs |
| `KeysetList` | a walk through a list page by page |
| `SearchBox` | the search field and the filter sheet |
| `Frontend`, `MCFrontend` | the three composed; a small instance |
| `FrontendProofs` | theorems and proofs about carts, walks and the search field |

### OrderFlow and the code

A transaction locks the rows it reads before it reads them, so it is one step;
one that throws changes nothing, so it is no step (or, where the code swallows
the error, a step that changes only what is outside the database).

* `Place` is what a placement leaves in the order, stock, payment and voucher
  rows. The key, the cart and the mail are `Checkout`'s.
* `LinesReservable` and `ReserveLines` keep what the code does with a variant on
  two lines: each line is checked against the locked level, and the last write
  wins (finding 1). The order of two equal ids after the sort in
  `writeStockLevels` is not specified, so the line that wins is chosen freely.
* `TransitionOrder` is `transitionOrder` whole: legality under the order's lock,
  stock, ledger, status, voucher. `BuyerCancel`, `OperatorCancel`, `Advance` and
  `Settle` all go through it, as their counterparts do.
* `Settle` is `PaymentsService.apply`: log, legality, payment, order. `Callback`
  takes any status `parseCallback` can report and adds a history variable,
  `disputed`, for a paid callback that was refused.
* `StartSweep`, `SweepNext`, `EndSweep`, `Restart` are the expiry job: the list is
  read in one step and used in later ones; an element that throws is stepped
  over; a restart loses the flag and the list. `Sweepers` are server processes.
* `PaymentWindowCloses` is the clock. Windows have one length, so payments fall
  due in the order they were placed.
* `RecordFulfilment` writes the movement rows and `units_sold`. The code keeps
  `units_sold` per product; `sold` has each variant's part of it, which adds up.
* Shipments (the courier a dispatch requires included), their stamps, mail and
  review invites are in `FulfilmentDesk`.

### Checkout and the code

`pc` is the statement a request has reached. Writes of a transaction become
visible in `Commit`; what was read before is in `seen[r]`. `lock` and
`voucherLock` are `FOR UPDATE` row locks, `keyRow` the unique key: a second
`INSERT ... ON CONFLICT DO NOTHING` waits while the first transaction is open
(`Claim` is not enabled), finds the key once it has committed, and may claim it
once it has rolled back. `Refuse` is a rule that throws, `Abort` a timeout or a
crash before the commit, `Dies` a crash after it. `EditLine`, `AttachVoucher` and
`CancelOrder` are the rest of the store. Prices are reduced to one bit: whether
the total the customer confirmed has the voucher's discount in it.

### LockOrder and the code

A job is a request to do one of eight things; `Program` is what its transaction
locks, in order, and how strongly: `all` for `FOR UPDATE`, a delete or an insert,
`row` for an update that leaves the key alone, `key` for what a foreign key locks in
the row it refers to. `Conflict` is PostgreSQL's table for the three. A placement
locks its key, the variants by id, the voucher, the cart lines and the cart; a
release the order, the variants and the voucher; a dispatch the order, the variants
and then the products, in the order of the variants' ids; a cart request its lines as
they were asked for, then the cart; attaching a voucher the cart, then (through the
foreign key) the voucher; a repricing its variant, then the product; a moderation its
review, then the product. A payment is locked with its order in one statement, so the
order stands for both. `RollBack` is any way a transaction ends without a commit.

Left out are the transactions that lock several rows no other kind locks: the required
tools of a product, its images (create, reorder, delete, make main), the creation of a
product or a variant, the order of the banners, the review an invite is spent on. Beyond
rows of their own tables they take at most a foreign key's lock on the product, which no
update of a product conflicts with. A ring with one of them in it consists of such
transactions only; two arrangements of one gallery that name its images in different orders are one.

### FulfilmentDesk, Reviews and the code

`Advance` is `advance` up to its transaction: the order, its status and its shipment
as they were read. `Commit` is the transaction, `StampShipment`, `ComposeMail` and
`SendMail` the rest of the method, and `Crash` may come before any of them. A mail
that the transport refuses is logged and swallowed. `SettlePaid` and `Abandon` are the
other ways an order moves, each read first as well. The delivery mail mints invites
while it is composed, so a mail that fails leaves invites nobody has (`known` is what
reached a customer). `Submit` reads the link, `CreateFromInvite` spends it. A
moderation is three statements at READ COMMITTED: it sees its own verdict and what
others have committed (`SeenApproved`), and a second writer of the product waits and
then overwrites.

### BackOffice and the code

A request `Begin`s by reading what it is checked against; it writes in later steps,
and other requests run in between. What a transaction reads inside itself is a step of
its own only where READ COMMITTED lets another commit come between (`WriteVariant` and
`CommitVariant`, `DeleteRequirements` and `InsertRequirements`). `overlapped` is what
two requests have been in flight about at once: for those things the code promises
nothing, and the properties that need it say so. Updates are partial: `CheckEdit`,
`CheckBanner` and `CheckVoucher` merge the sent columns with the row that was read,
and only the sent columns are written, but for the end of a window, which is written
with its start. The four desks share no rows, so a behaviour is about one part
(`WorkingOn`): an interleaving of two parts is one of each.

### Frontend and the code

* `CartTabs`: the cart page sends its clicks one at a time in order (`queue`, `Send`),
  a button sends its own and is busy meanwhile. A tab of the model is one queue and one
  button. The queue is a `useRef` of the cart page and each button is busy on its own, so a
  page opened again while its old queue still runs, or a second button, is another tab of
  the model: nothing in it depends on which window a request comes from. `Handle` is the server's side: what it
  reads (`CheckAdd`, `ReadLines`, `FindLine`, `ReadGroup`, `FindCart`) and the one
  transaction it then writes, which fails as a whole if a row it names by id has gone
  (`AsSeen`). `LoseAnswer` is a tab that gives up on a request the server still serves.
* `KeysetList`: `Sorted` is the ORDER BY of a list, `CursorOf` what its cursor says,
  `PastCursor` the filter a cursor becomes; they are the same order except in the order
  list, whose sort breaks ties by id and whose cursor by order number. `Filtered` keeps
  what happens when a search and a cursor are spread into one `where`.
* `SearchBox`: an abort does not take a request out of the network, and its answer may
  still arrive. `Suggested` drops it then, as `use-suggestions.ts:71-73` does. `Recounted`
  shows it, as `use-draft-filters.ts:62-63` does (finding 5); only the end of the wait and
  a failure ask whether the request was aborted.

## 3. Runs

| Run | Instance | What it shows |
|---|---|---|
| `order_safety` | 2 orders, 2 variants, stock 2 (at most 3), baskets: one kit, two kits, a bundle of both variants; 1 voucher use, 1 sweeper | type invariant, `StockConserved`, `NoOversell`, `LedgerBalanced`, `SalesCounted`, `HoldsAreRedeemable`, `VoucherUsesCounted`, `PaymentAgrees`, `DispatchKeepsAvailability`; `OrderFlow` implements `StockPromise` (`KeepsPromise`) |
| `order_sweep` | 3 orders, each of one variant or of another one on two lines; stock 1, 1 sweeper, lists of 2, restarts; fairness | `UnpaidOrdersClose`, with a payment in the list that throws in every sweep |
| `checkout` | two situations (`Occasions`), each with 3 requests, 1 unit of each of 2 variants, 1 voucher use, aborts, crashes, cancellations; fairness. `ClickTwice`: a double click, and another buyer after the same two units, added in the opposite order. `TwoTabs`: one line under two keys, and another session with another variant under one of those keys | `TypeOK`, `ReplaysFindTheirOrder`, `ReservationsAddUp`, `NoDeadlock`, `MailedOnce`, `OneOrderPerKey`, `AnsweredWithOwnOrder`, `LineOrderedOnce`, `VoucherWithinLimits`, `EveryRequestEnds`; `Checkout` implements `OrderPromise` (`PlacedAtOnce`) |
| `lock_order` | 3 transactions, each any of 23 jobs over 2 carts, 4 variants of 2 products, 3 orders, 2 reviews, 1 voucher | `OnlyCrossingsDeadlock` |
| `after_sale` | 1 order of 2 lines of one product, 2 requests at the desk, 3 forms (two for one link), 2 moderations; symmetry | `TypeOK`, `MailsAreTrueAndOnce`, `ShipmentFollowsOrder`, `ReviewsFollowDelivery`, `SpentInviteHasReview`, `SettledCounters` |
| `back_office` | 3 requests; 2 variants, 3 images, 2 tools; 3 categories of 2 types; 3 pictures; 4 vouchers; symmetry | `ProductInOrder`, `RowsHaveFiles`, `TreeInOrder`, `BannerShows`, `VoucherKeepsItsWord` |
| `frontend` | 2 tabs, 2 clicks, a kit loose and in a bundle with 2 nippers; lists of 3 rows in pages of 1; 3 keystrokes or ticks; fairness | `BundlesWhole`, `ChoicesInClickOrder`, `AdditionsAddUp`, `EveryClickAnswered`, `EveryRowSeenOnce`, `NewestAnswerShown` |
| `order_split`, `review_counters`, `category_cycle`, `filter_sheet`, `admin_search` | as small as they go | the findings of section 7 |

### Bounds, and why they are enough

* Orders: two compete for a unit, and one may be released while the other is
  placed. An order visits at most six statuses, so no behaviour is cut short.
* Stock 2 with baskets of one and two lets the shelf be sold out exactly, one
  short, and by two different mixes. `MaxStock` 3 leaves room for one adjustment
  up; adjustments are by one, which crosses every boundary of `adjustStock`.
* One voucher use makes the limit reachable by the second order.
* In `order_sweep` `Batch` is 2 and there are 3 orders, so a list can be shorter than what
  is due and a later sweep has to come back. Only one variant can be split and there is one
  unit of it, so one payment at a time throws: it is in every list, before or between the
  others. A second one would fill the batch, which `WithinReach` exempts. Buyers, operators
  and callbacks make lists stale with one sweeper as with two.
* In `checkout` three requests are a retry, its original and a third party; two variants are
  the fewest that can be locked crosswise. Every request runs once, so `Checkout`
  needs no bound on its length. The one use and the one unit are what both situations are
  after, and which of them a behaviour is about is chosen at the start.
* `Sources` has one bundle: more would add lines, not cases.
* Three transactions can wait in a ring of three; the jobs of `MCLockOrder` name
  variants in both orders, share carts and orders, and have products whose order is not
  that of their variants. Every kind of crossing is met alone in some deadlock.
* `after_sale`: two requests are two operators at one button, or one and a payment.
  Three forms are two for one link and one beside them; two moderations overlap.
* `back_office`: three requests are an edit, another that comes between its check and its
  write, and one that undoes or repeats either. Three categories are the fewest with a
  grandparent; the cycle needs two. Prices, times and amounts are two or three values, as
  the code only compares them; half and all of 0, 2 or 3 rupiah are discounts that are
  nothing, exact, rounded down, capped and uncapped; `MaxRedemptions` 1 is a voucher that is in use.
* `frontend`: two tabs of two clicks in all are every pair of requests, in one tab or two.
  `MAX_QUANTITY_PER_LINE` is 10 in the code and `MaxPerLine` 3 in the model, so that two
  adds reach it; a shelf of 4 is two bundles. A list of three rows in pages of one has a
  first, a middle and a last page, and one spare id and two changes let a row come while
  another goes. Three events allow a request to be superseded twice. A shelf of 2 sells one
  bundle of two and no second one, so that bundles are capped without being sold out.

Deadlock is checked in every run of `MCOrderFlow`. It is off in the others, which
stop when every request, form or click there is has been dealt with. Whether
requests block each other is `NoDeadlock` and `OnlyCrossingsDeadlock`.

### Fairness

* `OrderFlow!Fairness`: time passes (weak fairness of `PaymentWindowCloses`), the
  cron ticks and a sweep that has gone through its list ends (weak fairness of
  `StartSweep` and `EndSweep`, the `finally` of the job). Restarts may interrupt sweeps
  again and again, so getting past a payment (`GetsPast`) has strong fairness, for each
  sweeper and order: restarts do not for ever hit a sweep just before it deals with the same
  payment. No buyer, operator or provider is assumed to do anything.
* `Checkout!FairSpec`: the server goes on with every request it has accepted
  whenever it can. Aborts and crashes are not assumed, so they cannot be what
  ends a wait.
* `Frontend!FairSpec`: a tab sends the next click when the one before is answered, and
  the server (or the network, with a failure) answers what was sent. Nobody is assumed to
  click, and nothing is assumed of lists and search fields.

`FulfilmentDesk`, `BackOffice` and `LockOrder` state no fairness: an operator's request
may die at any step, and the code retries nothing.

## 4. What the properties are about

Each property is aimed at a hazard of `PROJECT.json`. The invariants of
`OrderFlow` relate counters to the orders they stand for, over everything that
moves either; those of `Checkout` relate answers, keys, lines and rows over
everything that can come between two statements. Every property of a passing run
has a mutant: the definition of the code it guards, changed the way a bug would
change it (a dropped lock, a stale read, a missing guard, a flag not reset), which
the same run then refutes. The mutants stand before the definitions they change.

`StockConserved` and `HoldsAreRedeemable` speak of variants that no basket carries on
two lines (`NeverSplit`): for the others the code does not keep them, which is finding
1. `UnpaidOrdersClose` is about orders that have no such variant (`Sound`) and do not
stand behind a whole batch of orders that have one (`WithinReach`). In the same way
`SettledCounters` speaks of products whose moderations never overlapped (finding 2),
`TreeInOrder` of trees no two moves of which were checked at once (finding 3), and four
conjuncts of `ProductInOrder` and `OnlyCrossingsDeadlock` name the overlap the code does
not guard against; what happens then is in section 7. `AdditionsAddUp` is about every
interleaving of requests, but not about a line that two of them were to write at once
(`raced`), nor about a second cart if two additions were under way before the first
(`crowded`): those are the lost addition and the second cart of section 7.
`NewestAnswerShown` leaves out a count that was aborted and comes after the newest one
(finding 5); an aborted one that comes before the newest must be gone when the sheet
stops counting. `EveryRowSeenOnce` leaves out order lists with equal timestamps,
`ChoicesInClickOrder` behaviours with a lost answer, and `BundlesWhole` behaviours in
which a component was sold out. `NoOversell`, `LedgerBalanced`, `SalesCounted` and
`PaymentAgrees` hold for all.

## 5. Abstract specifications

`StockPromise` says what the store promises about its shelf: a claim is opened,
and is then given back or shipped, once; what is shipped is what was claimed; and
after every step the shelf covers all open claims. `OrderFlow` implements it under

    onHand <- the shelf column of stock
    claim  <- open while the order's status is in Holding, returned when it is
              cancelled or expired, shipped from SHIPPED on
    wants  <- the quantities on the order's lines

The abstract specification has no `stock_reserved`: that the concrete counter does
its job is what the refinement shows.

`OrderPromise` says what a placement is to whoever looks from outside: one step, whose
conditions (the key unused, the lines in no other order, the units there, a use of the
voucher left if the total has its discount) are all judged in the state it is taken in.
A cancellation is one step as well, and so is an answer. `Checkout` implements it with
the variables `orders`, `cancelled`, `redeemed` and `answer` as they are: `Commit` is
`Place`, `CancelOrder` is `Cancel`, `Confirm` and a successful `Replay` are `Answer`, and
everything else is invisible. It has no locks, no `stock_reserved`, no cart and nothing
that was read: that reading under locks comes to the same is what this refinement shows.
The cart is left out because there it does not: a line whose quantity another tab changes
between the reading and the commit is ordered as it was read, and deleted with the change
(`PROJECT.json` lists it as a hazard).

## 6. What is proved

Every invariant, every action property and both refinements that the passing runs check
are theorems, for every value of the constants. They rest on the named assumptions of the
modules and on nothing else: counts and limits are natural numbers, functions on the
constants have the types the schema gives them, and some sets of rows are finite (see each
part). `SumTheorems` has the inductions they share: over finite sets and over numbers
(without an operator as a parameter: the property is the set of what has it), that a
non-empty finite set of numbers has a greatest, and that a sum over a finite set may be
taken element by element in any order.

### OrderFlow

From the assumptions that counts are naturals and baskets are quantities per source and
variant:

| Theorem | Statement |
|---|---|
| `Typing` | `Spec => []TypeOK` |
| `VoucherUses` | `Spec => []VoucherUsesCounted` |
| `PaymentAgreement` | `Spec => []PaymentAgrees` |
| `NeverOversold` | `Spec => []NoOversell` |
| `LedgerExplainsShelf` | `Spec => []LedgerBalanced` |
| `SalesAreCounted` | `Spec => []SalesCounted` |
| `ReservedIsHeld` | `Spec => []StockConserved` |
| `HoldsRedeemable` | `Spec => []HoldsAreRedeemable` |
| `ShelfMoves` (proved only) | `Spec => ShelfMovesOnlyByDispatch` |
| `DispatchIsNeutral` | `Spec => DispatchKeepsAvailability` |
| `StoreKeepsPromise` | if no basket splits a variant, `Spec => KeepsPromise` |

They hold for any number of sweepers: two server processes are one case.

`TypeOK` and the two order properties are not inductive one by one. A step of a
payment is only known to be legal for its order when the two statuses agree; a
voucher count only stays a natural number because an order with a redemption row
is never one that has given it back; and the release of an order only keeps
`stock_reserved` a natural number because its guard says so. So the first
invariant is

    Grounded == TypeOK /\ VoucherUsesCounted /\ PaymentAgrees

and on top of it

    IInv == Grounded /\ NoOversell /\ LedgerBalanced /\ StockConserved /\ SalesCounted

The argument: every step is of one of a few kinds for the stock (`StepKinds`): it
places an order, moves one order along (holding, releasing or consuming), adjusts
one variant, or leaves the rows alone. For each kind the lemmas say what it does
to a level (`ShelfStep`), to what one order holds (`HoldsMove`) and so to the sum
(`ReservedStep`; `SalesStep` for what was dispatched). The sum is a `RunningTotals` total,
for which `RunningTotalsProofs` has the two facts needed: the total of nothing is zero, and
changing one addend changes the total by the difference (`TotalUpdate`). Both are
proved by exhibiting the run of partial sums, without induction.
`HoldsAreRedeemable` follows from `IInv`: an order's share is at most the total,
the total is `stock_reserved`, and that is at most `stock_on_hand`. The refinement
follows the same way: `Covered(v)` after a step is `StockConserved` and
`NoOversell` after it (`ClaimsCovered`), and each kind of step maps to one abstract
action or a stutter (`PromiseSteps`).

### Checkout

From what the constants are (requests name a buyer, a key and positive quantities of
lines; limits are naturals). There may be infinitely many requests, buyers and lines;
that finitely many orders are live and redeemed is part of the invariant.

| Theorem | Statement |
|---|---|
| `KeyTheorem` | `Spec => []OneOrderPerKey` |
| `ReplayTheorem` | `Spec => []ReplaysFindTheirOrder` |
| `AnswerTheorem` | `Spec => []AnsweredWithOwnOrder` |
| `LineTheorem` | `Spec => []LineOrderedOnce` |
| `VoucherTheorem` | `Spec => []VoucherWithinLimits` |
| `MailTheorem` | `Spec => []MailedOnce` |
| `UpdateTheorem` (proved only) | `Spec => NoLostUpdate` |
| `ReservationTheorem` | `Spec => []ReservationsAddUp` |
| `TypeTheorem` | `Spec => []TypeOK` |
| `DeadlockTheorem` | `Spec => []NoDeadlock` |
| `AtomicityTheorem` | `Spec => PlacedAtOnce` |

The inductive invariant `IInv` says what each lock protects. `KeyInv`: a key is held by the
transaction that inserted it, from there on by that transaction's order, and by nobody
else. `LockInv`: from the moment its rows are locked a request holds every variant it
looked up, and one that is writing was acceptable as read. `LevelInv`: the reservation a
request has read of a row is true while it holds the row; hence `NoLostUpdate`. `LineInv`:
a line in an order is gone from the cart for good, and no request that has read it as
there is wrong about that, because the order would have needed the row lock the request
holds. That is why the basket must be read after the locks. `UseInv`: a request that
found a use of the voucher left holds its row, and the use is still left. `OthersKeep` says
that a step of one request touches neither the statement, the reading nor the locks of
another, so that each case is about one request only.

On top of it `StockInv` says that only orders are cancelled, that finitely many are live
and that each row is the sum over them: a commit adds its request to the sum and a
cancellation takes it out. Reservations being sums of quantities they are naturals, which
is what `TypeOK` needs. `NoDeadlock` has an invariant of its own: only a request that has
begun to lock holds rows, none beyond one it has still to lock, and the voucher's after all
of them; so the request of a set that is furthest along (key, variants by id, voucher)
waits for none of the others (`FurthestWaitsForNone`). The refinement uses all of it:
the conditions of `Place` are those the invariants give at a commit (`CommitPlaces`),
and `AnsweredLast` is added for the answers.

### LockOrder

`CrossingTheorem`: `Spec => []OnlyCrossingsDeadlock`, for any number of transactions and
jobs, over any rows. Every program that crosses nothing takes its locks in one order of nine
stages (`Stage`): the lines an add or a change names, the cart an add's foreign key locks,
the variants it locks, keys and orders, variants, the voucher, a placement's lines,
products, the cart that is touched last; variants come by id, and there is one product at
most (`StepsInOrder`, and the lemmas about each job before it). The invariant

    Inv == TypeInv /\ Exclusive /\ FewBegan

says that conflicting locks have one holder and that finitely many transactions have begun.
So what blocks a transaction of a ring is held by another one of it; if none of them
crosses, the one in the way is always further on, at a later stage or a variant with a
greater id (`BlockerIsFurther`), and the furthest of finitely many is blocked by nobody.
Why `Crosses` is needed is what TLC shows (section 7).

### FulfilmentDesk and Reviews

| Theorem | Statement |
|---|---|
| `TypesHold` | `Spec => []TypeOK` |
| `MailsTrueAndOnce` | `Spec => []MailsAreTrueAndOnce` |
| `ShipmentsFollowOrders` | `Spec => []ShipmentFollowsOrder` |
| `ReviewsAfterDelivery` | `Spec => []ReviewsFollowDelivery` |
| `SpentInvitesHaveReviews` | `Spec => []SpentInviteHasReview` |
| `CountersSettle` | `Spec => []SettledCounters` |

for any orders, lines, products, forms and moderations, from `OrdersAssumption` (a line is
of one order) and the types of the forms. The invariant is

    Inv == TypeInv /\ MailInv /\ ShipInv /\ DeliveryInv /\ SpentInv /\ CountInv

`MailInv`: every legal transition goes up in `Rank`, so an order reaches a status once and
by one request, which alone may still mail about it. `ShipInv`: a courier that was booked
stays booked, so a dispatch that read one still has one at its commit. `DeliveryInv`:
links are minted only by a delivery, and only a mailed link is submitted. `SpentInv`: an
invite is spent by the transaction that stores its review, so it is spent exactly when
there is one, whatever other forms have read. `CountInv`: while no two moderations of a
product have overlapped, what an open one has counted is what a count would give now.

### BackOffice

From what the constants are (sums, days and prices are naturals, percentages are in
1..100, requested vouchers have a voucher's columns; categories and images are finitely
many):

| Theorem | Statement |
|---|---|
| `VoucherWord` | `Spec => []VoucherKeepsItsWord` |
| `RowsKeepFiles` | `Spec => []RowsHaveFiles` |
| `BannersShow` | `Spec => []BannerShows` |
| `TreeTheorem` | `Spec => []TreeInOrder` |
| `ProductTheorem` | `Spec => []ProductInOrder` |

A step belongs to one request and names one part of the back office (`Touches`,
`Elsewhere`), so each invariant looks at the steps of its own part and is untouched by
the others. All are strengthened by what is in flight. `VoucherInv`: what a checked
request is about to write has its shape; that such a voucher keeps its word is arithmetic
(`DiscountWithin`). `GalleryInv`: two requests are never about to make, or to remove, one
image, and a stored upload has its file. `BannerInv`: a picture named only once is
there, and nobody has read it, until the edit that names it writes it; from then on
only a banner that no longer shows it can remove it.

The tree and the product have `TurnInv`: of two requests in flight about one thing the
overlap is recorded, so until it is, what a request has read is still so. `Descendants` is
a recursive function of levels; `UnderIsLeast` shows that it is the least set closed under
children, and with that the proof is about sets: a move of `c` under a parent that is not
below `c` leaves every category outside its own descendants (`CategoryMoved`). The product's
invariant

    ProductInv == ProductShape /\ StatusInv /\ PricesInv /\ RequiresInv /\ ArrangedInv /\ TurnInv

has one part for each group of derived columns, each kept by the steps of its own requests
and left alone by the others'. `ArrangedInv` is about positions: those of `n` images are the
numbers below `n`, which closing the gap behind a deleted one (`PlacesClose`) and numbering
them again (`NumberedOnce`, `EachOnce`) preserve by counting.

### Frontend

From `CartAssumption` (finitely many tabs and variants), `ListAssumption` (finitely many
ids) and `EventsAssumption`:

| Theorem | Statement |
|---|---|
| `SearchTheorem` | `Spec => []NewestAnswerShown` |
| `AdditionsTheorem` | `Spec => []AdditionsAddUp` |
| `BundleTheorem` | `Spec => []BundlesWhole` |
| `ChoicesTheorem` | `Spec => []ChoicesInClickOrder` |
| `WalkTheorem` | `Spec => []EveryRowSeenOnce` |

`FieldInv` and `SheetInv`: every request under way but the newest has been aborted, and what
is typed or ticked is shown, failed, under way or about to be asked for; a
sheet that has stopped counting waits for aborted requests only, and until one of those is
answered its count is that of its draft. The three
theorems on carts stand on `CartFrame` (rows, ids, requests in flight and carts are well
formed; ids are given out once). `AddInv`: as long as two requests do not name
one line (`WritersApart`), what a request has read of a line is what is due there when it
writes (`ReadsDue`), whatever others do to the rest of the cart, so that every row has the
quantity due (`RowsDue`); only the first of two additions can find no cart (`FirstCart`). `BundleInv` and `ShelfInv`: rows of
a bundle are written together in proportion, and each request in flight will write them so
(`Intent`) whatever rows others write meanwhile. `OrderInv`: a tab's clicks wait, go out
and are accepted in the order of their numbers. `ListInv`: a row that stays and is wanted
has been shown once if the cursor has passed it and not at all otherwise; that positions
are totally ordered and that a page is the first rows past the cursor make it inductive.

### Only model-checked

Liveness under fairness, which TLAPS does not prove: `UnpaidOrdersClose`,
`EveryRequestEnds` and `EveryClickAnswered`. And what the runs of section 7 refute.

## 7. Findings

1. **A variant on two lines of one order is reserved once** (`order_split`).
   `order-placement.service.ts:88` computes each line's level from the locked one;
   `writeStockLevels` overwrites the row once per line. A kit bought loose and
   inside a bundle reserves only one of the two quantities. If nobody pays, such an order
   keeps its units for ever: releasing both lines throws, every sweep steps over the payment
   (`payments.service.ts:107`), and the order stays `PENDING_PAYMENT`, though
   `docs/admin-guide.md:112-113` says the job expires it and releases its stock.
2. **The rating on a card can fall behind the reviews** (`review_counters`). Two
   moderations of one product that overlap each count without the other's verdict, and
   the second write wins (`review.repository.ts:121-137`), though the comment at 191-192
   says the two numbers can never disagree. The next moderation repairs it.
3. **Two moves can close a cycle** (`category_cycle`). `assertParentIsCompatible`
   (`reference-admin.service.ts:196-223`) looks at the tree before the update and outside
   any transaction, though the comment at 192-194 says a parent cannot be one of its own
   descendants. `categoryDescendantIds` then never ends for a category in the cycle,
   though the comment at `reference-write.repository.ts:335-337` says it cannot spin.
4. **A searched admin list forgets the search on its second page** (`admin_search`).
   Search and cursor are both an `OR` in one `where` object
   (`order-fulfilment.service.ts:166-176`, `product-admin.service.ts:137-146`,
   `review-moderation.service.ts:77-87`); the cursor's replaces the search's.
5. **The filter sheet can show the count of an abandoned draft** (`filter_sheet`).
   `use-draft-filters.ts:63` shows an answer without asking whether its request was aborted,
   so one that arrives after the sheet was reopened or counted again replaces the number,
   though the comment at 49-50 says only the newest request may write it. The sibling hook
   guards against this (`use-suggestions.ts:71-73`).

Also seen while modelling, without a run of their own:

* Deadlocks. `order-unit.ts:23-27` says that transactions wait but never deadlock. Take a
  kind out of `Crosses` and TLC finds the ring: two dispatches whose variants interleave
  with their products (`order-unit.ts:314`); an add of several lines, whose foreign keys
  lock variants as they were named, against a placement; a voucher attached again while a
  placement that had read it holds its row and wants the cart.
* A batch full of split orders (finding 1) would be swept over and over and the payments
  behind it never: the list is the payments that fell due first (`payments.service.ts:107`).
* `REFUNDED` does not refund: `fulfilment-effects.ts:90` lets the status control set it, no
  provider is called and the payment stays `PAID` (`docs/admin-guide.md:102`).
* A refused callback is not logged: its row is rolled back with the transaction that
  throws (`payments.service.ts:120` says every event is logged).
* The payment of a cancelled order stays `PENDING`: the sweep looks only at orders that are
  `PENDING_PAYMENT` (`orders.service.ts:36-37` says the sweep closes it).
* Removing the ticked lines leaves a bundle's sold-out component behind
  (`cart.service.ts:245-253`, against 177-178).
* A delivery mail that fails leaves invites nobody has, and the line gets no other.
* A published product can lose its last variant or picture, which
  `product-admin.service.ts:102-108` calls a state that should not exist. Deleting a
  picture puts another in the main place, whatever the operator had chosen.
* Two uploads at once can both be the main picture; concurrent variant edits leave a stale
  price range; two saves of the required tools at once merge.
* `voucher-shape.ts:14-15` says its shape is the one `isWellFormed` (`voucher-rules.ts:111`)
  checks, but a fixed amount of zero passes the first (the DTO's minimum is 0) and not the
  second: the desk stores a voucher every customer is told is inactive.
  `VoucherKeepsItsWord` makes an exception of it.
* A voucher or banner form sends all its fields, so it restores what another operator has
  changed since; a banner form sent again can name a picture that was removed.
* `home.repository.ts:32` shows a banner at its last instant, `banner.repository.ts:111` says
  it is over. A category's page lists one level, its count the whole subtree.
* Orders placed in one instant can be hidden or repeated while paging: the list breaks such
  a tie by id and its cursor by order number (`order-fulfilment.service.ts:180-194`), though
  the comment at `keyset-cursor.ts:8-9` says the cursor is there for such ties. `KeysetList`
  has the case: without the exemption of `tied` in `EveryRowSeenOnce`, TLC finds the row that
  is never shown.
* Two first requests of a session make two carts; concurrent adds lose one of the two.

## 8. Not modelled

* Bundle price allocation, shipping tiers, a voucher's scope and minimum spend: pure
  functions with unit tests of their own; here a price is a member of a small set, and
  `PriceOrder` is given the part of the lines that is in scope.
* Rate limiter, health and development endpoints, notify requests: see `PROJECT.json`.
* Brands, grades, scales and series: single-row writes that the foreign keys guard.
* A product's descriptive fields, a shop's reply to a review, review photos, an order's
  internal note, the order of banners: columns nothing else is derived from.
* Catalogue listings, facets, search ranking, dashboards: reads.
* The client's rendering, which is most of the repository's lines, and its seed data:
  components without state beyond what `CartTabs` and `SearchBox` keep. The share of the
  repository's lines that the models stand for is small for this reason.
* Image compression, mail transport, the provider's own side: I/O.
* Signature and session checks: the models start from calls that were let in.
* Foreign keys and deletion of variants: a deleted variant takes its counters along.

## 9. Plan

Done: the modules of section 2, the runs of section 3, and a proof of every safety
property and refinement the passing runs check.

Next, in this order:

1. `OrderPromise` and `OrderFlow` joined: one abstract store of which a placement in one
   step (`OrderPromise!Place`) and an order's later life (`OrderFlow`) are the two halves.
2. An abstract cart (additions, choices and bundles without rows) that `CartTabs`
   implements as long as requests of a session do not overlap.
3. What is true of a cart line another tab edits while it is ordered.
4. `RateLimiter`: fixed windows, and the bound on any interval of one window.
