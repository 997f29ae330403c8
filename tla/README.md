# ServeIQ backend: TLA+ models, checks and proofs

ServeIQ is a restaurant backend: NestJS services over one PostgreSQL database, called by waiters'
tills, guests' phones, riders, managers, cron jobs and payment providers. Almost nothing in it is
one atomic step: a handler reads a row, awaits, decides, awaits again and saves. This directory
models the parts where that matters, checks them with TLC, and proves with TLAPS, for any number of
rows, calls and servers, what the checks show on small instances. Source paths below are relative to
`src/apps/api/src/modules/`.

1. How the code is read
2. Inventory
3. Modules
4. What is checked
5. What is proved
6. Not modelled, observed, and planned
7. Running it

## 1. How the code is read

Four facts about the program decide the grain of every model.

* **A step is one statement on the database.** Handlers run concurrently in one Node process (and
  possibly several); they interleave at each `await`. What a handler read is a copy in its own
  memory, and stale from then on. In the models a handler is a record (a request, an editor, a call)
  with a program counter `pc`; each action is what happens between two awaits that matter.
* **`repository.save(entity)` writes the whole row it read** (every column that differs), so saving
  after an await takes back whatever was written in between. TypeORM's `@VersionColumn` counts; it
  does not detect conflicts. `update(...).where(...)`, `increment` and conditional `UPDATE`s are
  atomic.
* **A transaction is one step** when it starts by locking the row everything depends on (the bill,
  the menu item, the order). Where it does not (`processRiderPayout` finds its candidates before its
  conditional `UPDATE`), it is split, because PostgreSQL runs it at READ COMMITTED.
* **A process may stop, and a statement may fail, between any two steps**: every model of a handler
  with more than one step has an action that ends it wherever it is. What was committed stays.

What cannot change the outcome is left out: wording, layout, audit rows, reports, the decorators and
DTOs of the controllers, and who may call an endpoint wherever no property is about that. Of a stored
notification it counts only whether it could be written, where a property is about somebody hearing.

## 2. Inventory

| component | state | operations | what is hard |
|---|---|---|---|
| bill settlement (`bill/`, `payment/payment.controller.ts`) | bills, tab and table status, orders, stock movements, webhook ledger | processPayment, confirmCashPayment, the webhooks of the providers | races for one bill, duplicated and late deliveries, a stop between the commit and its record, a receipt saved after the commit |
| billing desk (`bill/`, `payment/`, `order/`, `tab/`) | the same bills | generateBill, applyDiscount, removeCashRequest, initializePayment, submitCashIntent, addOrderItems, closeTab | whole rows saved from stale copies, checks made outside the transaction |
| bill totals and receipts (`bill/bill-totals.ts`) | totals, fees, discounts on bills | computeBillTotals, recomputeBillTotal and everyone who calls them | five callers with different inputs, changed under them |
| stock ledger (`ingredient/`, `order/`, `tab/`) | quantity in stock, stock movements | deductByTab, reverseOrderConsumption, restock, reconcile, update; void and merge of tabs | shortage, the de-duplicating index, units returned twice, unlocked saves of the back office |
| delivery and payouts (`delivery/`) | deliveries, payout batches, rider ledger | ensureOnOrdersReady, accept, complete, confirm, reassign, processRiderPayout, closing of batches | first accept wins, double payout, hooks that race or never run |
| tabs (`tab/`) | tab rows | openTab, transferTab, mergeTab, voidTab, closeTab, update, remove, hand-over | check-then-insert, ended tabs served again, who may serve |
| orders and kitchen (`order/`) | order status, ready buffer | add, approve, decline, accept, bump, pick up, deliver, cancel; the timer | timer saves over cancellations, prepaid orders held back, notifications buffered in memory |
| tables (`table/`) | table status | updateStatus, update, release | a table freed under new guests |
| payment reconciliation (`payment/*scheduler*`) | terminal pushes, alerts | cron passes over pushes and failed deliveries | passes cut off, look-ups that fail, a guest who pays late |
| payment provider clients (`payment/`) | credentials, keys, references | webhook signatures, upsertCredential, updateCredential, push | replays, rows nothing makes unique, changed encryption keys |
| customer ordering (`public/`) | groups, their codes | open, add items, track, pay | a code stored nowhere before its first items |
| riders (`riders/`) | a user and a profile each | create, update, remove | two rows without a transaction |
| reservations (`reservations/`) | bookings | create, createWalkin, update, confirm, cancel, seat, availability, reminders | check-then-write, a tab opened after the save |
| shifts (`shift/`) | shifts, expected cash | openShift, closeShift, report, handoffShift | payments stamped before and committed after the sum |
| waiter calls (`waiter-call/`) | requests | create, accept, arrive, resolve, reassign, cancel | first accept wins, over whole-row saves |
| offline sync (`sync/`) | queue of operations | queueOperation, replayAll | replay of a payment already made |
| subscriptions (`subscription/`) | one row per branch | requests, Paystack events, administrator, nightly job, guard | events late, twice and out of order |
| authentication (`auth/`) | token versions, refresh tokens, one-time tokens | sign-in, refresh, sign-out, register, set-up, reset, verify | versions taken back by stale saves; set-ups cut in the middle |
| notifications and sockets (`gateway/`, `notification/`) | rooms of the sockets | connect, join, emit, drop | sign-outs that do not reach every server |
| business administration (`admin/`, `branch/`, `role/`, `user/`, `business/`) | users, roles, settings | edits, seed of every start, suspension, impersonation | seeds that overlap, settings saved whole with masked secrets |
| reviews and feedback (`review/`, `feedback/`) | reviews | submit | two at once |
| printing, uploads, assistants (`printer/`, `upload/`, `ai/`) | printers, jobs | print, fire a round, default printer | a ticket comes out before its job says so |
| menu and suppliers | plain records | create, edit, list | nothing a model checker reaches |
| platform (guards, filters, migrations) | schema | | indexes are mapped where models rely on them |

How they interact, always through shared rows and never through a queue between services:

* a round of orders is put on a tab and takes stock (`addOrderItems` calls `deductByTab`); the desk
  turns orders into bills; a settlement turns a bill into a paid tab, frees its table, releases held
  orders to the kitchen and takes the stock that was not taken yet;
* the kitchen's bump calls the delivery hook, which offers the group to riders; the timer of the
  kitchen and the cancellation of orders do not;
* voiding, merging and cancelling move or return stock, and free tables; a booking that is seated
  opens a tab and takes a table;
* closing a shift sums the cash payments and raises the version that staff tokens carry; handing a
  shift over gives its tabs to another waiter, who alone may then work on them;
* a push to the terminal, or a page of the provider, leads to a webhook, which leads to a settlement;
  jobs look after the pushes and deliveries from which no webhook came;
* offline operations replay the same services; sockets tell everybody about all of it.

What makes each component correct is stated in section 4; what can go wrong, at its line and with
the properties that would notice, in `PROJECT.json` under `hazards`.

## 3. Modules

One module per component, named after it; `PROJECT.json` maps each of its definitions to the lines it
stands for. The prefix before a path is the module.

**Money**

* `Settlement` (`bill.service.ts`: processPayment, confirmCashPayment; the webhook handlers of
  `payment.controller.ts`). A *scope* is what one settlement covers: a tab, or a standalone group of
  orders. A request goes idle -> check -> fast -> settle -> receipt -> done; a webhook begins with the
  ledger look-up and the resolution of its bill and ends with `RecordWebhookEvent`. `SettleCommits`,
  `SettleLosesClaim` and `SettleRollsBack` are the three outcomes of the transaction: the conditional
  `UPDATE ... WHERE paid_at IS NULL` wins, loses, or a unique key aborts everything. `requests[r].row`
  is the copy that `UploadReceipt` saves. Bills, orders and stock taken are arbitrary in `Init`,
  within what the desk can leave behind.
* `PaymentLedger`: the abstract promise of `Settlement`, in two actions: a bill is settled by one payer
  in the step that closes its scope, and only then is anybody told that it is paid.
* `BillDesk` (EXTENDS `Settlement`) adds editors: `BeginX` is the read and the checks of endpoint X,
  `InsertBill` and `SaveBill` the write, later; `MarkBilled`, `HoldOrders`, `ReopenTab`, `InsertRound`
  the statements after it. Totals are any amount here.
* `GuestBill` (`bill-totals.ts` and its callers): the amounts. What the orders come to, the bills the
  desk, the checkout and a request to pay cash make of them, and what page and receipt show. A handler
  is one step; money is integer kobo, percentages are in tenths and round half up. Only a *fresh* bill,
  made or remade since the orders and the rates last changed, is said to ask what the page shows: a
  checkout that finds a pending bill asks for it as it was made.
* `WebhookDoor`: a reported deposit from its arrival to the answer, for all three providers: signature,
  freshness, de-duplication, resolution by reference or by amount, settlement, alert. An alert that
  cannot be written is logged and the delivery is answered with success all the same (`unheard`).
* `TerminalPushes` and `WebhookWatch`: the payments pushed to a terminal and the two scheduled jobs.
* `Credentials`, `BranchSettings`: the credential of the terminals, and the keys that webhooks are
  verified with, through edits by pages that show them masked and restarts with another encryption key.
  Each entry has a type and a verification method, which decide whether a key is asked for, whether it is
  used, and whether guests are told that a payment confirms itself.

**House**

* `StockLedger`: one tracked item, its stock, and the movements by what they refer to (a tab, an
  order), because that is what the look-ups and the index of the code see; the audit, the variance and
  the daily tally are operators over them.
* `Floor`: tables and the tabs at them. That a table is taken is stored twice, in its own status and in
  the tabs that point at it; every handler reads one and writes both.
* `TabWaiters`: who serves a tab, and may therefore bill, close or void it.
* `Kitchen`: the status machine of a tab's orders, with the timer job, the ready buffer in memory, the
  release by a payment, and the endpoints that save rows they read. A pass of the job that throws, and a
  batch whose look-up or notification fails, lose their announcements (`announceFailed`).
* `Bookings`: reservations over a clock of slots. A call holds the statements it still has to run.
* `Shifts`: openShift and closeShift beside cash payments that are stamped inside a transaction and
  seen when it commits. Amounts are sets of payments.
* `WaiterCalls`, `Printing`: as their services, each a read, a copy and a save.
* `SyncQueue`: the entries of the queue and what their replay does. Whether an operation has anything to
  do (`workable`) is set by the rest of the program: a replay that finds its tab, order or bill done with,
  and an operation the service does not know, are marked processed without effect.

**Guests, riders**

* `Delivery`: dispatch of standalone groups and the payouts of riders. A call that ends frees its slot,
  so two slots stand for any number of requests of which two overlap.
* `Tracking`: codes, the groups under them, the tracking page, reviews. The server takes the code and the
  terms of a group from whatever request opens it; a request that no page was handed so is `uninvited`.

**People and platform**

* `Sessions`: one person's tokens, with the versions of user and branch rows. `Accounts`: how
  businesses, branches and owners come about, and one-time tokens. `Staff`: users, riders, PINs.
  `Roles`: the seed of every start. `Rooms`: who hears what on a socket. `Subscriptions`: one branch's
  row through requests, Paystack events, the administrator and the nightly job. An event is credited to
  the first branch found of the business, so a branch's payment and its credit are two actions
  (`TakePayment`, and `ChargeSuccess` or `CreditOtherBranch`).

**Proofs.** `SettlementProofs`, `DeliveryProofs`, `BillDeskProofs` and `KitchenProofs` prove about the
module they are named after; `HouseProofs` about `TabWaiters`, `Floor`, `Shifts`, `SyncQueue`,
`WaiterCalls`, `Bookings`, `Subscriptions` and `WebhookDoor`; `FrontProofs` about `Printing`,
`Credentials`, `BranchSettings` and `Tracking`; `BackOfficeProofs` about `Sessions`, `Rooms`,
`Accounts`, `Staff`, `Roles` and `StockLedger`; `BillDeskProofs` about `GuestBill` too. `SumProofs` has
the lemmas about sums over finite sets. Each part begins with a box that says what makes its promises
inductive.

**Instances.** `MCSettlement`, `MCBillDesk`, `MCStockLedger`, `MCDelivery` instantiate one module.
`MCFrontDesk`, `MCBackOffice`, `MCGuests`, `MCHouse`, `MCJobs` check several components whose services
do not write each other's rows: the variable `desk` says which component a behaviour is about, the
others rest in one of their initial states. So a run has as many states as its components together,
and a property of a component is checked on all its behaviours. Components that do write each other's
rows are composed within a module: payments with billing endpoints in `BillDesk`, tabs with tables,
bookings and payments in `Floor`, dispatch with the kitchen's steps in `Delivery`.

**Mutants.** Operators such as `ClaimableUnpaid` stand before the operator whose name they vary. Nothing
uses them: each is a plausible slip (a dropped guard, an off-by-one, a forgotten reset), and the
property named beside it in `PROJECT.json` is violated when it takes the operator's place.

**History variables** record how a behaviour went, and are read by no guard. They serve to state
exactly where the code keeps a promise and where it does not: `overtaken`, `crossed`, `tangled`,
`mixed`, `atOnce`, `twice`, `drawnTwice`, `crowded` (two handlers that overlapped where that matters),
`muddled`, `misplaced`, `untested`, `skipped` (a step that does not look), `cutOff`, `halved`,
`unfinished` (stops in the middle), `announceFailed`, `unheard` (a notification that was not written),
`rolledBack`, `spoilt`, `lateCash`, `reopened` (a stale save, a late commit), `nothingDone`, `renewed`,
`uninvited` (what others did to, or sent for, an operation or a group), and, of what was asked for, `meant`,
`entered`, `edited`, `paidUntil`, `accepted`, `credited`, `tally`, `applied`.

## 4. What is checked

| run | instance | what it shows |
|---|---|---|
| `settlement` | a dine-in tab and a standalone group, 2 bills, 2 requests, 1 reference, 2 amounts | `SettledOnce`, `AnsweredPaidIsPaid`, `SettlementIsAtomic`, `RecordedDeliveryIsPaid`, `SettledStaysSettled`, and `ImplementsLedger`, the refinement of `PaymentLedger` |
| `bill_desk` | `MCFrontDesk`: one tab, 2 bills, 2 requests beside 2 editors; then the amounts of 2 bills; 2 printers, 1 job, 2 orders; 2 clients with 2 secrets | `PaidIsCovered`, `ClosedOnlyWhenSettled`, `StockTakenOnce`, `UnpaidOnlyByStaleSave`; `AmountsAgree`; `PrintingAgrees`; `CredentialHolds` |
| `back_office` | `MCBackOffice`: 2 tabs, 2 orders, 3 calls, a stock of 2; 2 refresh tokens, 4 requests; 2 staff, 1 PIN; 2 roles, 3 permissions; a business with 2 branches; 2 sockets, 2 servers, 2 branches, a guest | `StockIsHeld`, `OnlyBackOfficeDrifts`; `SignedOutIsOut`; `StaffRecordsAgree`; `DefaultRolesExist`; `AccountsStand`; `RoomsAreRight` |
| `guests` | `MCGuests`: 1 group of 2 orders, 2 deliveries, 2 riders, 2 batches, 2 calls; 2 codes, a tab, 2 guests, 2 fees, a bill; 2 providers, 2 keys | `LedgersAgree`, `BumpedHasDelivery`, `FirstAcceptWins`; `CodesLeadRight`; `KeysAreEntered` |
| `house` | `MCHouse`: 2 tables, bookings, tabs, shifts, waiters, keys, deposits, bills; 2 handlers, 3 or 4 calls each | `TablesAreKept`, `SeatedHasTab`; `FloorPlan`, `EndedStaysEnded`; `ShiftsAddUp`; `CallsAreKept`; `TabsStayServed`; `QueuedTakesEffectOnce`; `PaidIsServed`; `AcceptedIsAccounted` |
| `jobs` | `MCJobs`: 1 order, 2 calls, 1 restart; 2 pushes, 2 calls, 1 pass cut; 2 deliveries, 1 pass cut | `HeldUntilPaid`, `EndedOrdersStayEnded`, `KitchenDelivers`; `PushSettles`; `GivenUpIsAlerted`, the last three liveness |
| `settlement_late` | a takeaway tab and a group, 2 references | violated: `OneSettlementPerScope` |
| `bill_desk_overwrite` | one tab, 2 requests, 2 editors | violated: `SettledOnce` |
| `stock_rounds`, `stock_returns` | 2 tabs, 2 orders, 2 calls | violated: `RoundTakesStock`, `ReturnedWasTaken` |
| `delivery_ready` | the group of `guests` | violated: `ReadyHasDelivery` |
| `jobs_pushes` | 3 pushes, 3 calls of one caller | violated: `LivePushIsReused` |

A violated run checks one sentence of a comment, quoted in `PROJECT.json` under `findings` with what
the code does instead:

* a webhook that names a superseded bill settles it after all, so one scope has two paid bills;
* generateBill, applyDiscount, removeCashRequest and submitCashIntent save a bill they read before its
  payment, which makes it unpaid again; it can then be settled twice. `UnpaidOnlyByStaleSave` says that
  this is the *only* way;
* a later round no larger than what the tab has recorded takes nothing from the stock;
* a void returns the units of an item whose cancellation returned them already;
* an order of a dispatch group made ready by the timer is never offered to a rider;
* once the first push of a bill has ended, every press pushes a new reference to the terminal, though
  an earlier retry still waits there.

Every passing property is stated so that it is false of some plausible version of the code. Where the
code keeps a promise only outside a named race, the property says so with a history variable instead of
leaving the race out: `TablesAreKept`, for example, allows two bookings of one table at one time
only if one of them was written unchecked or after its check had been overtaken. What is *not* claimed
is named as well: an operation that is processed need not have had an effect, an alert need not have been
written, of a provider whose type or method is not its webhook's no verification is promised, and a slot
that is offered need not be bookable (the converse of what `TablesAreKept` says).

**Bounds.** Two overlapping handlers are enough for the races found and for each of the mutants: a race
in this code is between one stale reader and one writer, and handlers never wait for each other. The
stock has three calls, since a drift needs a reader, a sale and a late movement. Two rows of a kind
give one that is superseded (a bill, a delivery, a shift, a code) and its successor. The `Max...`
constants bound the calls a behaviour begins, three or four: enough for two overlapping calls, what set
them up and what comes after. `LastTick`, `LastHour`, `LastDay`, `Advance`, `MaxEpoch`, `MaxKey`,
`MaxRestarts`, `MaxPassesCut` and `MaxWatchCuts` bound clocks and restarts, `Amount`, `Sums`,
`MaxQuantity`, `LinePrices` and the rates data, `PostedLists` and `Descriptions` what a page of settings posts. `InitialStock = MaxQuantity` makes a shortage
reachable. `HouseInit` of `MCSettlement` lets a group have one unit and a tab's recorded consumption
fall short only of two. The proofs of section 5 need none of these bounds. Since calls are bounded, every instance comes to rest: the configurations therefore say
`CHECK_DEADLOCK FALSE`. Symmetry is used only over model values that no ordering or constant function
tells apart, and in no run with a liveness property.

**Fairness** is assumed only in `jobs`: time passes (`CountdownEnds`, `PushAges`), the schedulers call
their jobs again and again and a pass goes on (`ExpireOrderTimers`, `ReconcileErpPushes`,
`Reconcile`), and the runtime fires the timer of the buffer, well or badly (`FlushReadyBuffer \/
LoseReadyBatch`). This is what Nest's `@Cron` and Node's `setTimeout` do. No announcement is assumed to
succeed: a look-up may throw (`order.scheduler.ts:72`), and the insert of a notification is not awaited by
the batch, so that its failure is only logged (`main.ts:44`); nothing tries again. `KitchenDelivers`
therefore promises that an announcement is tried, not that it is heard. Nobody is assumed to approve, cook,
serve or pay, and restarts and cut passes are bounded, since no retry survives a server that restarts for
ever. Everywhere else
nothing resumes a handler that stopped, so there is no "eventually" to promise.

## 5. What is proved

TLAPS proves every invariant and every action property of the passing runs, for every value of the
constants the assumptions allow: any number of bills, requests, riders, servers, and any bounds.
`...Always` theorems have the form `Spec => []Property` or `Spec => [][Step]_vars`; each rests on the
inductive invariant named beside it, which is a theorem of its own.

| module | invariant | what follows from it |
|---|---|---|
| `SettlementProofs` | `SpecInv` | `TypeCorrect`, `SettledOnceAlways`, `AnsweredPaidIsPaidAlways`, `SettledStaysSettledAlways`, `RecordedDeliveryIsPaidAlways`, `SettlementIsAtomicAlways`, and `LedgerImplemented`, the refinement |
| `BillDeskProofs` | `DeskInvariant`, `AmountsInvariant` | `DeskTypeCorrect`, `PaidIsCoveredAlways`, `ClosedOnlyWhenSettledAlways`, `StockTakenOnceAlways`, `UnpaidOnlyByStaleSaveAlways`; `AmountsAgreeAlways` |
| `DeliveryProofs` | `DeliveryInv` | `DeliveryTypeCorrect`, `LedgersAgreeAlways`, `BumpedHasDeliveryAlways`, `FirstAcceptWinsAlways` |
| `KitchenProofs` | `KitchenInvariant` | `KitchenTypeCorrect`, `HeldUntilPaidAlways`, `EndedOrdersStayEndedAlways` |
| `HouseProofs` | `ServeInvariant`, `FloorInvariant`, `ShiftInvariant`, `SyncInvariant`, `CallInvariant`, `BookingInvariant`, `SubscriptionInvariant`, `DoorInvariant` | `TabsStayServedAlways`; `FloorPlanAlways`, `EndedStaysEndedAlways`; `ShiftsAddUpAlways`; `QueuedTakesEffectOnceAlways`; `CallsAreKeptAlways`; `TablesAreKeptAlways`, `SeatedHasTabAlways`; `PaidIsServedAlways`; `AcceptedIsAccountedAlways` |
| `BackOfficeProofs` | `SessionInvariant`, `RoomInvariant`, `AccountInvariant`, `StaffInvariant`, `RoleInvariant`, `StockInvariant` | `SessionTypeCorrect`, `SignedOutIsOutAlways`; `RoomsAreRightAlways`; `AccountsStandAlways`; `StaffRecordsAgreeAlways`; `DefaultRolesExistAlways`; `StockIsHeldAlways`, `OnlyBackOfficeDriftsAlways` |
| `FrontProofs` | `PrintInvariant`, `CredentialInvariant`, `SettingsInvariant`, `TrackInvariant` | `PrintingAgreesAlways`; `CredentialHoldsAlways`; `KeysAreEnteredAlways`; `CodesLeadRightAlways` |

**The argument, component by component.** None of the properties is inductive: a handler that acts on a
stale copy can break any of them unless one knows what its copy still means. So every invariant says,
per handler and per program counter, what that handler may still rely on. Each was checked by TLC as an
invariant before it was proved.

* *Settlement.* `HoldsBill`: scope and total in a request are those of the bill, and a payment on its
  copy is a payment on the bill; `IsDelivery`: a webhook acts under its own reference, on a bill of its
  own amount; a request about to save a receipt holds exactly the row in the table; a key is on a bill
  only together with its payment. For atomicity, what the orders, tabs and movements of a settled scope
  look like; for the refinement, each step is mapped to `Settle`, `TellPaid` or a stutter.
* *Billing desk.* Stale saves break the invariant of `Settlement`, so this is another one: what an
  editor knows of its copy, and of a settling request what survives editors. What remains true is that
  a paid bill was covered when paid, that a closing saw it, and that stock is recorded under an index.
* *Delivery.* Rows stay in their group and with their rider and go neither back on offer nor back on
  their way; a call's row is still there, a candidate of a payout still its rider's; a pending delivery has
  no rider. The conditional claim then keeps ledger and batches in step.
* *Kitchen.* While an order to be prepaid was not released, it is held, cancelled or removed, in the
  table and in every copy a call or the job has read.
* *Who serves a tab.* One that opens a tab has it for itself; the others have a row that was there, whose
  origin and, for a guest's tab, waiter and shift have not changed; a guest's tab has no shift, so nobody
  hands it over.
* *Floor.* A handler that nobody came between still knows its tab and its table (`FloorCallSound`), one
  about to insert has its id alone (`InsertsAlone`), and every table not muddled is as planned (`PlanAt`):
  each statement then keeps the plan at the tables it changes or marks them.
* *Shifts.* Without a crossed opening any two shifts are apart: one was closed, and in the row and in every
  copy that closes it again its clock stopped no later than the other opened (`ClosedBefore`); what a close
  counted is all there is of its hours but for late cash and its last hour (`DrawerCounted`).
* *Offline queue.* A key no two calls crossed on is in one call's hands at most, unprocessed while there,
  and without effect but for a bill whose mark is still to come. What leaves nothing to do again (a creation,
  a deletion, a payment) has nothing to do once it took effect, until somebody undoes it.
* *Waiter calls, bookings.* A handler that nobody saved beside finds what it read: its table quiet, its
  request pending, its interval free. One that did not check keeps the table and times it found.
* *Subscriptions.* While nothing spoilt it, a payment not yet credited included, paid time is in the row:
  active or cancelled, with a period that reaches as far; an unovertaken request still writes the period it
  found.
* *Webhook door.* A paid bill is never touched again, so what accounts for a deposit stays; a delivery about
  to be answered as settled has paid or met a paid bill by then, and every other success raised an alert.
* *Sessions.* A session begun after a sign-out carries the raised versions, and while no save rolled one
  back, versions only grow; every refresh token and every request in flight is bounded by its session.
* *Rooms.* A socket sits in rooms of the branch and the role in the token it joined with; a sign-out
  has yet to come to it, or reached it, or is recorded as having skipped it.
* *Accounts, staff, roles.* Rows written one after the other: what is missing is in the hands of the call
  that will write it, or the call was cut and the history says so; a one-time token at hand is unspent. Every row
  of a role nobody changed has the older release's permissions, since the seed only adds roles.
* *Stock.* Every step but the back office's last two changes the stock and the movements by the same
  units (`Moved`), so stock and movements agree until a call of the back office has begun; only a count
  enters an adjustment. An order sits on a tab that has the movement, since rounds, payments and merges
  write both together, unless an update that is done put the order back.
* *Amounts.* A bill made or remade since the orders or the rates last changed has the subtotal, the
  charges and the fee of now (`FreshIsToday`), whatever discount, reference or cash request came after;
  that every bill adds up is inductive beside it. What is
  paid has a paid bill (`PaidHasBill`), and the receipt finds one because a nonempty set of bills has a newest.
* *Printing, credentials, settings, tracking.* As their boxes in `FrontProofs` say: whoever works alone
  holds a copy that is the row in every column it was not asked to change.

**Assumptions.** Only the named `ASSUME`s of the modules: functions given as constants have the right
domains, identifiers of different kinds differ, nulls are none of them, bounds are naturals, a restaurant
has a table, the orders of one item, of one tab and the tabs themselves are finitely many. TLC evaluates
all of them in the runs. No theorem depends on the size of an instance.

**Proved elsewhere than in the tables.** Lemmas stated once and cited: what a step of one handler leaves of
the others, the minimum and the cardinality facts (`FiniteSetTheorems`), and that a delivery, a bill or a
movement keeps what identifies it. `SumProofs` proves about the sums of the community modules, which
recurse over the subsets of a set and pick an element at each step, that the recursion has a solution,
that the order of picking does not matter, and what one changed term does to the sum. Each follows from a
smallest subset for which it would fail, since the library's induction theorems take an operator as a
parameter, which the installed provers cannot instantiate.

**Only model-checked.**

* Liveness (`KitchenDelivers`, `PushSettles`, `GivenUpIsAlerted`): fairness and ENABLED are out of the
  prover's reach.
* The properties that the violated runs refute are, of course, not theorems; what does hold in their
  place is (`UnpaidOnlyByStaleSave`, `BumpedHasDelivery`).

## 6. Not modelled, observed, and planned

**Left out within modelled components.** Simulated webhooks and notifications of anything but a
success; two overlapping passes of one job; creating and removing tables; queued operations without a
key; deliveries of a tab (no code sets `tabs.pickup_mode` to `dispatch`) and the status
`out_for_delivery`; branches that switch delivery off; removal of owners; the expiry of access tokens;
shift templates; the status `queued` of waiter calls, which no code sets; notes and party sizes of tabs;
rounding of floating point numbers, where a half is not representable; lists, statistics and reports.

**Components left out.** Menu and suppliers (rows edited one at a time, no second actor's property
depends on them), and the platform: guards, filters, migrations and seeds. Indexes that models rely
on are mapped where they are used.

**Observed while modelling**, beside the findings of section 4, without a run of their own:

* payments: `initializePayment` re-uses a pending bill though rounds came after it, while the comment
  (`public/customer.service.ts:757-758`) promises that what is shown is charged; a group that orders again
  after paying is billed for everything again; what is sent with the first items of a group decides its
  delivery fee (`public/customer.service.ts:228`), and a fee of nothing is replaced by the branch's of the
  moment (237-250); cash retried after a removed request revives a voided bill;
  the receipt prints no line for tax and delivery;
* webhooks: a deposit that fits no bill is answered with success though its alert could not be written
  (`payment/payment.controller.ts:1301-1307`), so it is dropped with no more than a log line, against the
  comment at 425 ("never silently dropped");
* kitchen and printing: declined orders are printed on later tickets; an announcement that fails is never
  repeated, since its orders are saved as ready by then (`order/order.scheduler.ts:42-48`, 72);
* offline: an operation the service does not know, or an update that finds no tab of the branch, is
  answered as processed (`sync/sync.service.ts:194-206`, 307-315);
* subscriptions: a payment is credited to the first branch found of the business with the payer's e-mail
  (`subscription/subscription.service.ts:226-242`, 268-285), whichever branch paid;
* reservations: slots take any table that is large enough (`reservations/reservation-config.ts:121-134`), a
  booking only tables of the exact size where there are any (`reservations.service.ts:190-203`): a time may
  be offered that nobody can book;
* roles: the comment at `role/role-seed.service.ts:612-613` says every default role exists "with its
  permissions"; a role that exists is left alone (640-645), so permissions of a newer release never reach it;
* accounts: the owner `'pending'` that the set-up writes first is not a uuid; a set-up cut before it
  saves the owner can never be resumed; the code of `verifyEmail` is not tied to the user;
* sockets: after a forced sign-out a socket reconnects with the same token, and without Redis a
  sign-out reaches only the server it ran on; a socket without a branch may join `tables:undefined`
  (`gateway/gateway.gateway.ts:214`), where no event is said; a socket in several rooms hears one event several times;
* settings: a provider of another type than `webhook` counts as configured with no key
  (`payment/payment-provider.util.ts:56-62`) and, for terminals, as confirming itself; the webhooks refuse
  every delivery whose stored method is not theirs (`payment/payment.controller.ts:557`, 801), whatever the
  guests were told; a page may post `config: null`, and after a change of the encryption key secrets are
  unreadable until somebody types them again;
* tracking: the page shows whichever bill of the tab the database returns; `order.entity` marks
  `tracking_code` unique, migration 1870000000000 says it is not; reviews are accepted before payment
  though the comment (`public/customer.service.ts:646-648`) says after; a group's code is reserved nowhere
  until its first items;
* credentials: "one per branch" (`moniepoint_erp_credentials` entity, line 22) has no unique index;
* stock: audit, variance and tally ignore `VOID_REVERSAL`; the slippage is only the manual
  adjustments; the tally of a past date uses today's stock;
* shifts: expected cash and report leave standalone groups out; the docs of handoff-shift say "Omit to
  transfer all open tabs for the branch", but only tabs with the open shift's id move;
* `max_tables_per_waiter` is enforced nowhere, and `resendEvents` is called by nothing.

**Planned next.** Proofs for the two modules without any: type correctness and the safety of the terminal
pushes and of the watch over webhooks.

## 7. Running it

From this directory, with TLC, the community modules and TLAPS installed:

    tlc -workers 2 -config MCSettlement.cfg MCSettlement.tla
    tlc -workers 2 -config MCHouse.cfg MCHouse.tla
    tlapm SettlementProofs.tla

`PROJECT.json` lists the components, the runs with their configurations, the mutants, the source lines of
every definition, the findings, the hazards and the theorems.
