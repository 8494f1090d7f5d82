# Formal model of the cloud-kitchen platform

TLA+ modules, TLC configurations and TLAPS proofs for the backend of this
repository (`src/backend`, NestJS + Prisma/PostgreSQL + Redis + Bull + Razorpay).
A reader needs the repository and the TLA+ tools, nothing else:

    tlc -workers 2 -config MCOrderPayments_safety.cfg MCOrderPayments
    tlc -workers 2 -config MCPlatformBilling_races.cfg MCPlatformBilling
    tlapm OrderPaymentsProofs.tla

## 1. The system

A multi-tenant ordering platform: customers order meals or subscribe to meal
plans; staff run the counter, the kitchen board, the tables; each tenant is
itself a subscriber of the platform. Several backend servers may run. A request
handler is an async function: between two `await`s nothing else runs in its
process, at every `await` anything may. PostgreSQL statements are atomic; only
the ones inside `$transaction` are atomic together. Redis holds locks with a TTL
(`SET NX EX`). Cron jobs run on every server, one at a time per job name under a
Redis job lock. Razorpay is an external service that calls back with webhooks.

| Component | State | Operations that change it | Talks to |
|---|---|---|---|
| Orders (`modules/orders`) | `orders` row: status, paymentStatus, method, payment id | create, createManual, createDineIn, addItems, assignTable, seatWaitlistEntry, updateStatus, markPaidManually, cancelWithRefund | Razorpay, refund lock, stock, coupons, limits |
| Payments (`modules/payments`) | `razorpay_webhook_events` | verifyPayment, handleWebhook (orders and plan invoices) | orders, subscriptions, Bull |
| Payment-check job | none; reads pending payments | reconcile every 5 min under a job lock | Razorpay, orders, subscriptions |
| Refunds (`shared-modules/refunds`) | `refunds` rows, Redis `refund-lock:*` | withRefundLock | Razorpay, Redis |
| Kitchen (`modules/kitchen`) | orders.status | move | orders |
| Cancellation requests | request row: PENDING, WITHDRAWN, REJECTED, APPROVED | request, withdraw, reject; approved by cancelWithRefund | orders, subscriptions |
| Subscriptions | subscription row, invoice, skips, scheduled dates, claim | subscribe, verify, activate, skip, pause, move, override, disruption, hold, materialize, expire, cancelWithRefund | payments, orders, cancellation requests |
| Dine-in | tables, waitlist entries | seat, claim, release, cancel, assign, delete | orders |
| Menu and stock | meal rows; stock derived from order items | stock check at checkout | orders |
| Promotions | coupons, redemptions | validate, record | orders, subscriptions |
| Tenant limits | limits row, blocked-attempt counters | assert*Allowed, record, alert | orders, subscriptions, users |
| Platform billing | platform subscription, invoices, webhook events | switchPlan, verify, activate, webhook | Razorpay, tenants |
| Auth, users, permissions, features, settings, content, notifications, uploads | single rows | create, read, update, delete | everything reads them |
| Frontend | none the server trusts | calls the API | backend |

**What is hard.** (a) A handler reads a row, awaits something, and writes on what
it read; some writes carry a condition (`updateMany where status = ...`), some do
not. (b) A payment is confirmed by three independent paths, each at any time and
more than once. (c) A refund sends money before it saves anything. (d) Webhooks
are duplicated, reordered, delayed and redelivered. (e) Locks expire. (f) A
handler can fail between two writes that belong together. `PROJECT.json` lists
each such place under "hazards" with its line and the properties that cover it.

**What makes each component correct.**
- *Orders and payments*: PAID needs money; PAID ends only in a recorded refund;
  captured money is eventually confirmed; no refund is sent twice or unrecorded;
  the kitchen never cooks an unpaid online order; the customer is told.
- *Payment-check job*: runs do not overlap; each captured payment in the window is
  asked about before it is abandoned, whatever the batch holds.
- *Subscriptions*: a plan paid once is activated once; a day is delivered once or
  credited once; `cycleEnd` never shrinks; the plan delivers exactly the days bought.
- *Dine-in*: one open bill per table, but for calls that overlap; a party is seated
  once, and never lost between the line and the table.
- *Stock*: what the counter and the shop sell together is the plates of the day, but for
  calls that overlap. *Coupons, limits*: the same, and unpaid rows count as overlap; an
  alert that a cap is near or hit reaches the platform.
- *Platform billing*: the platform, the shop and Razorpay agree on what is paid; a
  tenant is served on a mandate its owner authorised and on that mandate's plan; late
  event brings nothing back that ended.

## 2. Modules

| Module | What it is |
|---|---|
| `PaymentLedger` | Abstract specification: money, payment mark and refund rows of an order |
| `OrderPayments` | The orders table, webhook records, refund lock, queue flag and calls in flight; all handlers |
| `SubscriptionDays` | The row, skip rows, holds and orders of one plan, day by day; all handlers that touch them |
| `SubscriptionPayment` | The sale, payment, activation, expiry and refund of one plan |
| `PaymentReconciliation` | The payment-check job: cron on every server, job lock, window, batch, abandonment |
| `OrderPlacement` | Orders being opened: tables, waitlist, and the plates all of them draw on |
| `UsageLimits` | The caps of a business's plan, a coupon's uses, the alerts |
| `PlatformBilling` | One tenant's platform subscription: invites, mandates, plan switches, webhooks |
| `Totals` | The total of a function over a set, without recursion, for sums over calls and orders |
| `MC...` | Small instances for TLC, symmetry of the call slots |
| `...Claims`, `MC...Claims` | Statements of comments and docs that the code does not keep |
| `OrderPaymentsProofs` | Proofs: types, money behind every mark, kitchen; refund lock, refinement of the ledger, accounts, announcements, acknowledgements |
| `SubscriptionDaysProofs` | Proofs: where credited days land, types, one order per day, no credit lost, the menu, never more than bought, exactly as bought |
| `SubscriptionPaymentProofs` | Proofs: types, one activation, active is paid, paid is served, refunds made once, where captures are found |
| `PaymentReconciliationProofs` | Proofs: types, the job lock, what abandonment means, who is settled |
| `OrderPlacementProofs` | Proofs: types, seating a party once, bills per table, plates sold |
| `PlatformBillingProofs` | Proofs: all five properties of the billing run |
| `UsageLimitsProofs` | Proofs: types, how far a limit gives way, alerts |
| `TotalsProofs` | Lemmas: what a total does when one member or one value changes |

The families share no variable. A plan's delivery becomes an orders row that no handler
of `OrderPayments` can cancel or charge, so nothing flows back from it. `OrderPlacement`
ends where `OrderPayments` begins, at the committed row, and keeps of a payment the read and
the write of its confirmation;
`UsageLimits` is what else an order, a plan or a signup must pass before its row exists.
`PaymentReconciliation` takes as one step (`Confirm`) what `OrderPayments` and
`SubscriptionPayment` split, and models what they leave out: time, batch and job lock.

### OrderPayments

**State.** `order[o]` holds the columns the handlers look at (`method`, `status`,
`payment`, whether `razorpayPaymentId` is set, and an age class for the job's
3-minute and 24-hour limits). `money`, `failed` and `sent` are the world: captured
at Razorpay or in the till, a failed attempt happened, refunds Razorpay executed.
`refunds`, `request` and `event` are the tables of refunds, cancellation requests
and webhook events; `queued` says the `order-confirmed` job is in Bull; `lock` is
the Redis refund lock with its owner. UPI behaves as CASH in every handler and is
not a value of its own.

**Calls.** `call[p]` is the handler running in slot `p`: the await it stands
before (`phase`) and what it remembers from its reads (`seen`, `sawPaid`, `to`,
`via`, `kind`). `Start...` actions are a handler up to its first write or external
call: the read and the checks, since nothing else can run on the row between a read
and a check in the same tick; every later `await` that changes something is one
action. So a stale read is exactly as stale as in the code:

| Code | Actions |
|---|---|
| `verifyPayment` | StartVerify, MarkPaid, EnqueueOrderConfirmation |
| `handleWebhook` | ReceiveWebhook, LookupEvent, CreateEvent, MarkPaid / EnqueueOrderConfirmation or MarkFailed, MarkProcessed |
| payment-check job, one order | PickPending, AskRazorpay, MarkPaid, EnqueueOrderConfirmation; MarkStaleFailed |
| `updateStatus` | StartUpdateStatus, UpdateStatus |
| `markPaidManually` | StartMarkPaidManually, MarkPaidManually |
| kitchen `move` | StartKitchenMove, MoveStatus |
| `cancelWithRefund` | AcquireRefundLock, CheckRefund, RefundPayment, SaveRefund, ReleaseRefundLock |
| `requestForOrder`, `withdraw`, `reject` | StartRequest, CreateIfNonePending, Withdraw, Reject |

**Faults.** `Throw` is an exception at any await: the webhook's `catch` marks the
record FAILED, the refund's `finally` releases the lock. `Die` is the server
stopping: neither happens. `MaxFaults` bounds both together. `LockExpires` is the
TTL; with `SlowCalls = FALSE` it strikes only locks whose owner no longer runs,
which is what the comment "Longer than any Razorpay refund call takes" assumes
(no timeout is configured that would enforce it), with TRUE any lock.

**External.** The customer's payments and failed attempts, the clock, which events
Razorpay may send and its redelivery are modelled from how `src/` uses them.

**Abstracted.** Amounts, fees, notes, notifications' content, tenants (every query
is scoped to one), permissions, and placing the order: rows start as `create` and
`createManual` leave them. Dine-in tabs that grow by rounds, and plan deliveries
(orders with a `subscriptionId`, which cannot be cancelled alone), are not rows of
this module.

### SubscriptionDays

**State.** `today` is the tenant's local date, counted from the plan's first delivery
day; `sub` is the subscription's row (`status`, `cycleEnd`, `banked` = bankedDays,
`claimed` = lastMaterializedDate, 0 for null, `next` = nextPlanDayNumber). `skipped` is
the union of the ranges of all skip rows, `held` the hold's skip rows not yet banked,
`granted` and `disrupted` the sums of what skip and disruption rows give, `request` the
latest cancellation request, `delivered[d]` the orders created for day `d`. `call[p]`
is a handler in flight, with the row it read (`saw`), as in `OrderPayments`.

| Code | Actions |
|---|---|
| `materializeOne`, `processDay` (hourly job, and inline at activation) | StartMaterialize, NotDue, ExpireSubscription, ClaimDay, LookupSkip, LookupHold, CreateHeldSkip, CreateOrder, AdvanceSubscriptionDay; `catch`: ReleaseMaterializationDate |
| `materializeClosedDate`, `bankExtraDays` | LookupSkip, CreateSkip, ExtendCycleEnd |
| `applyPause`, `applySkipDay` | StartPause, BuildDeliveryCalendar, CreateSkip, ExtendCycleEnd |
| `declareDisruption` | StartDisruption, CreateSkip, ExtendCycleEnd |
| `requestForSubscription` | StartRequest, CreateIfNonePending |
| `withdraw`, `reject`, `bankHeldDays` | AnswerRequest, FindUnbankedHeldSkips, BankHeldDays, MarkHeldSkipsBanked, ReactivateSubscription |
| `cancelWithRefund`, its transaction | CancelWithRefund |

Skipping one day is a pause of one day: the code refuses and credits them alike.
Two awaits are one action where nobody can tell them apart: the held rows and the
subscription are read in one step (a hold row seen late is the same as one written
late), and a disruption reads its target and writes its own row, which no handler
reads back, in one step. The hourly job holds a job lock; the model leaves it out, so
runs of the job overlap freely, and the claim alone has to keep a day to one order.
`cancelSubscription` of the repository is called by nobody.

**Faults.** `Throw` after the claim runs the `catch` that hands the claimed day back;
elsewhere, and for `Die`, the call just stops where it is.

**Environment constants**, each naming an assumption some property needs:

| Constant | What it says | Why it may be assumed |
|---|---|---|
| `QuietNights` | no call is in flight at midnight | a call lasts well under a second, a day does not |
| `JobNeverDown` | each day sees a materializer run | it runs every hour on every server |
| `PromptAnswers` | requests are answered before the plan's last night | staff's duty, nothing in the code enforces it; see section 4 |
| `OpenPauses` | no pause covers a closed day | nothing enforces it; see section 4 |

**Abstracted.** The plan is a RELATIVE_DAY plan delivered every day. WEEKLY_FIXED and
date-selection plans, moved days and meal overrides, plan days whose meals are not
decided yet, the limit of 30 on a pause (`MaxPause` here) and the money are left out.

### SubscriptionPayment

**State.** `sub` is the subscription row (status, payment method), `invoice` its Razorpay
invoice, `processed` the webhook records, `refunds` the refund rows by method, `lock` the
Redis refund lock, `claimed` the materializer's claim on the plan's first day. `razorpay`,
`aged` (over 24 h) and `day` (before, on, after the plan) are the world; `sentBack`,
`activations`, `orders`, `overwritten` count what happened.

| Code | Actions |
|---|---|
| `subscribe` | Subscribe (the row), CreateOrder (Razorpay), CreateInvoice |
| `createManual`, `markPaidManually` | CreateManual, StartMarkPaidManually |
| `verifyPayment`, `handleSubscriptionWebhook`, the job's invoices | StartVerify, ReceiveWebhook, StartCheck and AskRazorpay |
| `confirmInvoicePayment` | MarkInvoicePaid, ReadSubscription |
| `activateSubscriptionNow`, `materializeOne` | ActivateSubscription, MaterializeOne; hourly: StartHourly |
| `cancelWithRefund` | StartCancel, CheckCancel, RefundPayment, CancelWithRefund, ReleaseRefundLock |

The job has a slot of its own because its lock lets one run at a time; that lock is
`PaymentReconciliation`'s subject. `Throw`, `Die` and a lock that expires under its holder
share `MaxFaults`. Razorpay refuses a refund beyond what is left of the payment.

**Abstracted.** Prices, coupons (redeemed in `createSubscription`), the plan's days after
the first (`SubscriptionDays`), cancellation requests, and notifications. A refund of 0
rupees is a choice of its own because the code lets an unpaid plan be cancelled with it.

### PaymentReconciliation

**State.** `pay[x]` is an order with its age in ticks of five minutes and whether Razorpay
captured it; `lock` is the job lock, `firings` the cron firings of this tick, `run[s]` a
run with the window it began with. `ran`, `late` and `missed` remember whether the tick
was served, which payments were captured when hardly any run was left for them, and which
were owed a look by some run that did not give it.

| Code | Actions |
|---|---|
| cron, `JobRunnerService.run` | StartRun, ReleaseLock; its `catch`: Throw |
| `reconcile` | FindPending, Lookup, Confirm, Abandon |

`Tick` ends the lock's TTL (4 minutes) always, and runs in flight stay: one that lasts
beyond a tick is a fault of the model, like an error, a death and a firing that is missed.
Lookups fail freely. `Confirm` marks the order even when what follows throws, as the code
does, and a throw there ends the run. The invoices' half of a run is the same loop.

### OrderPlacement

**State.** `order[o]` has the columns the checks look at (status, kind, table, plates, paid,
whether an unpaid checkout is younger than 15 minutes, and whether `deliveryDate` falls
into the UTC day that stock is counted by); `table[t]` and `entry[e]` are dining tables and
waitlist entries; `night` says the local date is ahead of UTC.

| Code | Actions |
|---|---|
| `createDineIn` | StartDineIn, CheckTable, CheckStock, CreateOrder |
| `seatWaitlistEntry` | StartSeat, ClaimForSeating, the above, MarkSeated; its `catch`: ReleaseClaim |
| `create`, `createManual` | StartCheckout, CheckStock, CreateOrder |
| `addItemsToDineInOrder`, `assignTable` | StartAddItems, CheckStock, AddItems; StartMove, CheckTable, MoveOrder |
| `markPaidManually`, `updateStatus`, `cancelWithRefund` | StartSettle, MarkPaidManually; StartUpdateStatus, UpdateStatus; CancelWithRefund |
| a confirmation by `verifyPayment`, the webhook or the job | StartConfirmPayment, MarkPaid |
| waitlist `cancel`, tables `update`, `delete` | StartCancelEntry, MarkEntryCancelled; StartCloseTable, CloseTable |

**Abstracted.** One meal with a limit; an item without one is 0 plates. Prices, coupons,
the monthly order cap, delivery slots and zones. CONFIRMED stands for PREPARING and READY,
which no check tells apart. Orders of other days do not count and are not there. A refund
is one step here: its lock and its gateway call are `OrderPayments`'. It leaves the order
REFUNDED, so not PAID, and `markPaid` has no condition: `StartConfirmPayment` takes any
online order it reads as not PAID, a cancelled and refunded one included, and `MarkPaid`
makes it CONFIRMED whatever it has become since. `late` marks an order that went on after
its plates were free for others (`GaveBack`: cancelled, or not paid in time).
A bill without plates of the meal is taken
to have other items, so `StartSettle` does not ask for plates.

### UsageLimits

**State.** `item[i]` is an order (with its coupon redemption), a subscription or a user:
whether the counts see it, the UTC month of its `createdAt`, and, as history, the gates
that let it pass. `plan` has the default caps, `limits` is the `tenant_limits` row by
kind, with the month tags of its flags, `coupon` the coupon's state. `local` and `utc`
are the month on the tenant's clock and the one the database counts by. `peak` and
`slack` remember the highest cap applied at each gate and the most that had passed it
uncounted; `due`, `told`, `lost` the alerts called for, mailed, and taken by a fault.

| Code | Actions |
|---|---|
| `create`, `createManual` | StartOrder; `validateCoupon`: CountTotalUses, CountUserUses; `assertOrderAllowed`; Create or GiveUp |
| `subscribe`, `register` | StartSubscribe, StartRegister; `assertSubscriberAllowed`, `assertSignupAllowed`; Create or GiveUp; SendOtp |
| `assert...Allowed` | ReadCap, CountUsage |
| `recordBlockedAttempt`, `maybeAlertNearLimit`, `sendLimitAlert` | ReadFlags, WriteBlocked, WriteFlag, SendLimitAlert, LoseLimitAlert |
| `createDineIn` | CreateDineIn: asks no gate |
| payment, expiry, cancellation, `bankHeldDays` | Enter, ExpireSubscription, CancelSubscription, ReactivateSubscription |
| `updateTenantLimits`, a plan change and `resetForPlanChange` | StartUpdateLimits, UpdateLimits; StartPlanChange, ResetForPlanChange |
| `updateCoupon`, `deleteCoupon` | SetCoupon |

**Abstracted.** The coupon's limits are constants (`CouponUses`): `updateCoupon` can also
change them, which is left out, and `SetCoupon` is what it does to the coupon's state and
`deleteCoupon`. What the coupon is worth and when it is valid; plan coupons, which a table
of their own counts the same way. An update of the limits sets one cap at a time. What
refuses an order besides the gates is one choice, `GiveUp`. The alert address is
configured, and the tenant's clock is ahead of UTC, as in India.

### PlatformBilling

**State.** `sub` is the platform subscription row ("NONE" before there is one) with its
`current` and `pending` mandates and `scheduled` plan; `tenant` is `tenants.status`;
`invite[i]` the activation invites; `processed` the webhook records. `mandate[m]` is a
Razorpay subscription: its state (created, shown to the owner, authorised, ending, dead),
what it was made for (`use`: an invite or a switch), which no later step of the platform
asks about, and, as history, the plans it was submitted with (`asked`). `sent` are the
events Razorpay has to deliver; `comped` says that staff activated the tenant by hand once.

| Code | Actions |
|---|---|
| `createInvite`, `getInviteDetails`, `verifyAndActivate` | CreateInvite; GetInviteDetails, UpdateInviteRazorpaySubscription; StartVerifyAndActivate, ActivateFromInvite, ResetForPlanChange |
| `manualActivate` | StartManualActivate, ManualActivate, ResetForPlanChange |
| `switchPlan` | StartSwitchPlan, Void, UnwindPendingPlanChange, CreateReplacement |
| `switchPlanVerify`, upgrade | StartSwitchPlanVerify, CancelOldMandate, ApplyImmediatePlanChange, ResetForPlanChange |
| `switchPlanVerify`, downgrade | StartSwitchPlanVerify, CancelAtCycleEnd, ScheduleDowngrade |
| `scheduleCancellation` | StartCancellation, Void, UnwindPendingPlanChange, CancelAtCycleEnd, SetCancelAtPeriodEnd |
| `handleWebhook`, `processEvent` | ReceiveWebhook, LookupSubscription, then ReadRow and ReconcileActivated, HaltSubscriptionAndSuspendTenant, Deactivate, or MarkCancelled and Deactivate or FinalizeScheduledPlanChange and ResetForPlanChange; MarkWebhookProcessed |

`switchPlanVerify` takes the plan and the mandate as two fields of one request, and the
signature covers only the mandate and its payment. So `StartSwitchPlanVerify` takes any plan
with any mandate the owner authorised: one made for another plan, one made for an invite,
the current one. `reconcileActivated` reads and writes in one transaction, but at READ
COMMITTED and with no condition, so it is two steps (`ReadRow`, `ReconcileActivated`) and
others commit in between. `manualActivate` is one step, because it writes the tenant first
and every handler that ends or activates the subscription needs that row's lock.

A plan is named by its price, which is all an upgrade looks at. Razorpay may lose an
event, and may deliver it late, twice and out of order; it refuses to cancel a mandate
that is dead. `Throw` in a webhook marks its record FAILED, so Razorpay's retry runs again.

**Abstracted.** Invoices with the `charged` and `pending` events, period ends, trials,
invite expiry, free-text deals (a row without a catalogue plan), paused and resumed
events, mails, and SUPER_ADMIN's direct edit of a tenant. `GetInviteDetails` and
`StartSwitchPlan` are not counted against `MaxRequests`: the mandates bound them.

## 3. Runs

| Run | Bounds | States | What it shows |
|---|---|---|---|
| `safety` | 1 order paid online or in cash, 2 calls at once, all 8 handlers, 2 event kinds, 1 refund, 1 fault | 1.3 million | the eight safety properties |
| `live` | 1 online order, 2 calls, verify, webhook, job and refund, 1 fault | 170 thousand | the two liveness properties |
| `days` | plan of 2 days, calendar of 5, day 2 closed, 2 calls at once, all 5 handlers, 2 edits, 1 fault | 2.2 million | the five safety properties of the days |
| `days_serial` | plan of 4 days, calendar of 9, day 2 closed, 1 call, 3 edits, no fault | 371 thousand | exactly the days bought |
| `subpay` | 1 plan, 2 calls and the job at once, 1 event kind, 2 requests, 1 fault | 546 thousand | payment, activation, refund; the job finds payments |
| `reconciliation` | 2 payments, 2 servers, 2 runs, batch of 1, 24 h = 3 ticks, 1 fault | 345 thousand | the job lock, abandonment, every payment settles |
| `placement` | 3 orders, 1 table, 1 party, 1 plate a day, 2 calls at once, all 11 handlers, 4 requests, 1 fault; from an empty day and from a paid order | 1.35 million | tables, waitlist, stock |
| `limits` | 2 rows, 1 customer, a plan of 5 orders (4 used) and 1 subscriber, coupon for 2, 2 months, 2 calls at once, 3 requests, 1 fault | 851 thousand | how far limits give way, alerts |
| `billing` | 2 mandates, 2 invites, 2 plans, 2 calls at once, all handlers and events, 2 requests, 2 events, 1 fault; from no row, from an invite and from a tenant who pays | 2.9 million | the five properties of billing |
| `closed_once` | plan of 2 days, calendar of 7, day 3 closed, 1 call, 2 edits, no fault | | a counterexample |
| `paid_not_activated`, `upgrade_cancelled` | 1 plan, 1 tenant | | a counterexample each |

Handlers touch one order's rows only, so one order is enough for payments; every race
found is between two calls, and the proofs below lift orders, calls, faults and refunds to
any number. `order.paid` is handled exactly as `payment.captured`, so one of the two and
`payment.failed` suffice. The staff dropdown gets one forward status and CANCELLED;
the others differ in nothing the code tests. The slots are interchangeable, so the
safety runs use symmetry; the runs with liveness do not. `CHECK_DEADLOCK FALSE`: a
delivered or cancelled order at rest has nothing left to happen, the calendar ends, and
requests, mandates and payments are bounded.

`placement`: with a table, a party and a plate fewer than there are orders and calls, all
three are fought over; a third order lets one be refunded, one take its plate and one more
be checked. Besides `Init`, `MCSpec` starts from a day with one online order paid, a state
a few steps of `Next` lead to, with three requests left and no fault: then its refund,
another checkout and a confirmation of the refunded order fit the bound.
`billing`: with two mandates a tenant is activated and switches once, or its invite's page
is opened twice; with two invites it is invited again. `MCSpec` starts from `Init`, with two
requests and a fault to come; from a tenant who has its invite (`Invited`), with two requests;
and from one who paid and is served (`Served`), with two requests or with one and a fault,
which is where switches, cancellations and re-invites begin. The proofs are about `Spec`,
whose `Init` is the empty start alone, and where every bound is arbitrary.
`reconciliation`: with a batch of one
the older payment crowds the younger out, and 24 h of three ticks leave each payment two
runs, one of which may be the slow, failed or missing one. `limits`: at four orders of
five the first count is near the cap and the second hits it, a customer who used the
coupon once has used it up, and three requests let two calls and a reset meet.

For the days, two deliveries are enough for one to be skipped, held or closed while the
other shows whether the credit arrived, and five calendar days hold every credit two
edits and a closure can give. The closed day lies inside the plan: a closure beyond
its end breaks `NeverMoreThanBought` and `ExactlyAsBought` already without concurrency
(`closed_once`). `Notice` is one day, the default; with less, today can be skipped
after its order was created and `NeverMoreThanBought` fails (see the hazards).
`days` makes no assumption but `QuietNights`: the job may miss days, requests may be
answered late, pauses may cover the closure. `days_serial` makes all four and leaves
disruptions out, which are meant to give more than was bought.

**Properties.** `TypeOK`; `MoneyBehindEveryMark` and `ImplementsLedger` (the payment
columns refine `PaymentLedger`); `RefundsAreSerial`, `RefundsAreAccounted` (sent and
recorded refunds differ only by the call between the two, and faults);
`KitchenCooksPaidOrders`; `PaidOrdersAreAnnounced`; `PaidEndsOnlyInRefund`;
`CapturedIsConfirmed`; `RefundLockIsReleased`. `OneOrderPerDay` (while no error was
thrown: see section 4); `NeverMoreThanBought` (delivered, coming and held days never
exceed what was sold plus what disruptions gave: a race can cost the customer a day
and never the kitchen); `CreditsAreBanked` (bankedDays agrees with the skip rows);
`MenuFollowsDeliveries` (no menu day is served twice or left out); `ExactlyAsBought`,
which the refund preview relies on when it counts the days still pending.

`ActivatedOnce` (browser, webhooks, job, two clicks on Mark paid and the hourly job
activate a plan once and make its first day once), `ActiveIsPaid`, `PaidIsServed` (of the
calls that confirm at once, the one that flips the invoice activates),
`RefundsAreSerial` of the plan (sent and recorded once, but for faults and for a
cancellation that an expiry overwrote), `PaymentsAreFound`.

`RunsAreSerial` (of the runs that hold or held the lock of this tick one is in flight: a
slow run that ends does not release its successor's lock), `AbandonedOnlyIfMissed`,
`EveryPaymentIsSettled`.

`BillsPerTable` (a table's open bills and the calls that found it free are together never
more than the call slots, plus bills a status change reopened: exactly one when calls do
not overlap), `NotOversold` (the same for plates: the overrun is at most what the other
calls in flight were promised, and the plates of orders that went on after theirs were
free: paid after the hold, or revived by a status or a confirmation written over a
cancellation), `SeatedOnce`,
`ClaimsAreSettled`.

`LimitsGiveWayToOverlaps` (what counts for a cap or a coupon, and what may still come,
exceeds the highest cap applied by no more than what had passed uncounted when a call
was let through: a gate never lets a call pass that its count refuses, and a row never
counts that its gate did not let pass), `AlertsAreTold`.

`StatusesAgree`, `ActiveIsAuthorised`, `SwitchesAreWhole` (a tenant invited once, whose
current mandate was made for a switch, has a plan that was submitted together with that
mandate; it cannot say that the mandate was made for the plan, because the code does not
ask), `LateEventsResurrectNothing` (what failed or ended is ACTIVE again because its owner
paid an invite; an event can do it only for a tenant invited again, and only one that had
read PENDING_PAYMENT before the end was written).

`PROJECT.json` gives for each property a plausible bug of the code under which it fails.

**Fairness.** In `live`: weak on every step of a call in flight: the event loop
resumes every handler. Weak on lock expiry: Redis does. Strong on redelivery of an
event that is not PROCESSED: Razorpay retries until acknowledged; strong, because the
two slots bound the model and not the server, which does not queue a request behind
others. The job, the browser and staff have no fairness: the customer can close the
tab, and the job looks only at orders PENDING for less than 24 h, so it is Razorpay's
retries alone that `CapturedIsConfirmed` rests on.

In `subpay`: weak on each step of a call, and on the job being started, because cron
fires every five minutes and a business without a webhook has nothing else;
`PaymentsAreFound` therefore ends when the invoice is 24 h old. In `reconciliation`: weak
on the clock, on the start of a run while a firing is left, and on every step of a run.
Neither assumes that a browser, a webhook or a customer comes back.

## 4. What the code does against its own words

- `closed_once`. A credit steps over a closed day after `cycleEnd`, which brings that
  day inside the plan without counting it; when it arrives it is compensated as if it
  had been one of the days sold. A plan of two delivers three.
- `paid_not_activated`. `confirmInvoicePayment` flips the invoice and then activates. An
  error or a stop between the two is final: the webhook's retry, the browser and the job
  all find a PAID invoice and return. `PaidIsServed` says this is the only way.
- `upgrade_cancelled`. An upgrade cancels the old mandate at Razorpay before the row points
  at the new one. The cancelled event of the old mandate, looked up in between, is taken
  for the end of the tenant's subscription, and the shop of a customer who has just
  paid for a larger plan is closed.

The models show more that has no run of its own.

*Orders.* A webhook that read a PENDING order and writes after the refund turns
CANCELLED/REFUNDED back into CONFIRMED/PAID (`markPaid` has no condition), and a second
refund passes every check. The comment on `markPaid` (`orders.repository.ts:353`)
calls a second call "a no-op"; on an order cancelled since it is not, and even a fresh
confirmation of a refunded order passes, since only PAID is looked at
(`payments.service.ts:74`). A late `payment.failed` turns REFUNDED into FAILED
(`markFailed` only spares PAID). A cancellation request's check and insert can straddle
the cancel and leave it PENDING. The dropdown can cancel an order that was marked paid
after it was read: CANCELLED, PAID and no refund record. `markPaidManually` can pull an
order the kitchen has just started back to CONFIRMED.

*Plan days.* A pause over a closed day does not credit that day, and the materializer
returns at the pause's row before it looks at closures (`OpenPauses`). `bankHeldDays`
counts from `cycleEnd` and not from today, so a request answered after the plan's last
day gives days that are past (`PromptAnswers`). Two edits that read one `cycleEnd` each
write their own sum: the later can move the end back, while bankedDays keeps both. An
error after the order is created hands the claim back, and the next hour creates a
second order (hence `throws = 0` in `OneOrderPerDay`). The claim looks at the date and
not at the status, so a plan cancelled a moment ago still gets its order.

*Plan payments.* `expireSubscription` overwrites CANCELLED, which makes the plan
cancellable, and refundable, again (`overwritten` in `RefundsAreSerial`). A payment
captured after the unpaid plan was cancelled for 0 rupees leaves a PAID invoice on a
CANCELLED plan that no refund can reach.

*Payment-check job.* The batch is the 50 oldest: 50 payments that stay pending, for
instance those of one business whose keys no longer work, keep all younger ones from
being asked about until they age out (`missed` in `AbandonedOnlyIfMissed`).

*Counter.* Counter orders store the moment they were opened as `deliveryDate`, and stock
counts the UTC day of the local date: until 05:30 in India they are not counted, and a
plate that is gone is sold again with no two calls at once. One open bill per table is
broken by two overlapping calls, and by reopening a delivered order on a table that is
taken again. A payment after the 15-minute hold takes plates that were sold again, and so does
a confirmation that brings a cancelled or refunded order back (`Unchecked`). A
table can be switched off between the check and the order. A server that stops between
claim and order leaves a party SEATED without one.

*Limits.* Neither a cap nor a coupon is held while a checkout is unpaid, so both are
exceeded by as many checkouts as are begun before the first is paid (`slack`). An unpaid
phone order that staff cancel leaves PENDING_PAYMENT: it then counts among the "real,
paid orders only" (`tenant-limits.repository.ts:29`) and burns its coupon. Months are
named by the tenant's date and bounded by UTC midnights: in India, orders of the 1st
before 05:30 count in no month that is looked at. Counter orders count and ask no cap,
and an expired plan that held days revive asks none either. Only overrides are compared
to see if a cap was raised: clearing one under a larger plan keeps the old flags, and
setting one under the plan's default clears them. A blocked attempt read before a reset
is written after it, flag included.

*Billing.* `switchPlanVerify` never asks which plan a mandate was made for: an owner who
authorised the mandate of a cheap plan and submits it with a dear one is served the dear
plan on the cheap mandate. `reconcileActivated` promises that "a stray/late webhook can
never resurrect a subscription that moved on for a real reason since"
(`platform-billing.repository.ts:365-369`). A tenant invited again is PENDING_PAYMENT with
its old mandate still current; an activated event read then and written after a halt or a
cancellation makes the ended row ACTIVE, and with nothing in between it makes the new plan
ACTIVE unpaid. The comment at `platform-billing.service.ts:398-404` says limits are reset
"on every activation": that activation resets none, nor does the re-invite, which changes
the plan at once. An error between a plan change and its reset is final too. No property
is stated of the reset for that reason; what it does to the limits is in `UsageLimits`.
A crash between voiding a replacement and unwinding it leaves a pending
mandate that is dead, and Razorpay then refuses every later switch. The voided mandate's
own cancelled event, looked up before the unwind, is taken for the downgrade's handoff.
A handoff's event delivered twice at once deactivates the tenant. A double submit of an
upgrade is taken for a downgrade the second time. Events of a mandate that is not saved
yet are marked PROCESSED and forgotten. A stale `manualActivate` opens a shop whose
subscription is past due (`comped` in `StatusesAgree`).

## 5. Proofs

Every theorem is about `Spec` with any sets of orders and call slots, any bounds and
any choice of handlers; the assumptions are the ASSUMEs of the modules, which TLC
evaluates in each run.

- `TypeCorrect`: types, one lemma per group of actions.
- `MoneyIsBehindEveryMark`, `KitchenNeverCooksUnpaid` follow from the inductive
  invariant `FundsInv`. `MoneyBehindEveryMark` alone is not inductive: a call that is
  about to write PAID must still be entitled to. `FundsInv` therefore adds, besides
  `Funded(o)` for every row, `Justified(c)` for every call: one that confirms, marks
  paid or records a refund has money behind it (`NeedsMoney`), verify, webhook and job
  calls are about online orders (`NeedsOnline`), and mark-paid and dropdown-cancel calls
  about counter orders (`NeedsOffline`). Money is
  never untaken and the payment method never changes (`Monotone`), so no call can
  invalidate what another relies on: these theorems need no lock at all.
- `OneRefundAtATime`, `RefundsStayAccounted`, `LedgerIsImplemented` assume
  `SlowCalls = FALSE` and use `LockInv`: whoever is in the locked part owns the lock
  (`OwnersHoldLock`), and until its own transaction its order is PAID and not
  cancelled (`RefundsStayAllowed`), because every other handler that could end PAID
  goes through the same lock. This is the argument the code relies on when it checks
  the order before the gateway call and not after it.
- `OnlyRefundsEndPaid` and `PaidIsAnnounced` need no assumption on the lock.
- `CapturesAreNotForgotten` is the safety half of `CapturedIsConfirmed`, which leaves
  Razorpay to redeliver: a captured event is PROCESSED only when the payment id is on the
  row. A handler decides whether to confirm from a row it read awaits earlier, so `AckInv`
  follows the calls: one that saw PAID and will acknowledge without confirming is about an
  order that has its id (`Acknowledging`), because staff settle no online order
  (`PaidHasId`, from `FundsInv`), and ids are never cleared (`Monotone`).

For the days (`SubscriptionDaysProofs`), with any plan, calendar and closures:

- `BankIsRight`: the credit loop ends, on an open day after the plan's end (or the
  pause's) with exactly the credited number of open days up to it. `Bank` is a CHOOSE;
  the proof shows that what it chooses exists, by the least end with at least `n` open
  days, so the types below do not rest on an undefined value.
- `TypeCorrect`. `TypeOK` is not inductive: a call's remembered day and credit must fit
  the phase it is in. `TypeInv` adds `SlotsOK`: a call between claim and release has a
  day of the calendar (`HasDay`), one about to bank has a credit (`Credits`).
- `OneOrderPerDayHolds`. The inductive `OneInv` says, while no error was thrown, that
  each day has at most one order, none lies ahead of today, and today's exists only
  once the row's claim names today (`OrdersInv`); and that a call between its claim and
  its order has a day without an order, which no other call is working on
  (`WorkInv`). It needs neither the job lock nor `QuietNights`: a run that crosses
  midnight keeps the day it claimed. What it does take for granted is that midnight
  does not fall in the one round trip between reading the date and writing the claim,
  which are one step of the model; there the code relies on the job lock.

- `CreditsAreNeverLost`. The balance is inductive once it counts what calls carry: what a
  call between its skip row and the credit still owes (`InFlight("extend")`), and what a
  call between the credit of held days and their mark has given ahead (`InFlight("mark")`).
  Both are totals over calls; a step of one call moves one summand (`InFlightMoves`, from
  `TotalChange`), so each action is a line of arithmetic (`CreditsMove`).
- `MenuFollows` assumes `QuietNights`: the menu's next day is written from the row read
  at the call's start, and a run that crosses midnight may write a stale one. `MenuInv`
  says that between the claim of a day and that write one call at most is on its way
  (`Busy`) and the row it read is not stale. It uses `OneInv`: a day's first order makes
  `DeliveredDays` grow.
- `DaysAreBounded` is `NeverMoreThanBought`, under the conditions the `days` run gives it:
  `QuietNights`, a notice of at least a day, no closure beyond the plan's end. Without
  the last two it is false (see the bounds in section 3); the first says that the day a
  call works on is still today. Credits are written to `cycleEnd` from the row a call
  read at its start, so two calls overwrite each other, and a bound on the row as it is
  now is not inductive. `BoundInv`
  bounds what would be promised if the plan ended on any day that matters: the days of
  the plan not skipped, those delivered and those on their way (`Reserved(E)`) fit
  the days bought and granted less those held (`Room`), for the row's `cycleEnd` and
  for every older one a call has read and may still credit from (`Fits`, `CreditFits`).
  A stale write can then only put back an end that fits. It takes three smaller
  invariants: what a call knows of its days in each phase (`ShapeInv`), that who works on
  a day claimed it alone and that no delivered day was closed (`ClaimInv`), and that a
  request is answered by one call, whose held days stay held until it banked them
  (`AnswerInv`).
- `DaysAreExact` is `ExactlyAsBought`, under `Lone`, the conditions of the `days_serial`
  run: those of `DaysAreBounded`; one slot, no fault, no disruption; the job runs every
  day, requests are answered before the plan's last night, no pause covers a closure.
  Plan, calendar, closures, pauses and number of edits are arbitrary. With one call the
  row it read is the row there is (`Knows`), so no write is stale, and expiry is never
  undone. `RowInv` says that what was delivered are unskipped days of the plan and that
  skipped days lie in it, or under a pause that is about to extend it. `PlanInv` is the
  count, and it is inductive only where it counts what a call still owes: while the plan
  can be delivered (`Alive`: not cancelled, or until the call that lets it expire has
  written), the days kept on it, those a request holds and the credit of the call in
  flight are the days bought, and every kept day that is `Due` was delivered.
  `PlanIsExact` turns that into the count at rest.

For a plan's payment (`SubscriptionPaymentProofs`):

- `ActivationHappensOnce` and `ActivePlansArePaid` rest on `PayInv`: activations and orders
  agree with the row (`RowInv`: a row still PENDING_PAYMENT was never activated, and an
  order needs the claim), one `subscribe` at a time sells the plan (`OneSale`), and a
  call past the invoice's flip is past a PAID invoice or a captured payment (`SlotInv`).
  The conditional writes do the work; neither the refund lock nor the job's slot is needed.
- `PaidPlansAreServed` adds `ServedInv`: without faults, a PAID invoice on a pending plan
  has a call between the flip and the activation.
- `RefundsAreMadeOnce` rests on `SerialInv`. The lock alone does not do: it can expire, and an
  expiry of the plan overwrites a cancellation. `RowsInv` bounds the refund rows by the
  cancellation and what overwrote earlier ones; `SentInv` bounds what Razorpay was asked
  for together with what calls may still ask for (`Owed`) by the same and the faults,
  with one refund to spare for the lock's holder (`Entitled`); `LockedInv` says that
  without faults the holder is alone and what it sent is what it will record.
- `CapturesStayInReach` is the safety half of `PaymentsAreFound`, which leaves the job to
  run: an event is acknowledged only for a PAID invoice, and a captured payment is on the
  job's list (PENDING) or PAID for 24 h. `ReachInv` adds what calls know: one past the
  flip has its invoice PAID, a run that saw the invoice over its 24 h still finds it so.

For the job (`PaymentReconciliationProofs`), any number of servers, runs and payments:

- `JobIsSerial` rests on `LockInv`: a run that began in this tick owns the lock. That the
  release compares the token is what keeps it true when an old run ends.
- `AbandonedWereMissed` rests on `AbandonInv`: a payment captured in time that is still
  pending in its last tick is on the list of this tick's run or, once a run went through,
  was missed (`OwedInv`); what a run is about to abandon is 24 h old (`StaleInv`); a
  payment not started is not captured (`UnbornInv`).
- `OldPaymentsAreSettled` is the safety half of `EveryPaymentIsSettled`, which leaves a run
  to come: after one that began in this tick went through, nothing is PENDING past its
  24 h. `OldInv` says that such a run began with every payment that is that old.

For billing (`PlatformBillingProofs`), any number of calls, mandates, plans and invites:

- `TypeCorrect` needs that a call in a phase knows what the phase uses (`SlotsOK`): an
  upgrade never finds the row without a mandate, a handoff never without a plan.
- `StatusesAlwaysAgree` needs only the types: each write of the subscription's status
  writes the tenant's in the same transaction, a stale one too.
- `OnlyAuthorisedMandates`, `SwitchesTakeEffectWhole`, `NothingIsResurrected` share
  `AuthInv`: calls carry authorised mandates to the writes that use them, and a verify or a
  handoff carries a plan that was asked for with its mandate (`SlotInv`); the row's pending
  mandate and scheduled plan were submitted together (`RowInv`); a mandate made for an
  invite is never one made for a switch (`InviteInv`); two pages being opened never carry
  the same new mandate (`Apart`). For the late events, a row that is PENDING_PAYMENT with a
  mandate was invited again (`RowInv`), which an event must have seen to get past the read
  (`SlotInv`), and which stays true (`ReinvitedStays`). Nothing ties a mandate to the plan
  or the use it was made for.

For orders being opened (`OrderPlacementProofs`), any number of calls, orders, tables and
parties:

- `OneOrderPerParty` and `ClaimsSettle` share `SeatInv`, whose part `SeatOf(e)` says: one
  call at most seats a party, and none while it is WAITING; it has at most one order more
  than there were faults, and not even that one while it waits or its call has yet to
  open an order; and a claim without an order belongs to a call. The conditional claim is
  what makes it inductive; the cancel that overwrites a claim takes nothing from it.
- `BillsOverlap` needs only the types, because the property counts the promises with the
  bills: a call that passes the check finds every bill of the table among the orders it and
  others are moving there, so it starts from at most one bill per slot, and each later
  write turns a promise into the bill it stood for.
- `StockIsShared` rests on `PlatesInv`: the plates of the counted orders whose check was the
  last word (`Lasting`), with those promised to calls that are about to write (`Flying`),
  stay within the limit and a full cart for each call but one. At a check the lasting
  orders are among the sold ones it counts, and the others in flight are all the rest;
  each write turns a promise into plates of an order. A status that is written might make
  an order count that did not: if its plates were free (`GaveBack`) it is late from then on
  and no longer `Lasting`, whoever wrote it and whatever it had read. `PlatesInv` also says
  that a write goes to an order that exists (`Fit`) and that an unpaid order is neither paid
  nor late (`Unpaid`). It assumes that there is a slot.

For the limits (`UsageLimitsProofs`), any number of calls, rows, customers and months:

- `TypeCorrect`: `TypeOK` is not inductive, since a call's cap, month, alert and user must
  fit the phase it is in (`GoodCall`); `TypeInv` is both.
- `LimitsGiveWay`: with the types `AllWithin`, the bound for each gate and month, is
  inductive, because it counts calls and rows together. A call that passes a gate
  starts from a count under the cap and from an uncounted part that `slack` takes up;
  creating the row turns a call into a row (`CreateWithin`); every other step leaves the
  sum or shrinks it (`ShrinkStep`).
- `AlertsTold` rests on `AlertInv`: a flag that is set has its mail sent, lost, or in the
  hands of the call that set it (`TagsAreMailed`), and an alert that is due is mailed,
  lost, or some call's (`DueIsOwned`). It takes both: a call that finds the flag set
  leaves its alert to whoever set it.

Sums over calls and orders are `Total`s, the number of units a set of pairs has, and not
folds: what a fold computes is an induction over data, while a total changes as a
cardinality does (`TotalsProofs`).

Only model-checked: `CapturedIsConfirmed`, `RefundLockIsReleased`, `PaymentsAreFound`
and `EveryPaymentIsSettled` (liveness under fairness is beyond the prover; the safety
half of three of them, that nothing is put where it would not be looked for, is proved
above), and the counterexamples. Every other property of the runs is a theorem.
`ExactlyAsBought` with overlapping calls is false, since a race can cost the customer a
day, and is claimed by no run. `MenuFollowsDeliveries` without
`QuietNights` is not claimed by any run.

## 6. What would come next

1. An account of the days that overlapping calls and errors cost, which would turn
   `NeverMoreThanBought`, a bound from above, into an equation for any calls.
2. Platform invoices with the charged and pending events, and trials, in
   `PlatformBilling`.
3. Plan coupons, and what an order is charged, next to `UsageLimits`.

## 7. Not modelled

- Pricing, discounts, the refund preview: sequential arithmetic with unit tests.
- WEEKLY_FIXED and date-selection plans, day overrides, menus that are not decided yet.
- Authentication and permissions: every handler is behind them, the models start after.
- The text of notifications and mail; the Bull worker that renders it.
- Single-row settings, content, catalogue, address and review edits: last write wins,
  there is no protocol to check. They and the admin pages are most of the repository.
- The frontend: a client that keeps no state the server trusts.
