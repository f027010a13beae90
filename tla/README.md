# A TLA+ model of AI.OrderProcessingSystem

This directory holds a formal model of the system's moving parts. The order pipeline:
what the WebApi, the Worker and the CronJob do to an order through a shared
PostgreSQL database and RabbitMQ, in every interleaving, with the failures the
deployment can have. The data beside it: stock, references, users and their tokens.
And the client-side form validation that the WebApi ships in `wwwroot`. TLC checks
all of it on small instances; TLAPS proves nearly all of its safety properties, and the
refinement, for every size.

## The system

| Component | State it keeps | Operations | Interacts through |
|---|---|---|---|
| WebApi, `OrdersController` | none between requests | POST, PUT, DELETE, GET of orders | tables; publishes `OrderCreatedEvent` |
| WebApi, `ProductsController` | none | CRUD of products and stock | tables |
| WebApi, `UsersController`, `AuthController` | none | CRUD of users, login (JWT) | tables |
| Worker | running `Consume` calls | consumes created, completed and expired events | tables; publishes `OrderCompletedEvent` |
| CronJob, `OrderExpiryService` | a running sweep | every 60 s expires orders older than 10 min | tables; publishes `OrderExpiredEvent` |
| PostgreSQL (`Dal`) | users, products, orders, order_items, notifications | one transaction per `SaveChangesAsync` | – |
| `JwtTokenService` | none; a token lives in the client that has it | signs and checks tokens | `AuthController`, `[Authorize]` |
| RabbitMQ with MassTransit | three queues, their `_error` queues | publish, deliver, acknowledge, redeliver | – |
| Form validation (`jquery.validate.unobtrusive.js` over `jquery.validate.js`) | per form: the parsed options, the validator object, message boxes and summary | parse, attach, check, submit, reset | `data-val-*` attributes; the server, for remote rules |

An order goes `pending` → `processing` → `completed`, or stays in `processing`
when its (simulated) payment fails and is later swept to `expired`. No step is
coordinated with another: the services hold no locks, the `orders` table has no
concurrency token, an update names the row by primary key, and there is no
outbox, so a save and the publish after it are two steps. What makes this code
hard is exactly that:

- **Interleaving.** The consumer loads an order, pays for five seconds and then
  overwrites the status. A sweep reads a batch and overwrites it later. PUT and
  DELETE do the same.
- **Failure between two steps.** After the payment and before the save, after
  the save and before the publish, after the publish and before the
  notification, in the middle of the publish loop of a sweep.
- **Delivery.** At least once: a crash or a lost connection redelivers, and after
  a lost connection the old handler still runs beside the new one. At most once:
  a message published before the Worker ever declared its queues is dropped, and
  an exception moves a message to the error queue because no retry is configured.
- **Eventual outcome.** Every order must leave `pending`/`processing`, every payment
  and every expiry must be notified.

- **A browser page.** Handlers run one at a time, yet the answer to a remote rule
  comes after the user has typed on, submitted or reset the form, or never.

What makes each component correct:

| Component | Properties |
|---|---|
| Tables | status within its CHECK constraint; no notification without its order |
| Bus | an event the broker took is queued, held, acknowledged or in an error queue |
| Worker | pay before completing; acknowledge after noting; no double payment without redelivery; fail only on deleted orders |
| CronJob | expire what is overdue, once; announce only what was saved; collect everything the Worker leaves behind |
| OrdersController | an accepted order's event is not lost; edits do not break the services |
| Stock | never negative; given back once; units change only by a client's word or a lost update; references hold |
| Accounts | e-mails unique and passwords not undone by concurrent requests; a deleted user's access ends |
| Form validation | rules mean what the attributes say; only valid forms are sent, a refused one is explained, a waiting one is resumed; boxes show the verdicts |

The full list of hazards, each at its line, is in `PROJECT.json`.

## Modules

| Module | Models | Extends |
|---|---|---|
| `OrderTables` | `orders` and `notifications`; one operator per `SaveChangesAsync` effect | – |
| `EventBus` | RabbitMQ as the services configure it | `OrderTables` |
| `OrdersApi` | `OrdersController` Create, Update, Delete | `EventBus` |
| `Worker` | the three consumers and the process around them | `EventBus` |
| `CronJob` | `OrderExpiryService` | `EventBus` |
| `OrderSystem` | the composition, its bounds, fairness and properties | all of the above |
| `OrderLifecycle` | what a customer sees of an order: the abstract specification | – |
| `OrderSystemLifecycle` | the refinement mapping from the pipeline to it | `OrderSystem` |
| `MCOrderSystem` | values and symmetry for TLC | `OrderSystemLifecycle` |
| `Inventory` | stock and order items: POST and DELETE of an order, POST, PUT and DELETE of a product, DELETE of a user | – |
| `MCInventory` | values and symmetry for TLC | `Inventory` |
| `Accounts` | `UsersController`, `AuthController`, tokens | – |
| `MCAccounts` | values for TLC | `Accounts` |
| `UnobtrusiveAdapters` | `data-val-*` attributes to rules; the rules' methods; a definition of what the attributes mean | – |
| `UnobtrusiveForm` | a form with its validator, boxes and summary | `UnobtrusiveAdapters` |
| `MCUnobtrusiveForm` | a form of two inputs, and sample elements, for TLC | `UnobtrusiveForm` |
| `OrderSystemSafety` | proofs: types, no event lost, none completed unpaid | `OrderSystem` |
| `OrderSystemTruth` | lemmas on what a step may change; proofs about notifications and failed messages | `OrderSystemSafety` |
| `OrderSystemCounts` | proofs about rows, payments, status edges and expiries | `OrderSystemTruth` |
| `OrderLifecycleProofs` | proof of the refinement | `OrderSystemLifecycle`, `OrderSystemTruth` |
| `InventoryProofs` | proofs about stock, references and units | `Inventory` |
| `AccountsProofs` | proofs about e-mails and passwords | `Accounts` |
| `UnobtrusiveAdaptersProofs` | proofs about single adapters, and about what `parseElement` makes of an element | `UnobtrusiveAdapters` |
| `UnobtrusiveFormProofs` | proofs about errors, verdicts and submissions | `UnobtrusiveForm`, `UnobtrusiveAdaptersProofs` |

### State and actions

*Tables.* `status[o]` is the status column, `"unused"` before the row exists and
`"deleted"` afterwards (identity columns do not hand out an id twice). `stale`
holds the orders whose `CreatedAt` is behind the expiry threshold; `BecomeStale`
is the only way time enters, and it may happen at any moment, because a message
may wait in its queue as long as the Worker is down. `notifications[o][e]` counts
rows. `UpdateOrder(o, tracked, new)` is Entity Framework's update: the UPDATE is
always issued (UpdatedAt changed) and fails without a row, but carries the status
column only when it differs from the value the context tracked.

*Bus.* A message is an event type and an order; `queue`, `errorQueue` and `acked`
count messages. `bound` tells whether the Worker's queues exist.

*Worker.* `handler[h]` is a running `Consume`: `pc` is the await it is at, `msg` its
message, `tracked` the status its DbContext believes in, `live` whether the broker
still waits for its acknowledgement.

| pc | code (`OrderCreatedConsumer` unless noted) | next action |
|---|---|---|
| `loaded` | order loaded, lines 41–48 | `MarkProcessing` (51–53), or `SaveFindsNoOrder` |
| `paying` | payment delay, line 58 | `PaymentSucceeds` / `PaymentFails` (61–63, 83–89) |
| `paid` | before the save of line 68 | `CompleteOrder`, or `SaveFindsNoOrder` |
| `announcing` | before the publish of line 81 | `AnnounceCompleted` |
| `notifying` | the other two consumers, before their save | `SaveNotification`, or `SaveFindsNoOrder` |
| `acking` | `Consume` returned | `Ack` |

`charges` and `emails` are history: the payments taken and the e-mails sent.

*CronJob.* `sweep[c]` is `waiting`, `saving` (the query returned `batch`) or
`publishing` (saved; `batch` is what is left to announce). *OrdersApi.* `request[r]`
is a running controller action between two awaits; a 404 or 400 changes nothing
and is not an action. A POST goes on from `publishing` to `noting` (the notification's save,
line 134) and `reloading` (136-144), and may fail at each. `accepted` records the orders
whose POST got a 201. `CascadeToOrders` is what the save of a user's DELETE does here: all
orders of the user go in one transaction, with their notifications. Which orders are whose
is left open, so any set of them may go.

*Failures.* `RequestAborts`, `ConsumerThrows`, `AnnounceThrows` and `SweepAborts` are
a throwing call or a stopped process at any await; a throwing publish may or may
not have reached the broker. `WorkerCrash` and `ConnectionLost` give every
unacknowledged message back to its queue; after the second the handlers go on
with `live = FALSE`.

*Inventory.* `stock[p]` is the stock column, `productRow` and `orderRow` tell which rows
there are, `items[o]` maps the products of an order to their quantities. `request[r]`
is a running controller action: `asked` is what the order takes or gives back, `seen`
the stocks its DbContext loaded (`FindAsync` keeps the instance, so a later change of the
row goes unnoticed), `new` what it will save instead. `TakeProduct` and `RestoreProduct` are
one turn of the two `foreach` loops, `CanSave` and `Saved` the transaction with its CHECK and
its absolute values. `MaxStock` stands for 2^31 - 1, and `Sum32` wraps beyond it. Items of
the same product are added up: the loop takes each from what the one before left. The
module stands beside the pipeline because nothing connects the two: no status decides
about stock (an expired order gives nothing back), no stock about a status.

*Order lifecycle.* The abstract specification has an order's `stage` (none, open, done,
over, gone), who `paid`, what was ever `overdue` and what each customer was `told`. The
mapping reads `open` from `pending` and `processing`, `paid` and `overdue` from the history
of charges and of sweeps' saves, `told` from the two kinds of closing notification; a
payment, a save and a notification are each a step of the life, everything about messages,
handlers and requests a stutter. What it forbids is what the services could get wrong
together: completion without a payment, news that is not true or of an order that is gone,
a late save that revives a deleted order, two orders that move in one step unless a sweep
expires both or both go with their customer. `Reopen`, and `Expire` of a completed order, are in it because the code
does both (see `late_payment`).

*Accounts.* `users` are the rows, `used` the ids handed out, `tokens` the subjects of the
tokens whose time has not run out; `lastSet` is history. `request[r]` holds the row its
DbContext loaded and what the client asked for.

| pc | code | next action |
|---|---|---|
| `inserting` | `Create` found the e-mail free, `UsersController` 70 | `CreateSaves` (the unique index decides) |
| `checking` | `Update` loaded the row, 101 | `UpdateChecks` (106) |
| `updating` | before the save of 116 | `UpdateSaves`: only the columns that differ from what was loaded |
| `deleting` | `Delete` loaded the row, 133 | `DeleteSaves` |
| `verifying` | `Login` loaded the row, `AuthController` 40 | `LoginVerifies`, then a token |

A hash is its password (each has a new salt, so a given password always differs from the
column), a token its subject. `Authorized` is all that `[Authorize]` asks: a token that
has not run out. A 401, 404 or 400 that follows a first read changes nothing and is not
an action.

*Adapters.* `adapters` is the list of registrations in the library's order; `adapt` is a turn
of `parseElement`'s loop, `Adapted` all its turns, `Param` the parameters it reads,
`setValidationValues` a rule that is set or overwritten, `Copied` the deep copy of the options
that the validator keeps. `Asked` and `Satisfies` are not code: they say what each attribute means,
for `TranslationIsExact` and
`AdaptersAreExact` to compare with. So are `WellPosed` (the markup and the value are such that this
meaning is defined), `Unambiguous` and `OrderedAlike`. Strings are data: `NumberOf` gives the number
that a value is, `NotBefore` and `NotAfter` give the values that JavaScript's comparison of two
strings places on the accepted side of a bound. The methods `min` and `max` use the latter, as
`Meets` does, because `normalizeRules` (`jquery.validate.js:1341-1357`) makes numbers of the bounds
of `minlength`, `maxlength`, `rangelength` and `range` only.

*Form.* `markup`, `value` are the inputs; `options` what was parsed so far; `page` the
validator's fields (`errors`, `submitted`, `invalid`, `pending`, `formSubmitted`, the cached
remote verdict `previous`, the request on its way `asked`) and the parts of the page it writes
(`box` by field, `summary`). One browser event is one action: `parse`, `parseField`,
`Type`, `Recheck` (blur, key or click), `Submit`, `Answer`, `AnswerLost`, `Reset`, and `Rewrite`
for a script that changes attributes. What a handler does to the page is a function named
after the library's own (`checked`, `form`, `element`, `answered`, `stopRequest`, `resetForm`, `onError`...).
`page.judged` is history: the values that a box's verdict is about.

Abstracted in the pipeline: item lists, prices, totals, users, message texts, delays. The payment
result is nondeterministic (`Random.Shared` against a success rate).

`ClientEdits` says what clients do in a run: the statuses that a PUT may ask for, `"deleted"`
for a DELETE of an order, `"cascaded"` for one of a user.

## What is checked

`CHECK_DEADLOCK FALSE` in every run: with all orders handled and the bounded edits
and failures spent, the system rightly has nothing left to do. That it does not
stop too early is what the liveness properties say.

| Run | Bounds | Shows |
|---|---|---|
| `failures` | 1 order, 2 handlers, 1 error, 1 redelivery, 1 PUT of `pending` | `NoEventLost`, `AckedEventsAreNoted`, `NotChargedTwice`, `PaidIsNotForgotten`, `CompletedIsPaid`, `NotificationsAreTrue`, `ServicesFollowEdges`, `ExpiredOnlyOnce`, `ImplementsLifecycle`: what the services keep up under failures |
| `edits` | 1 order, 2 handlers, 2 requests, 2 edits of any kind (any status, DELETE of the order or of its user) | `TypeOK`, `OnlyDeletedOrdersFail`, `ImplementsLifecycle`: what clients' edits do not break |
| `batch` | 2 orders, 1 handler, 1 DELETE, fair | `NotificationsAreTrue`, `PaidIsNotified`, `ExpiredIsNotified`: a sweep over several orders |
| `redelivery_live` | 1 order, 2 handlers, 1 redelivery, fair | `CreatedIsConsumed`, `ExpiredIsNotified` |
| `first_start` | 1 order, 2 handlers, queues not declared yet, 1 error, 1 edit of any kind, fair | `OrdersSettle`, `PaidIsNotified` |
| `inventory` | 2 products, 2 orders of 2 users, 2 requests, 2-bit stock | `TypeOK`, `ReferencesHold`, `OnlyOverflowIsNegative`, `UnitsAreKept` |
| `accounts` | 1 seeded user and 1 free id, 2 e-mails, 2 passwords, 2 requests, fair | `TypeOK`, `EmailsAreUnique`, `PasswordIsLastSet`, `AccessEnds` |
| `client` | 2 inputs, one with 2 markups and one with a remote rule over both; 2 changes by the user, 1 by a script; fair | `TypeOK`, `SentIsValid`, `BoxesShowVerdicts`, `ErrorsAreVisible`, `RefusalIsExplained`, `SubmitIsAnswered`, `TranslationIsExact` |

Why the bounds are enough to be interesting: orders interact only through a
sweep's batch and the handlers they share, so two orders show both; two handlers
are what a redelivered message next to its own zombie handler needs, and one
redelivery beside one error puts a failed call before, between and after the two
deliveries. The PUT in `failures` reopens the order, also one that has expired, so that a later
sweep may find it again: that is where `ExpiredOnlyOnce` is put to the test. It costs
`ServicesFollowEdges` nothing, which speaks of the behaviours up to the first edit, all of
which are in the run. That a user's DELETE takes several orders is more than a run can hold
in the time it has (`edits` has one order); the theorems have any number. `first_start` begins without queues and contains, as soon as the Worker
has started, every behaviour of a later deployment too. `MaxEdits`, `MaxErrors` and
`MaxRedeliveries` bound the counters, and with them every other one: nothing is
published, charged or noted except on behalf of a delivery, and deliveries are
bounded by orders and redeliveries. Symmetry over orders, handlers, requests and
CronJobs is used by the safety runs only. `inventory` needs no counters: rows are
finite, and so are the requests' states. Two requests are what a lost update or a
second DELETE takes, two products a request between two loads, and with `MaxStock = 2`
a restore overflows. In `accounts` the race for an e-mail is between a POST and a PUT:
with one free id no second POST can save, but the index treats both alike. `client` needs
one field that the server judges and one that is judged here and is part of the payload
of the first; two changes make a verdict stale and then fresh again, and submitting,
leaving fields, resetting, answers and failing requests are not bounded at all. Its
boxes take the message (`data-valmsg-replace=true`) or not. `TranslationIsExact`
holds for the rules in effect in every state of the form and, apart from any form, for every pair of
attributes (with and without each parameter) and ten filled-in forms each; triples would add nothing, since
adapters meet only where two set the same rule. The samples hold ranges with one bound and values
that strings and numbers order differently (`MCNotBefore`, `MCNotAfter`); `OrderedAlike` leaves those
pairs out.

What holds, in words: without a redelivery no order is charged twice and none that
was paid is forgotten; an acknowledged completion or expiry has its notification;
a consumer's save fails only on a deleted order; an unedited order is completed
only after a payment; a sweep never announces what it did not save, and never expires what is
expired; whatever
happens, every order ends up settled, because the CronJob collects what the Worker
leaves behind. Units of a product appear or disappear only when a client sets the stock,
a user is deleted with all orders, or a save overwrites a stock that it has not seen;
the last of these is the concurrency control the repository does without
(`PRPs/order-processing-system-api.md:2353`). Two users never share an e-mail although
the check and the insert are two steps; a PUT without a password never restores an old one,
because Entity Framework writes only changed columns; a deleted user's token runs out, and
its id is not reused. A form that is sent is valid by what was parsed before the validator
was made, however late the server's answers; every refusal is explained in the summary; a
submission that waits is resumed by the last answer; a box is red exactly when the verdict
it shows was a refusal, also after a reset.

What the properties had to leave out, because the code leaves it out:

- Two overlapping PUTs of a user: the one that leaves the e-mail as it loaded it
  answers 200 with an e-mail that the other has replaced meanwhile (`UsersController.cs:111`).
- After the last user is deleted and the tokens have run out nobody can create a user.
- A remote request has no error callback: when it fails the field stays pending, and a
  submission that waits for it waits for good (`jquery.validate.js:1589`); hence `\/ lost` in
  `SubmitIsAnswered`.
- `formSubmitted` survives a resumed submission that finds an error, and a reset
  (`jquery.validate.js:1133`): a later answer may send the form without a new press of the button.
  It is valid even then.
- A late verdict of the server replaces a newer local one in the box until the next check.
  `BoxesShowVerdicts` therefore speaks of the values that were judged, not of the current ones.
- The validator is made once: what is parsed afterwards is never checked
  (`jquery.validate.unobtrusive.js:161`). The comment at lines 181-185 there recommends
  `skipAttach = false` for parsing several elements one by one, which is the order that
  makes only the first one's rules effective; the code wants `true`, and then one attach.
- Where two attributes set the same rule (`length` and `minlength`, `regex` and `password`), the
  adapter registered later wins (`LastAdapterDecides`). `Unambiguous` excludes them.
- A `range` with only a minimum or only a maximum sets `min` or `max` with the attribute's string
  (`jquery.validate.unobtrusive.js:316`, 319), which stays a string. `value >= param` and
  `value <= param` (`jquery.validate.js:1495-1502`) then compare two strings: a minimum of "2" refuses
  "11", a maximum of "3" accepts it. A range with both bounds compares numbers. `TranslationIsExact`
  leaves out the values for which it matters (`OrderedAlike`), and `AdaptersAreExact` proves that
  they are the only ones.
- `nonalphamin` of 0 still asks for a symbol, and so does an empty optional field (line 355).
- `creditcard`, `extension` and `fileextensions` set rules whose methods are in
  `additional-methods.js`, which `_ValidationScriptsPartial.cshtml` does not load; `check()` throws
  at them. `FormAssumption` keeps them out of the form.
- `addMinMax` reads `params.min` and `params.max` whatever attribute names it was given (309-310), and
  `addSingleVal` reads `params[undefined]` if the attribute is left to its default (335). No
  registration in the file does either, so the model's constructors do not offer it.

What does not hold, each shown by a run that finds a counterexample:

| Run | The repository says | The code does |
|---|---|---|
| `late_payment` | pending → processing → completed, or expired from one of the first two (`PRPs/event-driven-architecture.md:738`, `INITIAL.md:138`, `README.md:197-199`) | a sweep and a payment that overlap overwrite each other: expired → processing, expired → completed, completed → expired |
| `lost_event` | the Worker consumes the event of every created order (`README.md:187-188`) | an order created before the Worker's first start is published to no queue |
| `manual_completion` | completion only via the event-driven flow (`PRPs/event-driven-architecture-fix.md:203`) | PUT sets `completed` |
| `no_retry` | MassTransit retries on exception (`PRPs/event-driven-architecture.md:739`) | no retry policy: one exception, error queue |

The documents also contradict each other about expiry. `INITIAL.md:54-58`, 155 and 184-190 and
`PRPs/event-driven-architecture-fix.md:12-13`, 64-72 and 219-264 say that only `processing` orders
expire, and that `OrderExpiredEvent` and its consumer are to be removed; `INITIAL.md:140` lists
pending → expired and notes that it "should be processing → expired". `README.md:197-202` says
that pending and processing orders expire and that the event is published and noted. The code is
with the README (`OrderExpiryService.cs:58`, 94), and so is the model: `DocumentedEdges` has
pending → expired, so that `late_payment` does not rest on this disagreement, and
`ExpiredIsNotified` is about an event that `INITIAL.md` no longer wants.

Also visible in the model: after a redelivery a paid order can be forgotten. The
Worker dies between payment and acknowledgement, the second delivery sets the
order back to `processing`, its payment fails, and the order expires. That is why
`PaidIsNotForgotten` is conditional on `redeliveries = 0`.

With `CronJobs = {c1, c2}` `ExpiredOnlyOnce` fails as well: nothing locks the rows that
two sweeps read (`INITIAL_part_2.md:187` asks for it), so both expire and announce the
order. `docker-compose.yml` runs one instance, and so do the runs. With one CronJob the property
has one exception left: clients that PUT `expired` themselves (`"expired" \in ClientEdits`), which
they may do between a sweep's query and its save. Reopened, paid late, redelivered or deleted
orders are no exception.

### Fairness

`FairSpec` assumes that running services make progress: weak fairness of each
request, each handler, the delivery of each order's messages, each CronJob, the
Worker's first start, and the passing of time. Kestrel, MassTransit's consumers
and `PeriodicTimer` schedule these without further conditions, and docker restarts
Worker and CronJob. Delivery is fair per order and not per handler. Nothing is
assumed of clients, of failures, or of the payment's result.

In `accounts` a request that was begun ends (Kestrel runs the continuation of every await), and
a token's time runs out. Logins are not fair, and neither is anything else that a client
begins. In `client` every request of a remote rule ends, by an answer or by a failure
(browsers do time out), and which of the two is left open; the user may stop at any time.

## What is proved

TLAPS checks the following for every value of the constants that meets the assumptions
named in the modules: `Handlers` and (in `Inventory`) `Orders` are finite, `NoMessage` and
`NoOrder` are no message and no order, the bounds are naturals, `ClientEdits` are statuses,
`"deleted"` or `"cascaded"`; in `Inventory` every order has an owner, carts ask for positive quantities,
and what clients may set is a stock; in `UnobtrusiveForm` inputs have rules with methods
and attributes that are well defined, unambiguous and no one-bound range that orders the values to
be typed unlike numbers, no `equalto` among them (`FormAssumption`, `SamplesAssumption`), and undefined is neither the value true, nor a list of numbers
(`UndefinedIsNoBound`), nor an object of field values (`UndefinedAssumption`). TLC evaluates all
of them on the values of the runs.

| Module | Theorem | Property |
|---|---|---|
| `OrderSystemSafety` | `TypeCorrect`, `EventsAreNotLost`, `CompletedOrdersArePaid` | `TypeOK`, `NoEventLost`, `CompletedIsPaid` |
| `OrderSystemTruth` | `NoFalseNotification`, `OnlyDeletionsFail` | `NotificationsAreTrue`, `OnlyDeletedOrdersFail` |
| `OrderSystemCounts` | `AckedEventsHaveRows`, `PaymentsAreBounded`, `PaymentsAreRemembered`, `StatusesFollowEdges`, `ExpiriesAreOnce` | `AckedEventsAreNoted`, `NotChargedTwice`, `PaidIsNotForgotten`, `ServicesFollowEdges`, `ExpiredOnlyOnce` |
| `OrderLifecycleProofs` | `PipelineRefinesLifecycle` | `ImplementsLifecycle` |
| `InventoryProofs` | `InventoryTypes`, `CheckMeetsOverflowOnly`, `ReferencesNeverDangle`, `UnitsNeverVanish` | `TypeOK`, `OnlyOverflowIsNegative`, `ReferencesHold`, `UnitsAreKept` |
| `AccountsProofs` | `AccountsTypes`, `NoSharedEmail`, `NoOldPassword` | `TypeOK`, `EmailsAreUnique`, `PasswordIsLastSet` |
| `UnobtrusiveAdaptersProofs` | `AdaptersAreExact`, `LastAdapterDecides`, `ElementsAreExact` | of one adapter, of any element: what `TranslationIsExact` says of the form and the samples |
| `UnobtrusiveFormProofs` | `FormTypes`, `NoHiddenErrors`, `NoSilentRefusal`, `BoxesNeverLie`, `TranslationHolds`, `SentFormsAreValid` | `TypeOK`, `ErrorsAreVisible`, `RefusalIsExplained`, `BoxesShowVerdicts`, `TranslationIsExact`, `SentIsValid` |

So every safety invariant and action property that a run checks is proved. One theorem has a
hypothesis: `ExpiriesAreOnce`, that there is at most one CronJob (`docker-compose.yml` deploys one;
with two the property is false, see above). It allows any edits but a PUT of `expired`.

How the proofs go:

- *Types of the pipeline.* `TypeOK` is inductive. One lemma states the typing of each
  database and broker operation, one of each component's steps; the step of the system
  combines them.
- *No event is lost.* `NoEventLost` is not inductive: an order becomes accepted two steps
  after its publish. `EventInv` adds the requests in between and that the queues stay
  bound. Its heart is `StepKeepsAccounted`: a message that is queued, held, failed or
  acknowledged is so after every step.
- *Paid before completed.* `PaidInv` adds that a handler between payment and publish has
  taken a payment for its order, and that no PUT in flight asks for `completed`.
- *What is said is true.* `OrderSystemTruth` first sums up what any step may do to one
  variable (`ChargesStep`, `EmailsStep`, `ExpiriesStep`, `MessageStep`), so that later proofs
  need not go through `Next` again. `OriginInv` says where a message can come from: a
  completion event only of a paid order, an expiry event only of an expired one, and no event
  of an order that was never placed. `RowsInv` counts: rows written plus handlers that have sent the
  e-mail and not yet saved are at most the e-mails; a save turns one into the other.
  `OnlyDeletedOrdersFail` is then inductive: a save misses its row only if that is deleted,
  and deleted is for good (`PlacedStays`).
- *Counts.* `RoleInv` ties what a handler does to the type of its message. `AckInv` adds the
  handlers that have saved and not yet acknowledged to the acknowledged messages. `OnceInv`
  bounds payments plus undelivered and unpaid deliveries by one plus the redeliveries; what
  makes it hold is that a creation event is in one place at a time, and that a lost Worker
  gives back no more than one of each. `RememberInv` follows a paid order from the handler to
  the completion event, its handler, its row. `EdgeInv` says that without edits an order that
  a handler has taken up is not pending any more and a completed one was paid for;
  `TakenUpAgain` that taking a completed order up again needs a redelivery. `SweepInv` says that what a
  sweep is about to save is not expired yet, which holds as the CronJobs are the only ones to
  write `expired` (no PUT in flight asks for it either) and there is one of them.
- *Refinement.* Each step is mapped by what it does to the variables of the mapping:
  `SameRowsSameStory` makes everything about messages, handlers and requests a stutter, and
  `TruthInv` gives the guards of `Pay`, `Complete`, `Tell` and the others.
- *Stock.* The types hold every stock within 0 and `MaxStock` although a request computes with
  32-bit numbers (`Sum32Range`). `OnlyOverflowIsNegative` is inductive product by product
  (`Fits`), given the types, and so is `ReferencesHold`; the step that matters is `SaveCreate`,
  whose transaction fails when a product or the user is gone by then. `UnitsAreKept` speaks of
  a sum over all orders. `KeepInv` says what a request knows of its order while it works on it
  (`Takes`, `TakesAlone`, `Restores`); that a sum over a finite set changes as its one changed
  term does is proved from the recursive definition of the sum by a least counterexample,
  as an induction scheme cannot be instantiated.
- *Accounts.* `AccountsInv` adds to the types that a request which is about to write has
  something to write. Uniqueness is the database's index at every save; that an old
  password does not come back rests on the columns that a PUT leaves out.
- *The form.* What each function of the library does to a page is proved once, for any page
  (`CheckedParts` and the lemmas after it), and a step only calls such functions. `PageInv`:
  tables are of fields, every request on its way is counted, errors in the list can be seen.
  `VerdictInv` adds what the answers need (`RemoteInv`): a request on its way was made for a value without
  another error, what is remembered of it is about the same values unless a reset has dropped
  it, and once no answer is awaited the remembered verdict is the server's (`Remembered`). With
  `NeverSkipped`, that the rule which `parseElement` always adds keeps `check()` from ending
  without a verdict, this makes `BoxInv` inductive; and a form that `Submittable` lets through
  passes its rules and the server's (`Passes`).
- *The adapters.* `AdaptersAreExact` says of one adapter what `TranslationIsExact` says of a whole
  element: for any parameters and any value, the rules it sets accept what its attribute asks.
  There is a lemma per kind of adapter; `MinMaxIsExact` is shared by `length`, `minlength`,
  `maxlength` and `range`, `RangeIsExact` says when the rules of a range are those of numbers
  (`SameOrder`: always with two bounds or none, and with one exactly for the values that both orders
  place alike), `ConcatAccepted` puts the rules of `password` together. `WellGiven` is
  what the markup has to get right: a minimum and a maximum that are both there are numbers, a
  `regex` has its pattern, and the rules have methods. That leaves out `creditcard`, `extension`
  and `fileextensions`, and `minlength` with only a maximum, which sets a rule named `undefined`.
- *Elements.* `adapt` and `Adapted` are recursive functions; that they exist and what their nth
  value has set (`HasSet`, `HasAll`) is proved by `Induction`, which is stated with a set instead of
  a predicate and comes from the least member of a set of naturals. It needs that no adapter sets a
  rule twice (`AdaptersAreProper`). `LastAdapterDecides` says what `parseElement` sets for any
  element, ambiguous ones included. In `ElementsAreExact` no two attributes set the same rule
  (`Unambiguous`), so every rule has the value that its adapter gave it, and the validator's copy
  loses only those that are undefined, which are `equalTo` rules without a field to compare with.
  `TranslationHolds` and `SentFormsAreValid` follow from it and from the invariant of the form.

Model-checked only is liveness (`OrdersSettle`, `CreatedIsConsumed`, `PaidIsNotified`,
`ExpiredIsNotified`, `AccessEnds`, `SubmitIsAnswered`): it rests on fairness, thus on ENABLED,
which the prover does not do.

## Plan

1. Done: `OrderTables`, `EventBus`, `Worker`, `CronJob`, `OrdersApi`, `OrderSystem`, its
   runs, and the first theorems.
2. Done: `Inventory`, its run and its first theorems.
3. Done: `Accounts` with its run; `OrderLifecycle` and the refinement that shows the pipeline
   to implement it; the form validation with its run.
4. Done: theorems about the pipeline, its refinement, `Accounts`, the units of stock and the
   form.
5. Done: the adapters, one by one and together (`AdaptersAreExact`,
   `LastAdapterDecides`, `ElementsAreExact`).

## Not modelled

Prices and totals. A product may cost 0 and an order item may not, so a POST for a free
product fails at its save, like the other failures of `RequestFails`.

Startup. The WebApi migrates the database before it serves requests; Worker and CronJob do not
wait for it. Until then there are no orders and no events, and a sweep that runs too early fails,
is logged and repeated (`OrderExpiryService.cs:36-46`). The part of startup that does matter, queues that
are not declared before the Worker's first start, is `WorkerStarts` in the pipeline.

Of the form validation: options that a page may set (`unobtrusive.options`), `validationInfo.validate` (for
Unobtrusive Ajax), `destroy`, `cancel` buttons, groups, inputs of the same name, hidden and disabled
inputs, rules from classes, HTML attributes or `data-rule-*`, the blur handler that `equalTo`
binds, and the flag that guards `onReset` against itself (a reset inside a reset is the reset).
The library is vendored, and in this repository `Views/Shared/_ValidationScriptsPartial.cshtml` is what
loads it; no view has a form yet, and `site.js` has only comments. `jquery.validate.js` is modelled as far
as the unobtrusive layer depends on it, jQuery itself as what its functions do.

Configuration, DTO and enum classes (data without behaviour), GET actions (no state
changes; a read sees one committed state), logging, Swagger, the MVC template
pages, jQuery and Bootstrap. Password hashing and JWT signing are library
calls. RabbitMQ and PostgreSQL are trusted to keep what they acknowledged (both
have volumes in `docker-compose.yml`), and a broker restart is covered by
`ConnectionLost`.
