# Verification of syncora

TLA+ models of the services of `services/api`, the API of syncora (field-service
management: cases, interventions, quotes, invoices, stock, subscriptions), with
the TLC configurations that check them and TLAPS proofs of their safety properties.

Every service is a NestJS class over MongoDB collections.  **There is no
transaction anywhere**: an operation reads a document, checks it in memory, and
some `await`s later writes it back, often by `_id` only.  Between two awaits
other requests run; at any await an exception or a restart may end the request
and leave what it has already written.  The models therefore have one action
for each stretch of code between two awaits, a `pc` for each request, and the
locals a request carries over an await (`doc`, `held`, `seen`, `op`, `pre`,
`snapshot`, ...).  A single-document update (`findOneAndUpdate`, `updateOne`,
`insertOne`) is one atomic action, with the filter it carries as its guard;
`doc.save()` writes the modified fields by `_id`, whatever the document has
become.

## 1. Inventory

All paths are under `src/services/api/src/domain/` unless stated.

| component | state | operations | what is hard | what makes it correct | modelled |
|---|---|---|---|---|---|
| Local billing engine `billing/invoices.service.ts` | `invoices`, `invoice_sequences` | create (draft, issued), finalize, markPaid, cancel, credit, send | read-check-save over awaits, number allocated before the save, whole-array log writes, mail sent before it is logged | numbers unique, gap-free, never freed; issued documents frozen; truthful append-only log | `Invoices` |
| Subscriptions `subscriptions/subscriptions.service.ts` | `organization_subscriptions`, `processed_stripe_events` | Stripe webhooks, startTrial, extendTrial, staffExtendTrial, checkout, add-ons | duplicated, reordered and failed deliveries, snapshots that overwrite, trials racing webhooks | document agrees with Stripe, every event recorded, extensions capped | `Subscriptions` (partly) |
| Article stock `stock/article-stock.service.ts` | `articles` (total and per-location entries), `stock_movements` | create, movement, intervention usage and return, transfer, (de)activate, delete | total, entry and journal are three writes; positional `$` | journal explains the total, entries sane, transfers conserve | `Stock` (partly) |
| Stock locations `stock/stock-location.service.ts` | `stock_locations` | create, delete, default | first default by read then insert, delete after a count | a default location exists | `Stock` (partly) |
| Billing gateway `billing.gateway.service.ts` | billing status of cases and interventions | create/finalize/pay/cancel/credit with the statuses they recompute, situations | recomputed from stale lists, three services written in turn | statuses agree with the invoices; situations numbered once; quote not over-invoiced | `CaseBilling` (partly) |
| Users, memberships, invitations `users/users.service.ts`, `admin.service.ts`, `auth.service.ts`, `permissions/permissions.service.ts` | users, memberships, assignments, invitations | invite, accept, cancel, deactivate, reactivate, login, switch | last-administrator and seat checks before writes, invitations of five writes, reads that write (backfill) | one administrator remains, seats capped, nobody joins without an invitation that stands, a pending invitation can be answered | `Memberships`, `Roster` (partly) |
| User sessions `users/user-sessions.service.ts` | sessions | create, validate, revoke | one session per device class by delete then insert; a suspension racing a login | a deactivated member has no session | `Memberships` (partly) |
| Maintenance contracts `cases/maintenance-contracts.service.ts` and its schedulers | contracts, generated cases | create, update, remove, generate visit, hourly rounds, reminders | cron against user, stop between case and contract save, month arithmetic, a flag that stays set | every due contract gets its visit, one visit per due date, reminders are true | `MaintenanceVisits` (partly) |
| Cases and todos `cases/cases.service.ts` | cases | create, update, todos, auto-advance, delete | advance computed from todos read earlier, deletion of four collections | status agrees with the todos, nothing of a deleted case is left | `CaseWork` (partly) |
| Interventions `cases/interventions.service.ts` | interventions, `interventionCount` | create, update, start, complete, sign, delete | counter in another document, signature read then written | signed once, counted once | `CaseWork` (partly) |
| Quotes `cases/quotes.service.ts` | quotes | create, update, send log, delete | maximum plus one numbering, whole-array log | unique numbers, an answered quote not sent back | `CaseWork`, acceptance in `CaseBilling` (partly) |
| Comments, history, dashboard | one record each | single inserts, queries | nothing | - | no: no protocol |
| Prestations | catalog, usage list | edit, replace all | nothing but last-writer-wins | - | no |
| Customers, order givers, fleet, technicians, teams, agencies | plain records | create, edit, delete | nothing | - | no: no lifecycle |
| Integrations | past synchronizations | reads; connectors answer 410 | nothing any more | - | no |
| Notifications, documents, exports, search, import, assistant, ops health, platform back office | external services, queries | best-effort calls, parsing | external I/O | - | no: pure I/O or queries |
| HTTP layer, web front end | none / UI | mapping of requests, screens | nothing | - | no |

**How they interact.** Components live in one process and call each other
directly.  The billing gateway calls `InvoicesService`, then recomputes the
billing status of the case and of its interventions from the invoices it lists.
`StockLocationService` resolves the location of every movement and its deletion
edits the articles.  Interventions increment a counter on their case.
Maintenance contracts create cases and interventions.  Admin and auth call users,
permissions, sessions and subscriptions (seats, access).  Outside the process:
MongoDB, Stripe (webhooks in, API calls out), the mail server.  Two schedulers
(visits, reminders) call the services as a user would, from a cron.

The hazards of all components, at their lines, are listed in `PROJECT.json`.

## 2. The modules

### Invoices - the local billing engine

One organization; what differs between organizations is the key of every query.

* A field of an invoice document is a function over the document identifiers
  `Ids` (`status`, `number`, `deleted`, `credited`, `emailSends`, `version`);
  `lastNumber[series][year]` is `invoice_sequences`.  `series` "F" numbers
  invoices, "A" credit notes.
* `finalizeInvoice` is `FinalizeRead` (requireInvoice and the draft check),
  `FinalizeAllocate` (`allocateNumber`, one atomic `$inc`), `FinalizeSave`
  (`doc.save()`).  `markPaid` and `cancelInvoice` are a read and a save.
  `creditInvoice` is `CreditRead`, the second check of `createInvoice`
  (`CreditRecheck`, `CreditRefused`), `CreditAllocate` and the insert
  `CreateIssued`, which also ends a creation with `draft: false`
  (`IssueAllocate`).  A draft is one insert (`CreateDraft`).
* `sendInvoice` is `SendRead`, `SendMail` (the mail server takes the e-mail or
  not) and `SendLog`, which saves the whole array: mongoose then matches and
  increments `__v`, so a save over an array that has changed throws
  (`SaveAccepted`).
* `Abort` ends a request at any await; `NewYear` moves the clock (the year of a
  number is read when it is allocated).

Left out: lines, amounts, parties, PDF rendering, the numbering prefix.  Amounts
matter to one rule only, what is invoiced of a quote, which is the matter of
`CaseBilling`.

`FiscalLedger` is the abstract specification: bound books, one per series and
year, in which each document is entered once, on the next page.
`InvoicesLedger` maps the invoices to the books (`Pages`), and
`ImplementsLedger` says that the service implements them.

### Subscriptions - access, trials and Stripe

* `doc` is the organization's only document: a `View` (subscription, status, end
  of trial, end of period, seats) and the counter of extensions.  Day 0 is an
  undefined date, which a `$set` drops (`Kept`).
* Stripe is external: it holds `stripe[s]`, and each of its changes emits an event
  with a snapshot.  The document never disappears from `events`, so an event
  may be delivered again, late and in any order.
* `handleStripeWebhook` is `Receive` (not in `processed_stripe_events`), the
  handler (`Fetch` and `Persist`, `Persist`, or `Delete`), and `Record`; `Fail`
  ends any of them, as the `catch` that answers 500 does.
* `startTrial`, `extendTrial`, `staffExtendTrial` are a read with all their
  checks and a write; `updateSubscriptionAddons` reads, changes Stripe and
  persists or leaves it to the webhook.  `createCheckoutSession` decides from
  the document whether Stripe gives a trial.
* `Serial` is TRUE in the instance where handlers do not overlap, none fails and
  events come in order.

Left out: customers, prices, the billing portal's URL, alerts, and add-ons that
could be bought alone (the catalog has none).  "incomplete" checkouts give no
access and are left out.

### Stock - one article and the locations

* `total` and `stocks` are `stockQuantity` and `locationStocks` of the article,
  `life` its existence, `isActive` and `deletedAt`; `location[l]` is a document of
  `stock_locations`; of the journal only the sums are kept that the service
  computes or a property needs (net change; consumed and returned on one
  intervention; and `tagged`, what `createArticleMovement` returned on it without
  the check of `addInterventionArticleUsage`).
* A movement is `MovementRead`, `ApplyMovement` (the guarded
  `findOneAndUpdate`, which returns the document as it was), `LocateEntry`,
  `MoveEntry` and `RecordMovement`, with the early returns and refusals
  `RefuseMovement`, `SkipLocation`, `RefuseLocation`.  A transfer is
  `TransferRead`, `TransferTake`, `TransferGive`, `RecordTransfer`.
* With two conditions on an array MongoDB's positional `$` is the first entry
  that matches either: `TakeOut` chooses between both, and `Unoccupied` matches
  a location with an entry when any entry holds something.
* `lost` counts the changes of the total whose request was stopped or refused
  before it recorded them; `overlapped` remembers that two requests have been in
  flight together, so that one run checks both what holds always and what holds
  only without overlap.

Left out: names, prices, thresholds, edits of labels, the purge of
demonstration data.

### CaseBilling - the billing of one case

The gateway writes an invoice, then two statuses that are derived from it, in
three collections.  `Invoices` looks at one document and its number; `CaseBilling`
looks at all the invoices of one case, at the case and at one intervention.

* `invoices` are the invoices of the case in the order of their creation, each with
  its status, its amount (units of which the quote has `QuoteTotal`), whether it
  is of the quote, its situation number and whether it bills the intervention.
  `billing` and `work` are the `billingStatus` of the case and of the intervention;
  `op` is what a request was asked and what it has read.
* `createInvoice` is `CreateRead` (the case), `CreateList` (`prepareInvoice`: what is
  already invoiced and the next situation number) and `CreateInsert` or
  `CreateRefused`.  Finalization, payment and cancellation are a read and a save,
  a credit note a read and an insert.
* Each of them goes on with `recomputeCaseBillingStatus` (`RecomputeRead` of the
  case, `RecomputeList` of the invoices, `RecomputeApply`), which only moves the
  status forward, and, if the invoice bills the intervention, with
  `syncInterventionBillingStatuses` (`SyncForward` or `SyncBack`, then `Mark`).
* `AcceptQuote`, `AcceptRead` and `AcceptWrite` are the update of a quote to accepted;
  `EditBilling` is the status a user sets by hand.  `Abort` stops a request at any
  await.  `stale` remembers that a stop or an edit has not been followed by a
  recomputation yet.

An invoice of free lines derives the status without the total of the quote, all the
others with it; hence `BillingCaughtUp` accepts either derivation.

Left out: parties, e-mails, PDFs, quotes whose lines change or that are no longer
accepted, several quotes, a user's edit of the intervention's status, and the
second read of a credit note's original, which is in `Invoices`.

### Memberships and Roster - the users of one organization

`Roster` is the abstract specification: a user is outside, invited, a member or
suspended; invited users and members never exceed the seats; one joins only by an
invitation that stands; the last active administrator is not suspended.
`Memberships` is what the code does, over six collections:

* `account`, `current` are `users` (existence, `passwordHash`, `deletedAt`;
  `organizationId`); `member`, `role` a membership; `assigned` the permission
  assignments; `invitations`; `session` the session of one class of devices.
* An invitation is `InviteRead` (the seats), `InviteFind` (account and
  membership), `InviteCreate`, `InviteEnrol` (an upsert whose filter has no
  `deletedAt`), `InviteAssign` and `InviteIssue`.  An acceptance is `AcceptRead`
  (the token), `AcceptIdentify`, `AcceptCheck`, `AcceptRegister`,
  `AcceptActivate`, `AcceptSettle`, `AcceptAnswer` and the login.  A cancellation
  goes from `CancelRead` to `CancelUnassign`, a suspension is `SuspendRead` (with
  the count of the other administrators), `SuspendSave`, `SuspendRevoke`,
  `SuspendMove`, a reactivation `RestoreRead`, `RestoreReread`, `RestoreSave`.
* Reading a user writes: `ensureMembershipsBackfill` gives an account of the
  organization without a live membership an active one (`Lacking`, `Revive`).
  It runs on its own (`FindUser`), in a login and in an acceptance, so that after
  a cancellation stopped half-way a read lets the invited user in.
* `createSession` is a delete and an insert (`ReplaceSession`, `OpenSession`).
  `EndSession` is a logout or the end of the sessions by a change of password.
* `Abort` stops a request at any await.

A user is an account, not an address: once an account is deleted, whoever takes the
address again is another user.  Accounts of `Elsewhere` have an active membership in
another organization, which nothing here changes.  Left out: the new e-mail of a
pending invitation, changes of permissions (no operation changes a role after the
invitation), profiles, the registration of a new organization, the deletion of an
account by its owner, passwords, preferences, expiry and listing of sessions, and the
subscription's access: the seats are `MaxSeats` all along, as when access is given
(without access the service sets no limit).

### MaintenanceVisits - contracts, their visits and reminders

* `contract` is `maintenance_contracts` with its `__v`; `cases` the cases opened
  for a visit, each with its due date and whether its intervention was planned.
  Dates are day numbers over months of the lengths `MonthDays`.
* `generateVisit` is `PlanRead` (and `CloseContract` past the end), `OpenCase`,
  `PlanIntervention` and `RecordVisit`: three documents.  The last one replaces the
  array `visitHistory`, so mongoose saves it only over the version that was read; a
  refused save leaves a case and an intervention without a record.
* The worker's hourly round is `StartRound`, `SearchDue`, `ProcessContract` for each
  candidate as it was read, `EndRound`; `FailToStart` is the start that throws
  before the `try`.  The notifier's round is `SearchReminders`, `QueueReminder`,
  `EndQueue`, `Remind`, `MarkRead`, `SaveContract`, `EndReminders`.
* Users update, remove and generate.  `update` and `remove` save the fields that
  differ from what they read (`Merged`), without a version.
* `AddMonths` is `addMonthsDateOnly`: `Date.UTC(y, m + n, d)`, where a day the month
  does not have runs over into the next one.
* `Fail` is a call that throws, `Restart` a process that stops: `running` and
  the round are lost with it, the documents are not.

What the model shows of the code and a reader may not expect: the round works on the
contracts as it found them, and `generateVisit` does not ask again whether the visit
is due, so that a round and a user may open two visits, the second for the next due
date; `markReminded` marks the due date the contract has by then; the reminder job has
no flag against overlapping itself; and the visit of a month that lacks the day is made
in the month after (see Findings), from which the later ones are counted: `SlipsOnce`
bounds what comes of it.  Left out: the
content of contracts and visits, equipment, prices, who is notified, test data.

### CaseWork - a case, its todos, interventions and quotes

* `case` is the document of one case (status, todos, `interventionCount`,
  `deletedAt`); `works` and `quotes` are its interventions and quotes, in the order
  of their creation.
* `updateTodo` is `TodoRead`, with `autoAdvanceStatus` of what was read
  (`Advanced`), and `TodoSave`, which writes the todo by its position and the status
  if they differ from what was read (`Saved`); nothing bumps the version.
  `updateCase` is one update.  `deleteCase` is `DeleteCase`, `ClearWorks`,
  `VoidQuotes`.
* Creating an intervention is a read, an insert and `$inc` (`Counted`, whose filter
  wants a live case), deleting one a read, an update by `_id` and `$inc`; starting,
  completing and signing are each a read with its check and an update by `_id`.
* `createQuote` is `GenerateNumber` (the last number as text plus one, deleted quotes
  included) and `InsertQuote`, or `RetryQuote` and, at the last attempt, `RefuseQuote`
  when the unique index refuses.  `Wide` stands for 9999, the last number of four
  digits, after which the order of texts is no longer that of numbers.
  `sendQuote` is `SendRead`, `Mail`, `LogRead`, `LogSave`; `deleteQuote` a read and
  an update.
* `Stop` ends a request at any await.  The other bookkeeping (`byHand`, `crossed`,
  `contested`, `late`, `doubled`, `lost`, `overlapped`) remembers which overlap has
  happened, so that each property says exactly which one the code does not survive.

Left out: templates, comments, the history of cases, assignment and schedule of
interventions, types, the lines of quotes, other cases (numbers of quotes are those
of the organization, of which the quotes of this case stand for all), and the import
of data.

## 3. Runs

| run | instance | what it shows |
|---|---|---|
| `invoices_concurrent` | 2 requests, 2 documents, 1 year, 2 sends, 1 stop | However requests overlap or stop: `NumbersUnique`, `NumberNeverFreed`, `CreditNotesOfNumbered`, `SendLogAppendOnly`. |
| `invoices_serial` | 1 request, 3 documents, 2 years, 2 sends | Without overlap or stop: the service implements `FiscalLedger` (`ImplementsLedger`), an issued document only moves from finalized to paid (`IssuedFrozen`), each attempt to send is logged (`EveryAttemptLogged`). |
| `invoices_deleted` | 2 requests, 2 documents | Expected violation: see Findings. |
| `subscriptions_serial` | 1 handler, 2 subscriptions, 6 events, 4 days, 1 seat, 1 staff extension | `MirrorsStripe`, `TrialExtensionsCapped`, and `PaidNotDemoted` (no trial granted by the organization or the staff replaces a paid status, a reported one only of another subscription or while the event of the paid status is to come), through a first subscription, its end, trials and a second one. |
| `subscriptions_concurrent` | 2 handlers, 2 subscriptions, 3 events, 1 failure, with fairness | `StatusWasReported`; `EveryEventRecorded`, a liveness property. |
| `stock_movements` | 2 requests, 2 locations, quantities 0..1, 5 calls, 1 stop | Always: `TotalAccounted`, and that a default location remains.  Without overlap: the rest of `LocationsSane`, `TransfersConserve`, `ReturnsCapped`. |
| `case_billing_serial` | 1 request, 3 invoices, a quote of 2 units, 1 stop | Without overlap, though one request may stop anywhere: `SituationsDistinct`, `QuoteNotExceeded`, `BillingCaughtUp`; and if none stops `WorkOffered`. |
| `memberships` | 2 requests, 3 users, one of them a member elsewhere, 2 seats, 5 calls, 1 stop | Without overlap, wherever requests stop: `AdministratorRemains`.  If none stops either: `FollowsRoster` (the service implements `Roster`), `InvitationsAnswerable`, `SuspendedHasNoSession`. |
| `memberships_last_admin` | 2 requests, 2 users, 4 calls | Expected violation: see Findings. |
| `visits` | 1 user request, the worker, the notifier, 1 contract, 5 days in months of 3, 2 and 3 days, 1 fault | Always: `VisitsAccounted`, `OneVisitPerDue`, `SlipsOnce`.  Without overlap: `RemindedTruly`.  With fairness: `DueVisitsGenerated`, a liveness property. |
| `visits_stuck` | the worker and the notifier, 1 fault | Expected violation: see Findings. |
| `casework` | 2 requests, 2 todos, 5 calls, 1 stop, 2 numbers of "four digits", 2 attempts | However requests overlap or stop: `ContentAccounted`, `TodosAdvance`, `CustomerWordKept`, `NumbersNeverReused`, each with the overlap it excepts. |

**Bounds.**  Two requests are enough for every race the code has: each is one
request that writes between the read and the write of another, and requests
share no state but the documents.  Two invoices are an original and a credit
note, or two documents that compete for a number; the serial run takes three
documents and two years because a ledger needs a second page and a second book to
be wrong.  Two subscriptions are an ended one and its successor; six events let
the first be created, fail, end and be followed by the second.  Two locations
are the source and the destination, the default and another; quantity 1 against
0 is the boundary of every comparison; five calls create two locations, an article
with stock, and leave two movements or transfers to race.  A quote of 2 units can be
invoiced in part, by two situations or at once; three invoices are a draft that is
cancelled between two others, or an invoice, its credit note and what takes its
place.  Two seats are full with the founder and one invitation; three users are the
founder, one who has only this organization and one who has another; five calls
invite, accept, log in, suspend and restore, or suspend an administrator invited
before.  Months of 3, 2 and 3 days have a last day that the next month lacks, and
five days bring a monthly contract due three times, so that its fourth due date passes a
second short month; the one call of a user changes,
removes or plans under the jobs.  On a case, five calls create an intervention or a
quote, work on it twice and delete it or its case; `Wide` = 2 is crossed by the third
quote, and two attempts are a collision that is retried and one that is refused.
Requests and identifiers are symmetric in the runs
without liveness.  Deadlock is not checked:
counters are bounded, and a service without calls is idle.

**Fairness.**  In `subscriptions_concurrent`: strong fairness of the delivery of
each event, since Stripe delivers an event again until it is answered with success, and
a webhook that is being handled at that moment only delays it; weak fairness of
each handler's next step: a running request reaches its next await, or fails.
In `visits` and `visits_stuck`: weak fairness of the worker's steps, since its cron
fires every hour and the event loop gets to what is ready.  Nothing is assumed of
users, of Stripe's changes, of the notifier or of time.

## 4. Proofs

What a run shows of its instance, TLAPS shows here for every value of the constants.

### `InvoicesProofs`

For any set of requests and documents, any number of years, sends and stops, from
`InvoicesAssumption` only (the years, sends and stops are natural numbers, the two
"undefined" values are not values), TLAPS checks:

* `TypeCorrect`: `Spec => []TypeOK`;
* `InvoicesInvariant`: `Spec => []InvoicesInv`;
* `NumbersAreUnique`, `CreditNotesReferToNumbered`: the safety properties of the
  concurrent run; `LogIsTrue`: an entry marked as sent is an e-mail that left, for a
  numbered invoice;
* `NumbersAreKept`, `LogIsAppendOnly`: its action properties.

*Why an invariant is needed.*  None of the properties is inductive: a request that
is about to save writes what it knows, so the invariant has to say what requests
know.  `InvoicesInv` adds to the properties

* `DocumentsInv`: issued documents are numbered, drafts are not, and each number on
  a document was handed out (its counter has reached it);
* `RequestInv(r)`: at each await, which facts about its document still hold - that
  it exists, its series, that it carries a number, that the held number was handed
  out.  The *status* it has read is not among them: it may be stale;
* `SendInv(r)`: the log a request has read is the current one if the version is.

*How the proof goes.*  `Kept` collects the facts no step ever takes back (documents
stay in existence and in their series, numbered documents stay numbered, versions
grow, logs only grow, mails stay sent, handed-out numbers stay handed out);
`KeptStep` proves them action by action.  `UntouchedInv` then shows once that every
*other* request keeps its `RequestInv` and `SendInv` over any step that keeps
`Kept`, so that only the acting request remains for each action.  `AllocateFresh`
and `WhoWritesNumbers` give uniqueness: a number is born fresh, and moves from one
holder to one document.

Four theorems are about requests that do not overlap (`OneRequest`), the hypothesis under
which `invoices_serial` checks the properties:

* `IssuedStaysFrozen`, `IssuedStaysListed`: even if requests stop half way, `IssuedFrozen`
  holds and no issued document is deleted (which `invoices_deleted` refutes for two
  requests);
* `AttemptsAreLogged`, `LedgerIsImplemented`: if none stops either (`NoneStops`),
  `EveryAttemptLogged` holds and the service implements `FiscalLedger`.

`SerialInv` is what they add to `InvoicesInv`: what a request has read is still true
(`FrozenInv`), every send tried is logged or about to be, over the log that was read
(`LogInv`), and every number a counter has given out is on a document, or it is the last
one and held by the request about to save it (`LedgerInv`).  For the refinement,
`NumberMoves` splits the steps into those that hand a number out and those that save
one; only the latter move `Pages`, and by `LedgerInv` all the pages before are taken, so
that they enter one document on the next page.

### `SubscriptionsProofs`

For any handlers, subscriptions, days, seats, events and failures, from
`SubscriptionsAssumption` only:

* `TypeCorrect`: `Spec => []TypeOK`;
* `SubscriptionsInvariant`: `Spec => []SubscriptionsInv`;
* `StatusIsReported`: `Spec => []StatusWasReported`;
* `ExtensionsAreCapped`, `PaidIsNotDemoted`, `StripeIsMirrored`: under `Serial`,
  `TrialExtensionsCapped`, `PaidNotDemoted` and `MirrorsStripe`.

*Why an invariant is needed.*  `persistSubscription` writes a snapshot a handler took
some awaits earlier, so that nothing about the document holds unless something
holds of every snapshot in flight.  `SubscriptionsInv` says: Stripe has reported
each subscription it has as it is (`StripeInv`); a snapshot about to be written was
reported, though it may be old, a handler of a deletion holds a canceled one, and
one that is going to record an event has an event (`HandlerInv`).  Even `TypeOK`
needs it: `Fetch` and `AddonsUpdate` ask Stripe for the subscription a handler
holds, which must exist.  `SerialInv` adds that, when handlers do not overlap, at most
one runs and what a trial operation has checked still holds when it writes.  `MirrorInv`
is for the mirror: events are processed in their order (`InTurn`), the last event of a
subscription carries what Stripe has of it (`Last`), and the document is right once that
event has written it (`LastWritten`); until then the event is still to come, or its
handler holds what it is going to write.  `TrialInv` is for trials: Stripe reports those
of a subscription before anything else of it (`OnceInv`), and a handler about to write
one has it from the event it handles, a user's change of seats having none for a
subscription that pays (`Holds`).  So the document, when a reported trial replaces a paid
status of the same subscription, was ahead of the events.

*How the proof goes.*  `StripeReports` and `AddonsReports` reduce every step that
changes Stripe to one form, `Changed` (one subscription changes and an event says
so), and `ChangedFacts` shows once what follows of it.  Events are never lost
(`Grown`), so what was reported stays reported, and every handler but the acting
one keeps what it holds (`HandlerKept`).  `Writers` lists the five steps that write
the document and `Written` what they write; `StatusStep` and `SerialStep` look at
those only.  For `MirrorStep`, a step of Stripe leaves an event to come (`StillToCome`,
`BehindStripe`), and a write of the only handler is the one its event was for
(`WrittenView`).

### `MembershipsProofs`

For any users, requests, seats, calls and stops, from `MembershipsAssumption` only:

* `TypeCorrect`: `Spec => []TypeOK`;
* `AdministratorStays`: `Spec => []AdministratorRemains`, wherever requests stop;
* `InvitationsStayAnswerable`, `SuspendedIsLoggedOut`: `InvitationsAnswerable` and
  `SuspendedHasNoSession`;
* `RosterIsImplemented`: `Spec => FollowsRoster`, the service implements `Roster`.

*Why an invariant is needed.*  A suspension writes `disabled` some awaits after it has
counted the other administrators, a cancellation deletes a membership it has found
invited, an enrolment upserts over whatever membership there is.  `SoloInv` says that,
without overlap, at most one request is in flight and what it has read still holds
when it writes (`Knows`), that members have accounts, and that there is an active
administrator.

A request that stops half way leaves an account without a membership, a session of a
suspended user, or a pending invitation of somebody who is not invited.  `CalmInv` says
that as long as none stops, whatever is half way is the business of the request in flight
(`Completes`, `Revokes`, `Settles`), that the invitation it works on is pending and that a
user whose membership it withdraws has no other one pending (`Holds`, `OnePending`).  In
particular nobody is found without a membership, so that `Revive`, which lets a user in
without an invitation, never runs: this is what the refinement needs.

*How the proof goes.*  For the types `EnterType` and `GoOnType` reduce each step to what
it writes, `CallType` and `ContinueType` look at that.  `SoloEnter` and `SoloGoOn` do
the same for `SoloInv`: since the acting request is the only one (`OnlyOne`), only its
own `Knows` has to be shown again, and most steps leave accounts and memberships alone
(`SoloSteady`).  `CalmMine`, `CalmGoOn` and `CalmSteady` do the same for `CalmInv`.  For the
refinement, five steps write a membership (`RosterStep`), and as members have accounts the
seats they counted are those of the Roster (`SeatsTaken`).

### `DataLemmas`

What the others need about data: the sum of a function over a finite set
(`SumFunctionOnSet`, a fold) has its equation and its type (`SumEquation`, `SumType`),
one element may be taken out (`SumWithout`) or changed (`SumChanged`), and a finite set of
naturals has a greatest element.  The library's induction theorems take an operator, which
no prover here can instantiate, and the fold is defined by a `CHOOSE` of a recursive
function.  So the induction is by least counterexample: `NatLeast` follows from the
library's `WFMin`, `IterationExists` builds the recursive function on the sets of at most n
elements for the least n that lacks one, `IterationsAgree` shows it unique.

### `StockProofs`

From `StockAssumption` only (requests are finitely many, for their changes are summed):
`TypeCorrect`, `StockAccounted` (`TotalAccounted`), `EntriesStaySane` (`LocationsSane`),
`TransfersMove` (`TransfersConserve`), `ReturnsStayCapped` (`ReturnsCapped`): every property
of `stock_movements`.

*The invariant.*  `Accounts` is inductive nearly as it stands: each step moves as much
between the total, the journal, what is pending and what was lost (`Balanced`, from
`SumChanged`).  `DefaultStays` says that whoever deletes a location has read one that is
not the default, and that none becomes it.  The rest holds without overlap (`SoloInv`): one
entry for each location, none negative, none for a deleted location, and what the only
request has read still holds when it writes (`Knows`) - in particular that the stock in
the entries is what its transfer read, less what it has taken.

*How the proof goes.*  The sums of entries are over indices, so `AddSane`, `PutSane`,
`PushSane` and `KeepSane` say what the four updates of the array do to the entries of a
location and to their sum, and the steps (`MoveSane`, `TakeSane`, `GiveSane`) cite them.

### `CaseWorkProofs`

From `CaseWorkAssumption` only: `CaseTypeCorrect`, `CaseContentAccounted`, `CaseTodosAdvance`,
`CaseCustomerWordKept`, `CaseNumbersNeverReused`: every property of `casework`.

*The invariant.*  `CountInv` adds to the count of interventions what requests in flight owe
it; `ClearedInv` says up to where a deletion has come; `AdvanceInv` that the status about
to be saved has followed the todos; `AnswerInv` that a request about to mark a quote as
sent has read one without an answer, unless the answer came since.  `SoloInv` is for
signatures and numbers, which hold without overlap.

*How the proof goes.*  `CaseMoves`, `WorkMoves` and `QuoteMoves` say what a step may do to
the three documents, whichever request takes it, and the four parts of the invariant look
at those.  `NextNumberNew` is the order of texts: up to `Wide` the last number as text is
the greatest, so that one more is new.

### `MaintenanceVisitsProofs`

From `MaintenanceAssumption` only: `MaintenanceTypeCorrect`, `MaintenanceVisitsAccounted`,
`MaintenanceOneVisitPerDue`, `MaintenanceSlipsOnce`, `MaintenanceRemindedTruly`: every
property of `visits` but the liveness one; `MaintenanceInvariant` is the invariant.

*The calendar.*  `MonthDays` is any sequence of positive lengths.  One assumption binds
them: no month is longer than two others together, which holds of every calendar
(31 <= 28 + 28) and without which a day that runs over from a short month could skip the
next one, and a visit a month.  `FirstDayEquation` and `FirstDayGrows` are about the
recursive function of the first days, by least counterexample; `MonthUnique` and
`AddMonthsBehind` say in which month a date shifted by n months falls: the one aimed at,
or the next one, on a day (`Short`) that every month has.  From such a day no later date
slips, so that a date that is a month behind never falls behind again (`BehindOnce`).

*The invariant.*  `VisitInv`: a request that has read the current version has read the
current history, so the version check makes the record of a visit extend what there is.
`DueInv`: on a contract that no user moved each due date is before the next and, seen
from any of those before it, in the month of the recurrence or, once and for all, in the
one after (`Behind`), and only the record of a visit writes it.  `RemindInv`, without
overlap: what the run of the notifier has read is what there is (`Follows`), and a due
date that was notified is marked or being marked (`Told`).

*How the proof goes.*  `DocsPath` reduces every step to whether it writes a contract, which,
and whether it records a visit; `CasesPath` does it for the cases, `ProcPath` for what
processes hold.  `VersionStep`, `OrderStep` and `DueReadStep` then look at two cases each.

### `CaseBillingProofs`

From `CaseBillingAssumption` only, for any quote, amounts, number of invoices and stops:
`CaseBillingTypeCorrect` (`Spec => []TypeOK`), whatever requests overlap; and for a request
at a time (`OneRequest`, the hypothesis under which `case_billing_serial` checks them)
`SituationsAreDistinct`, `QuoteIsNotExceeded`, `BillingCatchesUp`, `WorkIsOffered`: every
property of that run.

*Why an invariant is needed.*  An invoice is inserted two awaits after the others were
listed, the status of the case is written two awaits after it was read, and that of the
intervention after all of these.  `TypeInv` adds to the types that a request about to save
an invoice has one.  `SerialInv` adds `LedgerInv`, what is invoiced: besides the two
properties of it, that only issued documents take away from the quote, without which a
cancellation could raise what is invoiced; `KnowsInv`, what the request has read and still
holds (`CreatesOK`, `SavesOK`, `DerivesOK`, `FollowsOK`); `CaughtInv` and `WorkInv`: the case
and the intervention are behind the invoices only by what the request in flight has yet to
derive (`Deriving`) or to write (`Owes`).  TLC checks `SerialInv` on the instance of the run.

*How the proof goes.*  `EnterType` and `GoOnType` reduce the types to what a step writes.
The invoices stay, gain one or change in one (`SameInvoices`, `Inserted`, `Changed`), with
what becomes of the active and quoted ones and of their sum (from `DataLemmas`); five
actions write them (`Writers`), and `Creates`, `Credits`, `Saves` and `Cancels` say what.
`LedgerStep` looks at these only; `Arrives` leaves of `KnowsStep` what the acting request
knows at its next await; `CaughtStep` and `WorkStep` set aside the steps after which it
still has to derive, or to follow its invoice, and look at the others.

**Only model-checked:** the liveness properties `EveryEventRecorded` and
`DueVisitsGenerated` and the fairness behind them (ENABLED is out of the prover's reach).
Every other property of a passing run is a theorem.  What the three expected violations
show is one behaviour each, which is TLC's.

## 5. Findings

Each is an expected violation of one property that a document of the repository
states.

* `IssuedNeverDeleted` (`openspec/specs/client-invoicing/spec.md:77`, "MUST NOT be
  soft-deleted"): a cancellation that read the draft before its finalization deletes
  the issued invoice.
* `AdministratorAlways` (`users.service.ts:533`, "Impossible de désactiver le dernier
  administrateur de l'organisation"): two administrators disabled at the same time
  each count the other, and none is left.
* `DueVisitsAlways` (`docs/product/journeys/10-contrats-maintenance.md:19`, "à
  l’échéance, Planwise crée automatiquement un dossier et une intervention"): when
  recording the start of a round throws (`maintenance-contract-visits.scheduler.ts:22`,
  before the `try`), `running` stays true and no later round does anything until the
  process restarts.

Smaller disagreements met while modelling, which no run shows: two finalizations of one
draft both allocate, and the number of the first is then on no document, against
"gap-free" (`client-invoicing/spec.md:77`); of two overlapping sends of an invoice one is
refused by the version check after its e-mail left, so it is not logged
(`invoice-email/spec.md:49`); after an ended subscription the staff's first trial
extension makes the document pass for an active subscription
(`subscriptions.service.ts:322-323`); two situations prepared from one list get one
number (`client-invoicing/spec.md:63`); `addMonthsDateOnly`
(`maintenance-contracts.service.ts:49`, "en gérant les fins de mois") lets a day that the
month lacks run over, so that the visit a month after 31 January is due in March and
February has none; a cancelled draft sets an intervention back to
the newest other invoice, a draft, though an older one is finalized
(`client-invoicing/spec.md:25`).

Besides these, some rules hold only without overlap, which is why their runs say so:
two overlapping `extendTrial` exceed the cap, overlapping transfers may leave a
negative or a double entry, two overlapping returns exceed what was consumed, two
overlapping invitations exceed the seats, two signatures replace one another.  The first
contradicts `docs/product/journeys/15-abonnement.md:13` ("limitées (max **2**)"), and the
invitations its line 11 ("**2 utilisateurs** inclus").

## 6. Plan

What is left to model is of little state or out of reach: the templates of cases, the
quota of file storage, the purge of demonstration data over the modelled collections,
changes of permissions and of a pending invitation's e-mail in `Memberships`, a second
contract for the visits.

Every safety property that a run checks is a theorem.  What is left to prove is how far the
theorems about one request at a time hold of requests that overlap:

1. in `CaseBilling`, whether situations stay distinct and the quote is kept while at most
   one request is between its list and its insertion, whatever else runs: first with TLC
   on two requests, then as theorems;
2. in `Memberships`, the same of the seats and of the last administrator.

## 7. Not modelled

The components marked "no" above: queries, forms over plain records, external services,
layout and the user interface.  Within the modelled ones, what each module leaves out
is said at the end of its section.
