# Verification of FIELDed

TLA+ models of the FIELDed backend (`src/backend/app`), TLC runs on small
instances of them, and TLAPS proofs for every size. The models are written from
the Python source; where a doc string, a document or a comment says something
else, the code is what is modelled and the difference is listed under
*Divergences*.

## Contents

| Part | Model | Instance for TLC | Proofs |
|---|---|---|---|
| outbox, workers, delivery | `Outbox`, abstract: `Delivery` | `MCOutbox` | `OutboxProofs` |
| payments, refunds, webhooks | `Payments` | `MCPayments` (two configurations) | `PaymentsProofs` |
| enquiry to invoice | `Lifecycle`, abstract: `Fulfilment` | `MCLifecycle` | `LifecycleProofs` |
| booking automation | `BookingAutomation` | `MCBookingAutomation` | `BusinessRecordsProofs` |
| one voice call | `VoiceCalls` | `MCVoiceCalls` | `VoiceCallsProofs` |
| the dialogue of a call | `CallDialogue` | `MCContacts` | `CallDialogueProofs` |
| voice campaigns | `Campaigns` | `MCCampaigns` | `OutreachProofs` |
| consent, limits, receipts | `Communications` | `MCContacts` | `OutreachProofs` |
| Business Brain versions | `BrainVersions` | `MCBrainVersions` | `BrainProofs` |
| rules, prices, fees | `Quoting` over `BrainRules`, `Pricing`, `Fees`, `CommercialPolicy` | `MCQuoting` | `BrainProofs` |
| records of a business | `BusinessRecords` over `Reviews`, `LedgerEntries`, `ConnectAccount`, `Membership`, `Listing`, `BrainConversation` | `MCBusinessRecords` | `BusinessRecordsProofs` |

`PROJECT.json` lists components, runs, mutants, the map from definitions to
source lines, hazards and theorems. To check: `tlc -config MCOutbox.cfg
MCOutbox` and so on for each `.cfg`; `tlapm OutboxProofs.tla` and so on for
each module of proofs.

## The system

FIELDed takes a customer's enquiry to a quote, a booking, the execution of the
service, an invoice and its payment. It is one FastAPI process (or several) over
one PostgreSQL database, with one background task per process
(`main.py:59 _outbox_worker_loop`) or a command-line worker
(`workers/outbox.py`), and these external services: Stripe, Twilio, Vonage,
Resend, Google Calendar, a language model.

Everything hard in it follows from four facts.

1. **A request is one database transaction.** `get_db_session`
   (`database.py:118`) opens a session, runs the whole endpoint, and commits, or
   rolls back if it raised. The isolation is PostgreSQL's READ COMMITTED, rows
   carry no version, and state is read with plain SELECTs (row locks only in
   `activate_version` and in the outbox claim). Checks made on what a session
   loaded may be stale when its UPDATE, which is by id, reaches the row.
2. **Providers are called inside transactions.** Money moves, an e-mail leaves
   and a phone rings before the record of it commits, or never commits.
3. **Domain changes are announced through `outbox_events`,** written in the
   same transaction under a unique key of event type, aggregate type and
   aggregate id. Workers claim the rows, hand them to the communication
   orchestrator and to booking automation, and mark them.
4. **Webhooks report what the provider did,** late, repeatedly and in any
   order, and race with the requests that asked for it.

### Components

| Component | State | Hard behaviour | What makes it correct | Model |
|---|---|---|---|---|
| Outbox and workers | `outbox_events`: status, lease, attempts, `available_at` | lapsed leases, crash mid-pass, a rollback that loses the loaded rows | one call per record, every event settled | `Outbox` |
| Communication orchestration | `communications`, unique key | record rolled back after the call | no call after a committed record | `Outbox` |
| Communication policy, consent, receipts | channels, purposes, preferences, receipts | counts of committed rows, contradictory preferences, late receipts | caps, opt-outs, earned statuses | `Communications` |
| Payments, Stripe | `payments`, `stripe_events`, invoice status | provider before commit, events in any order | credit is captured, refunds backed, paid is covered | `Payments` |
| Enquiry, quote, booking, execution, invoice | five status rows and cascades | concurrent transitions, slot lock by hour | promises of `Fulfilment`, capacity of the hour | `Lifecycle` |
| Booking automation, calendar | status rows, sync record | retries, calls that time out, two workers | tried before given up, no stray calendar event | `BookingAutomation` |
| Voice calls | call, attempts, session | phone before commit, callbacks in any order | one phone, no orphan session, callbacks applied | `VoiceCalls` |
| Voice agent, escalation desk | session, escalations | a turn waits for the model | budget, collected data, one hand-over | `CallDialogue` |
| Voice campaigns | campaign, recipients | overlapping runs, stop while dialling | one ring each, a stop is heard | `Campaigns` |
| Business Brain | versions, rules, pointer, proposals | overtaken reviews, activations, decisions | what governs was reviewed | `BrainVersions` |
| Evaluator, pricing | none (pure) | conflicts, missing fields, order | rules only restrict, order is irrelevant | `BrainRules`, `Pricing` |
| Commercial policies, fee | policies, validity | concurrent activation, rounding | rivals could not see each other, amounts add up | `CommercialPolicy`, `Fees` |
| Reviews | rating of the profile | average before commit | rating earned | `Reviews` |
| Service ledger | entries of an invoice | copies of a status that moves | entries follow the invoice | `LedgerEntries` |
| Stripe Connect | account columns | events carry no order | charges were enabled | `ConnectAccount` |
| Membership, status of a business | members, invitations, two statuses | two owners remove each other | an owner remains | `Membership`, `Listing` |
| Brain conversations | conversations, messages | two first visits | one active conversation | `BrainConversation` |
| Identity, rate limits, catalogue, discovery, adapters, e-mail, frontend | rows or none | one request at a time | — | not modelled |

How they meet: requests change a domain row and insert its outbox event in one
transaction; a worker turns the event into a communication and, for bookings,
into calendar, execution and payment-preparation records; payments change the
invoice and its ledger entries in the transaction that changes the payment; Stripe
and telephone callbacks enter as requests of their own. The models are composed
where components share state: the invoice and its ledger entry are in `Payments`,
the mid-event commit of automation is an action of `Outbox`, a quote's price and
the policy in force meet in `Quoting`. Where two components only share a foreign
key they are models of their own.

## How a request is modelled

Most models follow one pattern, because most of the code does: a request reads
its row, decides on what it read, and writes by id.

- A request that nobody overtakes is *one step*: read, guard, write and every
  cascade up to the commit.
- A request that is overtaken keeps its read (`loaded`, `held`, `reading`,
  `request`, `edit`, `desk`, `form`, ...) while others take any number of
  steps, and then decides on the old read and writes to the row as it is now.
- A unique key, a row lock or an advisory lock is a *guard*: under PostgreSQL the
  second writer waits, and what it does next is what the code does with the
  outcome.
- What a provider was asked to do has happened, whatever becomes of the
  transaction; a crash or rollback undoes only the database.
- A property that the code keeps only for requests that do not overlap says so
  with a history variable (`raced`, `overlapped`, `stale`, `drifted`, `crossed`,
  `blind`, ...) that is set by the very step that overtakes. Such a
  variable is no excuse for more: each is set on one row by one kind of step, and
  the property is still about every other interleaving.

## Outbox

| Model | Code |
|---|---|
| `status`, `attempt_count` | the columns of `OutboxEvent` |
| `held` | age of `processing_started_at`, 0 when it is null |
| `due` | `available_at` minus now |
| `comm` | the committed `Communication` row of the event: none, SENT or FAILED |
| `pc`, `todo`, `cur`, `tries`, `out` | a worker: its place in the pass, the unbegun rest of its batch, the event in hand, the attempt counts it loaded, its uncommitted `Communication` row |
| `sends`, `lost` | history: provider calls made, and those whose record was rolled back |
| `Emit` | `OutboxRepository.create` in a domain transaction |
| `Claim` | `claim_pending_events` and the commit after it: reclaim of lapsed rows, `ORDER BY available_at LIMIT`, the attempt count |
| `Begin`, `NothingToSend`, `Insert`, `InsertCollides`, `Send` | `OrchestrationService.process_event`: the look-up of the key, a denial or an event nothing is sent for, the insert, its violation, the provider call |
| `AutomationCommit` | the commit made for booking automation, before the event is marked |
| `Finish`, `RecordError` | `mark_processed`; the `except` branch with `mark_retryable` or `mark_failed` |
| `HandlerRaises`, `Crash` | an error with a transaction open; the process stops |
| `Return` | the pass ends and the loop polls again |

Decisions worth knowing:

- *Time is relative.* Clocks only matter through two differences, both
  saturated (`held` above the lease, `due` below `-MaxOverdue`), so `Tick` is an
  action like any other and a lease can lapse at every point of a pass.
- *A unique key is a lock.* Under PostgreSQL a second insert of a key waits for
  the transaction that inserted it; `Insert` needs `KeyFree`, and when the
  first one committed the second collides.
- *Two kinds of error.* An exception before the event's first statement finds
  no transaction to roll back, so the row is still loaded and its error is
  written (`RecordError`). An exception with a transaction open makes
  `session.rollback()` expire every loaded row, and the next line of the
  `except` branch reads `event.attempt_count`: a lazy load outside the
  greenlet, which raises. The pass ends with nothing written, and the rest of
  its batch waits for the lease (`HandlerRaises`). An event of `Poison` ends this
  way whenever it is taken up, without a bound on how often; `MaxFaults` bounds
  such errors of other events, and crashes. `MaxSends` bounds the provider calls
  counted for one event, which only an event of `Poison` reaches.
- *Attempts saturate* at `MaxAttempts + 1`; the code only compares them with
  `max_attempts`.
- *The promise.* `Delivery` is the abstract specification: one attempt at a
  time for an announced event, each calling the provider at most once and ending with
  a record or without one, none after a record.
  `DeliversAsPromised` says that Outbox implements it. It says nothing of
  PROCESSED: most events have no `communication_targets`, the e-mail service
  swallows its errors and policy may deny, so an event is marked PROCESSED whether or
  not anything was recorded (`NothingToSend`).
- What the policy decides is a choice of that action, and in-app notifications are left
  out. An event leads to one communication or to none; several targets of one event
  repeat the same steps with keys of their own.
- *What is settled.* `EventuallySettled` is about the events whose handler can succeed,
  with one in the system whose handler cannot. It needs batches of one: in a larger batch
  the raising event may be put first again each time, and those behind it never begun (see
  *Divergences*).

## Payments

| Model | Code |
|---|---|
| `row`, `invoice`, `ledger` | committed `Payment` (status, refunded_amount, whether provider_reference is set), `Invoice.payment_status`, the ledger entry's status |
| `amount` | `Payment.amount`, and the amount of the provider's intent made from it |
| `emitted` | the payment rows of `outbox_events`, a set because their key is unique |
| `events` | rows of `stripe_events` that were really added to a session |
| `txn` | a request: its step, what it saw and what it flushed |
| `intent`, `moved`, `dispute`, `mail` | the provider: its intent, the money it refunded, its dispute, the events it posted |
| `CreatePayment`, `ProcessPayment` | `create_payment` and `process_payment`, which the endpoint calls in one transaction |
| `StartRefund`, `AskRefund`, `RecordRefund` | `refund_payment` up to the provider call, the call, and what follows it |
| `Receive`, `ReceiveUnknown`, `On...` | `reconcile` and its handlers |
| `Commit`, `Abort` | the end of `get_db_session` |
| `SetByHand` | `InvoiceService.update_payment_status` |
| `Confirm`, `Decline`, `CancelIntent`, `RefundAtProvider`, `UpdateRefund`, `OpenDispute`, `CloseDispute` | what Stripe does of its own accord (external) |

Decisions worth knowing:

- *A transaction is load, flush, commit.* At the flush it writes its payment by
  id and so takes the row's lock until it ends; the invoice totals are the sums
  its statement sees, other transactions' uncommitted rows excluded.
- *Mail never leaves.* `mail` is the set of events posted; any of them may be
  delivered at any time and any number of times, which is delay, reordering and
  duplication at once. A handled event adds no `stripe_events` row to the
  session, so its duplicate is handled again, as in the code.
- *Money moves outside transactions.* `ProcessPayment` and `AskRefund` change
  the provider at once; `Abort`, the crash or rollback of a transaction,
  undoes only the database.
- A refund endpoint asks for an amount of `Amounts`; `charge.refunded` reports
  the cumulative sum, `charge.refund.updated` is read by the code as 0.
- Two requests with the same idempotency key are serialised by the key.
- `cancel_payment`, `expire_payment` and `handle_webhook` have no caller in the
  application and are left out; so are ownership checks, currencies and the
  handlers that only store evidence.

## Lifecycle and Fulfilment

`enquiry`, `quote`, `booking`, `execution` and `invoice` are the rows of a job,
`slot` is `Booking.requested_at` in UTC and `offset` the UTC offset its request wrote it
with, `emitted` the unique outbox keys, `loaded` the
reads that have not been acted on. There is one action per endpoint:
`TransitionMyEnquiry` and `TransitionBusinessEnquiry` (each party has its table),
`CreateQuoteForEnquiry`, `TransitionBusinessBooking`,
`CompleteServiceExecution` with its cascade to booking, enquiry, invoice and
ledger, the bulk operations, and so on. `CreateABooking` is in two steps: under
the advisory lock of its hour (`reserving`) and the commit that frees it. A
key that is taken rolls the request back, so it is a guard. The lock key is of the hour
as written, with its offset, and the count looks for the written hour among hours of
UTC; `CreationKeepsHour` is therefore about requests that write UTC, as the frontend
does (`toISOString()`), in the presence of others that do not; it does not extend to them
(see *Divergences*).

`Fulfilment` is the abstract specification: quotes are accepted, bookings
confirmed, work is started and invoiced, an enquiry says what became of it, and
none but the last is taken back. `KeepsPromise` says that Lifecycle implements
it under a refinement mapping (`INSTANCE Fulfilment WITH ...`). Working hours,
blackout dates and lead times depend on configuration alone and are left out;
so are messages, attachments and lists.

## BookingAutomation

`row[op]` is the status row of an operation, `sync` the calendar record, `live` the events that
really are on the calendar (numbered as they are made), `worker` what a worker loaded. A worker
`TakesUp` an event or a retry, `Works` through read, calendar call and commit, and may `Crash`
in between; a call may time out after the calendar has done it. Retries run the creating variant
of an operation, as in the code. `tries` and `lost` are history. `NoStrayEvent` excuses an event
only when its own creation was lost; what such a loss leads to is the run `automation_retry`.
Whether the calendar refuses a second event with the booking's iCalUID (`UidUnique`) the code
does not say: the properties that hold are checked without it, and the violation with it.

## VoiceCalls and CallDialogue

`VoiceCalls` is one call from request to end: `StartDial`, `PlaceCall` (the
phone rings before the commit), the outcomes of a dial, the callbacks of every leg
in any order (`SyncEvent`), the answering webhook, the agent's turns,
cancellation, escalation. `taken` are callbacks that were acknowledged; the
provider repeats the others. `CallDialogue` opens up the conversation:
`GatherCallback`, `InputCallback` and `TypedTurn` start a turn, the language
model is external and answers anything, `FinishTurn` validates its proposal
against the section that governs and writes; `FinishRecord`, `FinishEscalate`,
`FinishEnding` and `TransitionEscalation` are the other writers of the rows.
`ActivateVersion` and `UpsertAgentConfig` change what governs during the call.

## Campaigns

A run (`Execute`, `Step`) is one transaction over a list of recipients it read
once; it looks at the campaign before each, writes the recipient's row (and so
holds its lock until it commits), dials, and commits at the end. `Crash` and an
exception forget the rows, not the phones (`rung`, `lost`). The calling window
and the policy are a free choice per recipient. One day of limits is modelled.

## Communications

`txn[w]` is a worker whose transaction has begun (`BeginTxn`, whose day the row bears, as
`created_at` is the transaction's `now()`), then inserted a row under the unique key and decided
on the day it is by then (channel, purpose, preference by scope, hours, daily count of the rows it
can see), sent and has not committed; `late` marks a row decided on a later day than it
bears. `OptIn`, `OptOut`, `UpsertChannel` and
`UpsertPurpose` run at any time; `ReceiveWebhook` applies a receipt to the row
that carries its reference, finds none (`early`), or is of a type the handlers do not map
("other") and changes nothing.

## BrainVersions

`status`, `number` and `content` of the versions, the pointer `active`, the proposals, and
requests that loaded *all* of it, since the authorization dependency loads the brain first and a
second read inside the session does not refresh. `Serve` is any operation nobody overtakes;
`Begin`, `Commit` and `RollBack` are one that others overtake. Only activation locks, and only
the brain row; what it finds loaded as it wants it is not written (`Overtaken`). A deleted rule
stays in `content`, as its row stays in `version.rules`; `deleted` says which. `home`,
`reviewed`, `applied`, `stale` and `manual` are history.

## Quoting

`BrainRules.Decision` evaluates rules over a context as `evaluator.py` does
(inactive, missing fields, conflict before denial); `Pricing` computes base,
surcharges, discounts, floor, cap and rounding; `Fees` the platform's fee;
`CommercialPolicy` creation, edits, transitions with supersession, and
resolution over time. `Quoting` composes them: an enquiry is let in or not, a
quote gets price and fee, an invoice copies both. Amounts are in the smallest
unit of currency; percentages are in parts of `Whole`. Rule amounts are taken to be
non-negative, which the code does not validate.

## BusinessRecords

Six small components that share no variable; `Next` moves one of them. Each has
several writers of one copied or counted value: the rating (`Reviews`), the
payment status of ledger entries (`LedgerEntries`), the columns of the Stripe
account (`ConnectAccount`), the count of owners (`Membership`), the status of the business and
of its public page (`Listing`), the active conversation
(`BrainConversation`). What the code says of PENDING and DEACTIVATED it does not keep
(see *Divergences*); what it keeps is that a page stays suspended when a request that
found it shown saves other fields (`SuspensionHolds`). A proposal's `shape` tells whether
its `rule_data` is a dict: only then is it sanitised, which `OneConversation` says.

## Runs

| Run | Instance | Shows |
|---|---|---|
| `outbox` | two events, one of them a booking's; one whose handler never succeeds; two workers, batch 1, two attempts, lease 1, one fault | `OneSender`, `SendsAccounted`, `DeliversAsPromised`, `EventuallySettled` |
| `payments` | two payments of an invoice of 2, two requests, one void by hand, one lost transaction | `PaidIsCovered`, `CaptureSettles` |
| `payments_events` | one payment, two requests, amounts 1 and 2, everything the provider does, one lost transaction | `CreditIsCaptured`, `RefundIsBacked` |
| `lifecycle` | an enquiry, two quotes, two bookings of one of them, two slots, two offsets, an hour for one, one stale read | `KeepsPromise`, `CreationKeepsHour` |
| `automation` | two workers, two attempts, two calendar events, one crash or change of the connection | `TriedBeforeExhausted`, `NoStrayEvent`, `FailuresEnd` |
| `automation_retry` | the same without the crash, iCalUIDs unique | violation of `RetryFindsEvent` |
| `voice` | two attempts, two legs, one turn, one fault | `DialledOnce`, `NoOrphanSession`, `TakenIsApplied`, `CallEnds` |
| `campaigns` | two runs, two recipients, a cap of one or two, one crash | `RungOnce`, `StopsSoon`, `RunsEnd` |
| `brain` | two versions, two configuration changes, a good and a bad rule, one overtaken client, one proposal, and one stale write or one deleted rule | `PointerFollows`, `FrozenAfterReview`, `OnceAndForGood` |
| `contacts` | either three events (two marketing), two workers, days of two hours and one midnight, two edits, two sends, one receipt; or two requests on a call, two governing sections and none, three turns, one change, two escalations | `StatusIsEarned`, `OptOutHonoured`, `CapHolds`, `BudgetHolds`, `ToldIsKept`, `HandedOverOnce` |
| `quoting` | every list of up to three of eleven rules on two offers; or two policies under two overlapping requests | `OneGoverns`, `RulesOnlyRestrict`, `PriceReproducible`, `AgreedIsCharged` |
| `records` | three reviews, two adjustments, two accounts, three people, two invitations, two conversations, two requests each | `RatingIsEarned`, `LedgerFollows`, `ChargesWereEnabled`, `OwnerRemains`, `OneConversation`, `SuspensionHolds` |

Each property has a mutant in `PROJECT.json`: a plausible bug of the modelled
code under which TLC finds the property violated in the same run.

*Why the bounds are enough to be interesting.* Two of each actor are what it takes
for one to overtake the other, and a third only repeats the race; one fault is a
lost record, and it may fall on every step. A lease of one tick lapses at every
point of a pass. Amounts 1 and 2 against a total of 2 give partial, exact and
excess payments and refunds. A cap of one is reached by the first message and
overshot by the second worker's, and once more for each worker by transactions that
midnight finds open. Three reviews let two overlapping submissions miss
different ones. Three rules are what it takes for a conflict, a denial and a
rule set aside to meet in one list. What larger sizes might add is what the proofs
cover.

*Bounds that are constraints.* `lifecycle` explores review rounds and overtaken enquiry requests
only up to the first booking; `contacts` either messages or a call (they share no variable),
midnight only under the capped Brain without a night window, with one edit at most, no receipt
and one provider, and on a call at most one overlapped row; `brain` either a stale write or a
deleted rule; `quoting` prices by rules only while no policy exists, and moves policies only
without rules (a fee needs no rule and a rule no fee); `records` follows behaviours in which one
part moves, since they share no variable.

*Deadlock* is checked in `outbox`, where clocks never stop. Elsewhere the system
rightly stops when no client asks for anything.

### Fairness

- Outbox: `WF(Tick)`, clocks advance; `WF(Progress(w))`: `_outbox_worker_loop`
  is `while True`, catches every exception of a pass and polls again, and
  provider calls have timeouts, and a handler that cannot succeed raises in the end
  (`PoisonRaises`). No fairness on other errors or crashes; `RecordError`
  is bounded only by what the code bounds.
- Payments: `WF(Work(r))`, a running request is finished by the server;
  `SF(Delivered(m))`, Stripe redelivers what was not acknowledged, and a delivery may
  find the row locked again and again, hence strong. Clients, cards and `Abort` owe
  nothing.
- BookingAutomation: `WF(TakesUp(w))` and `WF(Works(w))`: the same loop runs
  the retries on each pass.
- VoiceCalls: `WF(EndDial)`, a dial returns or times out;
  `WF(HandleCallback)`, the provider repeats a callback that was answered with
  an error.
- Campaigns: `WF(Step(w))`, a run goes on unless it waits for a lock.

## What is proved

Every safety property of the runs is a theorem, for arbitrary sets of events,
workers, requests, rules, policies, people and so on, and arbitrary limits, from the
assumption each module states on its constants and no other. An invariant is
seldom inductive as it stands; this is what each proof adds, and why.

**OutboxProofs** — `TypeCorrect`, `SenderIsAlone`, `FailedLate`, `SendsCounted`, `NoSecondSend`,
and `Delivers`, the refinement of `Delivery`. `IInv` adds `WorkerInv`: a worker has an
uncommitted record only while it has an event in hand, with an outcome only past the provider
call, and a worker's loaded count never exceeds the row's, which only grows. `SendsAccounted`
follows since a pass cut short loses the one record of its call. The refinement needs in
addition that a worker works on events that were committed (`KnownEvents`); each action then is
one step of one attempt, or a stutter, because the worker that holds the key alone says how far
the attempt is (`HolderTells`, `LetGo`).

**PaymentsProofs** — `TypeCorrect`, `CreditCaptured`, `CreditAnnounced`,
`RefundBacked`, `PaidCovered`. `RowInv`, on committed rows; `TxnInv`, the same of what
a transaction saw and is about to write, which survives other transactions
because the facts are monotone at the provider (captured stays captured,
refunded money only grows); `OnePayer`; `MailInv`, an event in the mail reports
something that happened. `CoverInv` for `PaidCovered`: a sum counts units of
money (the cardinality of a set of pairs), so that monotonicity is set inclusion
and needs no induction. One lemma per kind of step (load, write, commit, drop,
money moves, mail is posted); each action cites one or two.

**LifecycleProofs** — `TypeCorrect`; `Fulfils`, the refinement of `Fulfilment`: initial
states map to initial states and each step to a step or a stutter;
`LockKeepsHour`. `RowsInv` relates the five rows, `ReadsAreSound` says what an old
read still guarantees: the statuses it may act on have not been left for one that
would break a promise. `HourInv`: one transaction of those that write UTC holds an hour,
and what it counted still holds.

**BusinessRecordsProofs** (records) — `RatingStands`, `EntriesAgree`,
`ChargesAllowed`, `ConversationsAgree`, `BusinessKeepsOwner`, `SuspensionStands`, by
`ReviewsInv`, `LedgerInv`, `ConnectInv`, `TalkInv` with `ProposalsInv`, `MembersInv` and
`ListingInv`. Each
says of every request under way what its read still guarantees, unless the
history variable already admits that it was overtaken. `PartsMove` lifts each
part's proof to the composition.

**BusinessRecordsProofs** (automation) — `ExhaustedWasTried`, `EventsAreRecorded`.
`TriesCounted`: neither the row nor any worker's read counts more attempts than were made.
`MakersReadNone`: a worker that makes an event read a record without one, and holds its id until
it has written it; `StrayKept` is the step they share.

**VoiceCallsProofs** — `TypeCorrect`, `RungForOne`, `SessionsEnd`,
`AcknowledgedIsApplied`. `CallInv`: what a dial under way has seen and placed
(`DialInv`); as long as nobody dialled on an old read and no leg got lost, a dial
means that no leg is on record and a leg on record stops the next dial (`OneLeg`); as
long as nobody wrote late, a session is open only in a call under way and a call
whose end was acknowledged is over (`Orderly`).

**CallDialogueProofs** — `TypeCorrect`, `WithinBudget`, `CallerIsHeard`, `OneHandover`: what
a request has read is what is there, or another has written since and its own
write will be counted as overlapped.

**OutreachProofs** — campaigns: `PhoneRingsOnce`, `StopIsHeard`, by `CampaignInv`:
a run that wrote a row holds it, a phone that rang is known to a call, a run or
`lost`. Communications: `CapIsKept`, `StatusEarned`, `OptOutIsHonoured`, by
`CommunicationsInv`, of which `CapInv` is the heart: the rows of a day together with
the messages in hand are at most the cap and one less than the workers. A row bears the
day its transaction began, so rows decided after their day are counted apart: `LateInv`
says that they and the transactions still open from that day are at most the workers,
and `DatesInv` that only a past day has any.

**BrainProofs** (versions) — `TypeCorrect`, `PointerAgrees`, `ReviewedGoverns`,
`DecisionsStand`. `DataInv` relates pointer, statuses, submitted and
written content; `RequestInv` says what a request loaded was so once (`Loaded`), and is
still known to be so unless its write will count as stale (`StillKnown`); an activation
that leaves the pointer unwritten makes the version it names by then an excused one.

**BrainProofs** (quoting) — `RivalsWereBlind`, by `PolicyInv`: an activation under way
has found each live rival, missed it, or the rival is blind for it (`LookKnows`).
`FewerRulesLetIn`: a rule less leaves a decision that is no stricter, shown case by
case over the decision's order. `OrderIsIrrelevant`: surcharges and discounts are
counts of units, so a permutation of the rules is a bijection of the units
(`SumsAgree`). `QuoteIsCharged`: amount, fee and proceeds add up (`QuoteInv`).
`LeastNumber` and `GreatestNumber`, least and greatest element of a set of
numbers, stand in for induction.

### Only model-checked

The liveness properties `EventuallySettled`, `CaptureSettles`, `FailuresEnd`, `CallEnds`
and `RunsEnd`: liveness under fairness, and ENABLED, are beyond the proof
system. Nothing is defined recursively, so that every module can be reasoned about.

## Divergences

Where the code and a document, a comment or an expectation differ. They were met
while modelling; the models follow the code, and properties that a difference limits
say so. The one about retries is also a run (`automation_retry`), as it is the one
a property of a passing run would otherwise hide.

*Outbox.* FAILED is not permanent: a late worker rewrites it (`outbox/repository.py:124`).
PROCESSED does not mean sent: a provider failure ends the communication
(`communication/orchestration.py:374`), a denial or a swallowed e-mail error leaves none
(`:193`, `:509`). Reclaims are not compared with `max_attempts` (`repository.py:53`), so an
event whose handler always raises with a transaction open is never FAILED, against the lifecycle
at `outbox/models.py:28`; in a batch it may keep the events behind it from being handled,
against the at-least-once delivery of `:4`.

*Payments.* The outstanding balance subtracts a full refund twice (`payment/repository.py:133`).
Two concurrent settlements leave the smaller sum as the invoice's status. VOID is overwritten by
a request that loaded the invoice before, and `create_payment` does not look at it. The refund
that completes a partial one violates the outbox key and is rolled back each time
(`stripe_reconciliation.py:490`). A success event that comes before the commit is recorded as
unknown, its redeliveries are duplicates, and the payment stays in processing (`:151`).
`charge.refund.updated` reads as 0 (`:443`). A handled `StripeEvent` is never added to the
session. Disputes match only with an expanded charge. Payments in processing do not count
towards the balance (`payment/service.py:195`). `cancel_payment`, `expire_payment` and
`handle_webhook` have no caller.

*Lifecycle.* The advisory lock is by hour and the capacity window may be wider, although
`create_booking` says that it prevents concurrent requests from consuming the same constrained
capacity. Lock key and count take the hour from the time as the client wrote it
(`booking/service.py:504`, `availability.py:338`), while stored times are in UTC: requests for
one slot with different offsets exceed the limit even one after the other. A second visit of a
status finds its outbox key taken and is rolled back.

*Booking automation.* A cancellation after a successful sync does not clear the
calendar: an operation recorded as successful returns early
(`booking_automation/service.py:271`, against the docstring at `:192`). A retry after a
lost answer creates again: it makes a second event, or is refused and leaves the first one on no
record, against `calendar/sync_service.py:50` ("produce the same event ID"),
`calendar/models.py:96` and `adapters/calendar/base.py:26` (run `automation_retry`).

*Voice.* "Never dialed twice" (`voice/provider_service.py:132`) does not hold for two requests
that read AUTHORIZED. The webhook's row marked FAILED is rolled back with the error. Rejected
turns and empty speech do not count against the budget; turns are governed by the version active
now, not the call's. Concurrent hand-overs leave two escalation rows. Campaigns: a run after a
rollback dials again (`campaign_execution.py:291`); SKIPPED is terminal (`:224`); a retryable
dial failure makes a recipient CONTACTED; `complete_campaign_recipient` has no caller.

*Business Brain.* `transition_version` moves a version into or out of ACTIVE without the pointer
(`business/service.py:152`, against `BUSINESS-BRAIN.md:101`). A reactivation of the
version in force, overtaken by the activation of another, supersedes that one and writes neither
status nor pointer of its own, since it has both loaded as it wants them (`:280`): no
version is ACTIVE, against the invariant at `:245`. A deleted rule stays among
`version.rules` (`business/models.py:84`), which validation, evaluator, availability and
prices read, against "Remove a rule" (`api/v1/brain.py:344`). A proposal
that failed to apply "stays APPROVED" and the "owner can retry"
(`conversation_service.py:398`), but only a PENDING one may be approved. A
qualification proposal whose `rule_data` is no dict is filed as it came
(`conversation_service.py:1178`), against the promise at `:1163` that it "always" has
required fields and none that are forbidden; on approval the fields
beside an empty `rule_data` enter the configuration. A
new draft copies the configuration, not the rules. Approved general knowledge becomes a
`policy` rule that blocks submission. The prompt has the oldest 20
messages, and the owner's last twice.

*Evaluator and pricing.* "Most restrictive wins" while a conflict escalates before a
denial is seen; rules with missing fields are set aside. Of several floors or caps the
last loaded wins, and no query fixes the order (`quote/pricing.py:6`).
`base_pricing` is ignored. Negative rule amounts are not refused.

*Commercial policies.* A category default never applies. A promotion with a code supersedes one
without. A policy dated ahead supersedes nothing, its rival staying in force "until the new
policy's effective_from is reached" (`commercial_policy/service.py:348`); from then on the one
created later governs, which need not be the new one.

*Communications.* `max_per_day` is overshot by up to one message per further worker, and by
one more per worker whose transaction began before midnight and decided after it: the row is
dated by the transaction's start (`common/base_model.py:39`), the count starts at the day of
the decision (`policy.py:480`). A receipt of a type the handlers do not map is accepted and
dropped (`api/v1/communications.py:768`, `:837`). A receipt
before the worker's commit is lost. A FAILED communication is not retried. Suppression columns are
never set. An opt-out does not recall a message under way.

*Records.* A removed member can never rejoin. An address with two expired unused invitations can
never be invited again. A PENDING business with an active profile is on the public pages and
takes enquiries (`enquiry/service.py:549`), against "must be explicitly activated [...] before
they can receive enquiries" (`common/enums.py:297`); discovery does not list it. "DEACTIVATED ->
(terminal)" (`api/v1/businesses.py:450`) does not hold: a transition that had loaded an earlier
status is written over it (`:465`). The public reviews page looks at no status
(`api/v1/reviews.py:126`) and shows a deactivated business's reviews. A second response to a
review always fails on its outbox key. A ledger status set by hand does not reach the entries.
Two concurrent requests open two Stripe accounts; `validate_can_charge` and
`compute_application_fee` have no caller.

## Plan

What remains, in the order in which it matters:

1. An abstract specification of `Payments`: a ledger in which money is captured
   and refunded atomically, and the step simulation.
2. Lemmas for the remaining operators: the decision is the strictest outcome of the
   rules that apply when none conflict; a price lies between floor and cap.
3. Theorems for what history variables excuse: that one overtaken request is
   needed, for each property that names one.

## Not modelled

Identity, tokens and authorization; rate limiting; capabilities and catalogue; discovery and
matching; HTTP adapters; e-mail and templates; the registry and presentation of the
Brain; frontend, migrations and seed data. They have no state another component's
invariants rest on, are layout or input and output, or are read only. What parts of modelled
components are left out is in the notes of `PROJECT.json`.
