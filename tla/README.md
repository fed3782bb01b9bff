# Specifications of the AI Business OS backend

TLA+ specifications of the parts of `src/app` where concurrent requests,
provider notifications, crashes and retries meet shared rows. The modules are
checked with TLC on small instances, and the theorems are proved with TLAPS for
every value of the constants.

Contents: [the system](#the-system) · [inventory](#inventory) · [modelling
conventions](#modelling-conventions) · [modules](#modules) · [runs](#runs) ·
[proofs](#proofs) · [disagreements](#disagreements-between-code-and-text) ·
[not modelled](#not-modelled) · [plan](#plan)

## The system

A multi-tenant FastAPI application on SQLAlchemy (async) and PostgreSQL. Every
HTTP request has a session of its own (`app/database/session.py:29-47`), with
`expire_on_commit=False` and `autoflush=False`: `get_db` commits when the
handler returns and rolls back when it raises. Handlers also call
`session.commit()` on their own, in the middle of what a reader takes for one
transaction. Isolation is READ COMMITTED, rows have no version column, and only
some selects are `with_for_update`. There are no background workers (nothing in
`app` starts the event bus either): what nobody requests again does not happen
again.

Actors: the tenant's users, the platform owner who decides approvals, the
payment provider (Midtrans) and WhatsApp calling webhooks, agents.

## Inventory

| Component | State | Operations | Hard behaviour | What makes it correct |
|---|---|---|---|---|
| Payments and invoices (`billing/payments.py`, `invoices.py`, `api/v1/webhooks.py`, Midtrans adapter) | `invoices`, `payments`, `integration_executions`, row locks | create invoice and intent, receive a notification, settle, fail, cancel | duplicates, reordering, concurrent notifications, a cancellation on a stale copy, commit in mid-handler, crash | invoice PAID iff a payment of it settled; no verdict replaces another; one activation per payment; what is acknowledged is applied |
| Subscriptions and plans (`subscription.py`, `plans.py`, `state_machine.py`) | `subscriptions`, history | trial, upgrade, switch, cancel, activate, dunning | unlocked read-modify-write, missing unique constraint | no paid plan is ACTIVE without a payment; status table obeyed |
| Refunds (`refunds.py`) | `approvals`, `payments.refunded_amount` | request, decide, execute | locks against stale copies, money out before commit | refunded stays within the payment, for any amounts; a request is paid once |
| Workflow engine (`core/workflows`, `workflow_state.py`) | `workflow_executions` | start, run steps, wait, cancel | resumed and cancelled at once, retries | gated steps never skipped; a waiting execution can be decided |
| Approvals, authority (`core/approvals`, `core/authority`) | `approvals` | approve, modify, reject, cancel, evaluate | decided twice, binding to a stale step | no gated step passes without its own approval |
| Orders and stock (`repositories/domain.py`, `order_state.py`, `business_service.py`) | `products`, `orders`, row locks | create order, move status, restock, price, delete | row locks in item order and deadlock victims, refreshed copies, stale status copies | what was counted is in stock or sold; prices and stock current at commit; nothing unpaid is fulfilled |
| Messaging and handoff (`webhooks.py`, `core/router`, `messaging_state.py`) | `conversations`, `messages`, keys of delivery reports | inbound message, AI reply, takeover, closing, delivery report | duplicates in parallel, takeover and closing during a request, late reports, lost answers | one reply per message; none under a human; delivery moves forward |
| Integrations (`app/integrations`) | `integration_connections`, credentials, `integration_executions` | connect, disconnect, verify, execute with a key, retry, refresh | keys held across a provider call, ambiguous errors, overlapping connects | an operation once per key; disconnected means revoked |
| Tenant lifecycle, provisioning, onboarding (`app/tenants`) | `tenants.lifecycle_state`, checklist | transitions, pipeline, provision, validate, activate | two writers of one state, ticks by hand, stale copies | ACTIVE was ready and paid for; the pipeline waits for the payment |
| Entitlement, usage (`entitlement.py`, `usage.py`, `ai_gateway/usage.py`) | `usage_records` | read the limit, measure, record, announce | sum, then insert, without a lock; renewals in between | how far a limit is passed; no false alarm |
| Owner AI and tasks (`agents`, `core/tasks`) | `owner_ai_executions`, `tasks`, `approvals` | plan, delegate, record, report; task routes | commits at each step, errors inside error handling | no run forgotten; approvals survive |
| Knowledge (`business_service.py`, `api/v1/knowledge.py`) | `knowledge_items` | create, edit, approve, archive | edits and approvals on stale copies | an edit sends what is told back to a review |
| Event bus (`core/events`) | stream, consumer group | publish, read, handle, acknowledge | workers that stop or lose an answer | no handler called twice; nothing acknowledged early |
| Gateway, memory, context, authentication, analytics | – | – | text, single reads and writes, read-only | see [not modelled](#not-modelled) |

How they meet: a webhook settles a payment and activates the subscription in
one handler; a workflow action or the refund API executes a refund after an
approval; the engine creates approvals and the approval service resumes the
engine; workflow actions move orders and change prices; the lifecycle gate
reads subscription, invoices and the WhatsApp connection; a reply to a customer
is an operation of the integration service with a key of its own; the gateway
meters every answer; agents leave tasks and approvals.

## Modelling conventions

* A **session** is one request with its database session. Variables named after
  tables hold *committed* rows; `tx[s]` holds what session `s` has read and
  changed and how far it is (`pc`). Every `await` that reads, locks or commits
  is a step; code between two of them is one step. Reads that nothing can
  change between them are joined.
* A **row lock** is a variable from row to session, released by `Leave`
  (commit or rollback). `SELECT ... FOR UPDATE` waits for it; so does an
  `UPDATE` flushed at commit.
* A **flush writes only columns that changed** relative to the copy read:
  `Flush` in `PaymentSettlement`, `Column` in `WorkflowApproval`, `Saved` in
  `InboundMessaging`, `SetState` in `TenantLifecycle`. That is how
  lost updates can happen.
* **Crash(s)** stands for a process death, a lost connection, or the database
  killing the transaction: uncommitted work is gone, external effects stay.
* A **unique index** makes an insert wait for a transaction that has inserted
  the same key and not ended, and then fail (`Holds`, `ReserveKey`). Waiting in
  a circle ends with a `Victim`, which the database picks and rolls back.
* Variables the code does not have (`sold`, `wasPaid`, `performed`, `taken`,
  `asked` and the like) record what has happened for the properties; no guard
  reads them.
* `Quiet` allows stuttering in states without a running request, so that TLC's
  deadlock check, always on, reports a request that waits for ever.
* Ids, amounts and payloads are model values or small numbers. A notification
  that fails its signature is not an input, since it changes nothing.

## Modules

### BillingStates
The tables `SUBSCRIPTION_TRANSITIONS` and `PAYMENT_TRANSITIONS` of
`state_machine.py`, and the two validators (equal statuses are allowed).

### PaymentSettlement
`POST /webhooks/midtrans` down to `confirm_payment_success` and
`record_payment_failure`, with invoices, intents, the tenant's requests that
write the same subscription, and the two other writers of a payment's status:
the route that cancels a payment and the refund service.

| Variable | Code |
|---|---|
| `invoice`, `payment`, `sub` | the rows; `subRows` counts the tenant's subscriptions (no unique constraint) |
| `payment[p].paidAt` | `payments.paid_at` is set, which only a settlement does |
| `activations` | history rows written for a confirmed payment |
| `execs` | keys of COMPLETED `integration_executions`, unique per tenant |
| `lock` | `with_for_update` on payments |
| `charged`, `acked` | the provider: transactions opened, notifications answered 200 |

The path of a settlement: `StartWebhook` (not a duplicate, invoice found,
amount right) → `FindByProviderId`, or `MissByProviderId` and `FindByInvoice`
→ `SettlePayment`, which **commits payment and invoice and gives up the lock**
since `InvoiceService.update_status` commits → `LoadForActivation` →
`CommitActivation`, which writes subscription, history and execution record
together. `LoadForFailure` and `CommitFailure` are one transaction.
`RollBack` has the ways in which the last transaction fails; one of them is the
unique constraint on a payment's transaction id, when the payment found by its
invoice would take over an id that another row has (`RefFree`).

`LoadForCancel` → `CommitCancel` / `CancelRefused` is
`POST /integrations/midtrans/payments/{id}/cancel`: the payment is read without
a lock, the provider is asked, and `CANCELLED` is written over whatever the row
is by then, after waiting for its lock. `RefundPayment` is
`execute_approved_refund` as it looks to the others, one step under the row lock
that follows `PAYMENT_TRANSITIONS`; its parts are in `RefundExecution`. After
either, a PAID invoice has no SUCCEEDED payment. So the properties speak of
payments that *have settled* (`paidAt`), and `OutcomeIsFinal` says what is left
of a verdict: FAILED gives way to a cancellation only, a payment that has
settled is never open or FAILED again, a CANCELLED one never settles, and a
PAID invoice stays PAID.

### PaymentLedger
What settlement promises, without sessions, locks or notifications: a payment
is opened, settles once together with its invoice, or fails, while it is open;
it can be cancelled in any status, refunded once settled, and a payment that
has settled activates a subscription at most once. `LedgerSpec` in
`PaymentSettlement` states the refinement: `status`, `invoiceOf`, `settled`,
`paid` are read off the rows.

### WorkflowApproval
Executions and the approvals they wait for. A session reads an approval
(`LoadApproval`), then the execution (`LoadToResume`, `LoadToCancel`), performs
the approved action (`PerformAndGoOn`, *before* the execution's status is
checked, as in `approvals/service.py:331-342`), runs the following steps
(`RunAction`, `FinishRun`) and commits. `POST /executions/{id}/cancel` is
`LoadToStop`. `tries` and `done` record what the outside world has seen.
`CommitWithin` is the commit in the middle of an action: calling a model or an
agent (`Commits`) records its usage, and `check_and_increment_usage` commits the
session (`usage.py:135`), hence the decision and the execution as they are by
then. A crash afterwards leaves an execution RUNNING, which no request takes up
again, or, for an approved agent, waiting with an approval that is decided.

Abstractions: an action is built in, autonomous, gated or a delay, and succeeds
or fails freely; conditions and time-outs are free choices; `MEDIUM` risk is
not told apart from `LOW`; who may decide is left out. `expires_at` is never
set by code under `app/`, so expiry does not occur. An action's effect
is modelled as outside the transaction; a rollback never takes it back.
`issue_refund` does not get to a commit when a workflow asks for it: the
approval the engine creates has no `payment_id` in its `meta_data`, and
`refunds.py` fails on the missing key.

### RefundExecution
One payment and the requests to refund it. `Authorise` is `evaluate_action`
reading the approval into the session before `execute_approved_refund` locks
it; as the select has no `populate_existing`, `LockRequest` goes by the status
read *before* the lock was waited for. `CallService` is the call of the service
without that read. `Refund` is the provider's refund and precedes
`CommitRefund`. `DecisionType` has the decisions that reach an approval without
a workflow; `REJECTED` has the effect of `CANCELLED` here.

Amounts are integers, units of the smallest step of the `Numeric` column, and
*any* integers: `request_refund` asks only that an amount does not exceed what
is left (`refunds.py:38`), and neither route asks for more
(`api/v1/billing.py:95`, `api/v1/integrations.py:738`). A refund of 0 makes a
payment PARTIALLY_REFUNDED of which nothing is refunded, and a negative one
takes a recorded refund back; `StatusTellsRefunded` says what each status tells
in spite of that. `CancelPayment` is the cancel route, which writes over the
payment; a move the table refuses after it is `RefuseMove`.

In this commit the binding hash of a refund approval (its `meta_data` has
neither `action_hash` nor `params`) does not match the parameters
`issue_refund` is executed with, so the authority service denies the executor's
call in most configurations; the model keeps to the contract the service was
written for, since `refunds.py` does not depend on the hash.

### RefundLedger
What the refund service promises of the money, without sessions, locks or
copies: an amount is asked for once, is paid out only while it fits into the
payment, and is recorded by the step that makes its request EXECUTED, after it
was paid out. It allows what the code does allow: an amount can be paid out
more than once (`refund_once`), and a decision is written over an execution
(`Overwrite`). `RefundLedgerSpec` in `RefundExecution` states the refinement.

### OrderStock
`create_order_with_items`, the catalog's edits and the order status machine.
`product`, `order` are the rows, `lock` and `lockO` their row locks; `tx[s].row`
is the session's copy of each product, which `LockLine` (a `SELECT ... FOR
UPDATE` with `populate_existing`) replaces, so that a deduction of an earlier
line of the same product is lost (run `orders_repeated`). `StartOrder` →
`LockLine` for each line in the order of the basket, or `RefuseLine` →
`CommitOrder`. `ReadProduct` and `WriteStock`, `WritePrice`, `DeleteProduct`
are the manager's requests, `ReadOrder`, `LockOrder`, `CommitMove` the status
updates of routes and workflow actions, which are validated against the copy
read before the lock. `Victim` is the deadlock of two opposite baskets.

### StockLedger
What the shop promises of its stock: an order takes all it asks for in one step,
from products on sale that have as much (`Place`), the manager sets the stock of
a product on sale (`Count`) or withdraws it. `StockLedgerSpec` in `OrderStock`
states the refinement; what an order wants of a product is the sum over its
lines, so that a lost line, a half-written order or a stale copy breaks it.

### KnowledgeReview
The rows of `knowledge_items` with status, content and version; a session reads
an item and writes it (`UpdateItem`, `ApproveItem`, `ArchiveItem`), column by
column. `approvals` has the rows that approvals have left: which item, and with
what content. Only `APPROVED` and `ACTIVE` items are told to customers (`Told`).
`Edited` is what an edit makes of the copy it has read, the way back to DRAFT
included. `Reviewed` says that an item which is told, or was, points at an
approval of the content it has.

### TenantLifecycle
`state` is `tenants.lifecycle_state`; a request carries the copy it read. Asked
for by name (`AskTransition`), by the pipeline (`Advance`, one commit and one
`Refresh` for each step, past WAITING_PAYMENT only if `PaymentVerified`), or set
by the provisioner (`CommitProvision`, without the table). The readiness score
(`Score`, in hundredths of a point, with the weights of `readiness.py`) counts
what the validators find in the rows, not what was ticked (`validate_all`,
`UpdateChecklistItem`). The business data, the WhatsApp connection and the
subscription change under a running request.

### UsageLimits
One metric of one tenant. `get_limit` and
`check_subscription_temporal_validity` are the resolver; a request goes
`ReadEntitlement` → `MeasureUsage` → `RecordUsage` → `AnnounceThresholds`,
with nothing locked, while plans change and periods are renewed. The AI gateway
is the caller with policy WARN, after the answer has been had.

### AgentTasks
A run of `OwnerAIOrchestrator`: `StartRun`, `PlanRun`, `ChooseAgents`, then for
each agent `CreateTask`, `AgentAnswers`, `RecordAnswer`, and `EndRun`; each is
one commit. `FailRun` is what the outer except clause commits, approvals that
were flushed included. `ReadTask`, `CommitTask`, `PostTask` are the task routes.

### InboundMessaging
A delivery of a WhatsApp message: `ReceiveMessage` (not seen before) →
`FindConversation` (the active one, or a new one) → `StoreMessage`, which waits
for another request with the same message or the same new conversation, or
`DuplicateMessage` → `RouteMessage` → `SuppressReply`, or `AnswerPlainly` /
`AnswerWithModel` (whose metering **commits the session** before anything is
sent) → `ProviderAccepts` / `SendFails` → `CommitReply`. `ProviderReports` and
`ReceiveReport`, `CommitReport` are the delivery reports, `UpdateConversation`
the takeover, release, closing and reopening by a human. A handoff may find the
conversation closed meanwhile and makes it active again (`Reopens`), which
fails if the customer has another by then. `Victim` is the circle of two
unique indexes.

### IntegrationConnections
`ReadToConnect` → `ReadCredential` → `FlushConnection` → `CommitConnection`;
`ReadToDisconnect` → `CommitDisconnection`; verification; and operations:
`StartOperation` (no record of the key, connection active) → `ReserveKey` (the
RUNNING record, inserted under the unique index) → `OperationSucceeds`,
`OperationFails` (another attempt follows) or `OperationRefused`, with
`RefreshToken` on the way → `CommitOperation`. `Operations` and `Attempts` say
which operations a provider knows and how often they are tried, `performed`
counts what the provider has really done, `unsaved` the requests lost after
that. A reply of `InboundMessaging` is an operation that is tried once; there
`ProviderAccepts` stands for it.

### EventBus
Both backends. In memory, `publish` calls the handlers before it returns. With
Redis, `ReadBatch` reads up to `count` messages of the group's stream that are
*new* (`>`), `CallHandler` calls one handler, `Acknowledge` is XACK. A process
stops anywhere (`Stop`), an answer of Redis is lost (`LoseBatch`,
`AcknowledgeFails`).

### MC modules
`MCPaymentSettlement`, `MCWorkflowApproval`, `MCRefundExecution`,
`MCOrderStock` and `MCKnowledgeReview` give the constants their small values and the
symmetry sets. Sessions, payments, requests, approvals, orders, tasks and
connections are interchangeable: no property orders them. No symmetry is used
in the liveness run, and products are not exchanged in `services`, where the
baskets name them.

`MCServices` and `MCChannels` put modules that share no rows in one run. A
behaviour plays in one of them, its *scene*, and the other modules stand still
in an initial state; so a run explores the sum of their state spaces and not
the product, which would show nothing more. The properties are those of the
modules under the same names.

## Runs

| Run | Instance | Shows |
|---|---|---|
| `settlement` | 2 sessions, 1 invoice, 2 payments, 2 transactions, 5 notifications, 1 crash, two kinds of tenant request (trial, cancel), cancellations and refunds of the payments | the safety properties of settlement, and the refinement of the ledger |
| `settlement_live` | 2 sessions, 1 payment, 2 transactions, settlement and denial, 1 crash, all four kinds of tenant request, cancellations and refunds | a settled transaction does not leave its payment PENDING for ever; no plan that costs something without a settled payment |
| `settlement_activation` | as `settlement`, no crash | violated: an acknowledged settlement whose activation is lost |
| `settlement_card` | challenge and acceptance of one transaction | violated: the acceptance is taken for a duplicate |
| `workflow` | 2 sessions, 2 executions (a gated refund, a model, a gated agent; a delay), 3 approvals, 1 retry, any number of crashes | waiting executions can be decided, gated steps are not skipped |
| `workflow_repeat` | the same, 2 performances, no crash | violated: an approved action is performed twice |
| `refund` | 2 sessions, 2 requests of -1..2 out of 2, 2 refunds per request, a cancellation of the payment, 1 crash | amounts and statuses under the locks, and the refinement of the refund ledger |
| `refund_once` | the same, service alone, no crash | violated: one request is paid twice |
| `services` | 2 sessions and five scenes: 2 orders of 2 products in opposite order, with edits; 1 knowledge item, 2 contents; a tenant with 3 requests and 2 changes; 3 metered requests over 2 periods and 3 plans; 1 run of the assistant with 2 tasks | stock adds up, orders are placed whole (the refinement of the stock ledger), locks keep what was sold current, a request that finds an item as it read it tells nothing unreviewed, ACTIVE was ready and paid for, how far a limit is passed, no false alarm, approvals and runs are not lost |
| `channels` | 2 sessions and three scenes: 1 message in 2 conversations, 2 kinds of report, 4 human actions, 1 crash; 2 connections, 2 keys, 4 providers, 2 credentials, 1 crash; 3 events, 2 workers, 2 handlers, batches of 2, both backends | one reply, none under a human, delivery forward; a key once, disconnected means revoked; events once, none acknowledged early |
| `orders_repeated` | 1 session, 1 product with 2 pieces, baskets with the product twice | violated: more is sold than there was |
| `knowledge_review` | 2 sessions, 1 item, 2 contents, nothing lost | violated: an edit read before an approval is told under it |

**Bounds.** Two sessions are enough for every race over one row: each hazard
listed is a step of one request between two steps of another. Two payments of
one invoice and two transactions allow double payment and the second lookup by
invoice. One crash can fall on any step; what follows is retried by the
surviving requests. In `workflow` crashes are not counted: the crashed request
leaves nothing behind but what it did outside. Three approvals allow both gated
steps and one repetition; the workflow has an autonomous step between the gated
ones so that a run continues past a resume, and it and the last one commit in
their middle; `MaxSteps = 4` lets the workflow finish (BLOCKED is an end like
TIMED_OUT, which the run has; the proofs have both) and `MaxRetries = 1` reaches
both outcomes of the retry test. `reject` and `cancel` differ only in a label, so
the run takes one of them. `Amount = 2` with amounts of -1, 0, 1 and 2 admits a
partial refund, an exact one, two requests that do not fit together, an empty
one and one that takes a refund back. `MaxTries` bounds how often the provider
pays one request.

In `services`, one basket takes the products in one order and one in the other,
which is what deadlocks, and two pieces of each let both orders through or,
after a count of one, the first only; a basket that repeats a product breaks
`StockAccounted` by the fault of `orders_repeated` and is left to that run.
`MCData` has a tenant that is READY with nothing to spare (88.33 points without
WhatsApp, which is not a required item, and 91.66 with it, where 90 are needed)
and one without a required item, `MCTicked`, that somebody may tick by hand.
`Lifecycle` names a state past the payment, ACTIVE, and BLOCKED, from which
only an owner leads out. Three requests and two changes let two requests
overlap after a first has put the tenant in place. `MCPlans` has the trial, an
unlimited add-on and a subscription past its end; three uses reach a limit of
two or three from below, pass it together, and cross a threshold. Three
versions of a knowledge item allow an edit on each side of an approval.

In `channels` the initial conversations are none, one open, or closed ones, so
that a message may find, create or reopen one, or fail to reopen it. Reports of
failure are left out of the run because they make it too long for what they
add; the proof of `DeliveryMovesForward` has all four kinds. `MCOperationOf`
gives each provider one operation that changes something outside and one that
it does not know or tries more than once; two grants allow a connection to be
made twice. Three events and batches of two put a batch on each side of a stop.

**Fairness** is assumed only in `settlement_live`. `SF(Step(s))`: the database
grants a row lock to waiting transactions in turn, so a request that can
proceed again and again does. `SF(Deliver(n))` for an unanswered notification:
Midtrans repeats a notification until it is answered with 200; each delivery is
a new request, and one may find no free session now and then. Nothing is
assumed of users or of crashes. The other modules promise nothing under
fairness: a lost request leaves its rows as they are, and nothing in `app`
comes back to them.

**Properties**, in the words of the code, stand above each definition. Those
that are not what the code shows at a glance:

* `PaidIffSettled`, `SnapshotIsCurrent`, `OutcomeIsFinal` depend on the lock
  being taken before the status is read and kept up to the commit; the cancel
  route takes none for its read, but its UPDATE waits for the lock, so it cannot
  come between a webhook's decision and its commit.
* `OneActivationPerPayment`, `AcknowledgedMeansApplied` are about payments that
  have settled; by then a refund or a cancellation may have changed the status.
* `AcknowledgedMeansApplied`: a duplicate is answered 200 on the strength of an
  execution record, so the record may exist only if the payment was settled.
* `NoUnpaidPaidPlan`: trial, cancel, switch, upgrade and activation overwrite
  single columns of each other's copies.
* `WaitingHasPending`: every request that decides an approval also moves the
  execution on, in the same commit; an agent that was approved, and commits
  in its middle, is the exception.
* `NoGatedStepSkipped` is stated for executions whose approvals are not
  modified: `modify_and_approve` rebinds the approval to whatever was written,
  so a modified action is performed even if the execution has moved to another
  step, and that step counts as done.
* `ExecutedIsRecorded`: the payment's lock makes concurrent refunds add up.
* `StatusTellsRefunded`: the status is computed from a total under the same
  lock; with amounts of zero and less it tells less than its name.
* `StockAccounted`, `LockedIsCurrent`: the order's copies are read before the
  locks and written at the end, and a manager's write waits for the locks.
* `NothingFulfilledUnpaid`: status moves validated on stale copies overwrite
  each other, yet every way to PROCESSING begins with a copy that was PAID once.
* `OnlyReviewedIsTold` is about requests that find the item as they read it,
  after any number of others have written over each other; of requests that
  overlap it does not hold, which is `knowledge_review`. An OUTDATED item is
  excepted: its content is not reset by an edit, and ACTIVE is one edit away
  (`VALID_KNOWLEDGE_TRANSITIONS`), so it can be told again without a review.
* `ActiveWasReady`, `ActivePaidFor`: the gate judges the data and the
  subscription as they were when the request read them.
* `PipelineWaitsForPayment` excepts the two ways around the pipeline,
  a transition by name and the provisioner, which do not look at the payment.
* `OverLimitByOverlap` says what is left of the promised atomicity: a limit is
  passed by what the other overlapping requests were each allowed.
* `AnsweredOnce`: uniqueness of the message, of the conversation and of the
  reply's key together; a lost request counts once for what it had sent.
* `NoReplyAfterTakeover` is about messages that *arrive* under a human; one
  that arrived before is answered (see below).
* `KeyedOnce`: the record is visible only at the commit, long after the
  provider was called; the unique index holds the others back until then.

## Proofs

Every safety property that a passing run checks is a theorem, and so are the
three action properties and the refinements of the three ledgers. Seven modules
hold the theorems and `FiniteSums` the lemmas on sums:

| Module | Of | Carried over to |
|---|---|---|
| `PaymentSettlementProofs` | `PaymentSettlement`, `PaymentLedger` | |
| `WorkflowApprovalProofs` | `WorkflowApproval` | |
| `RefundExecutionProofs` | `RefundExecution`, `RefundLedger` | |
| `ServicesProofs` | `OrderStock`, `StockLedger`, `KnowledgeReview`, `TenantLifecycle`, `UsageLimits`, `AgentTasks` | `ServicesSpec` |
| `IntegrationConnectionsProofs`, `EventBusProofs` | the module of that name | `ChannelsSpec` (`ChannelsProofs`) |
| `ChannelsProofs` | `InboundMessaging` | `ChannelsSpec` |

Sessions, rows, messages, keys, events and crashes may be any number. The
theorems use only assumptions on the constants. Those named `...Assumption`
stand beside the declarations: ids that exclude `None`, plans disjoint from the
free plan, workflows as sequences of actions, natural bounds, states, patches
and statuses the code knows. Modules that are instantiated have theirs as a
formula (`Setting`, `Bounds`), which `ServicesAssumption` and
`ChannelsAssumption` assume of the instances. TLC evaluates all of them on
every run. Three theorems need more. `NothingUnrecorded` assumes finitely many
refund requests, since it is about their sum (the property itself excepts
negative amounts). `StockAdds` and
`ImplementsStockLedger` assume `OneLineEach`: no basket names a product twice.
The code takes such baskets, and `orders_repeated` shows that the stock does not
add up then; with the hypothesis the theorems say that this is the only way in
which it can fail.

Each module proves one inductive invariant (`IInv`, `StockInv`, `KnowledgeInv`,
`TenantInv`, `UsageInv`, `AgentInv`), and its theorems from it. `ServicesProofs`
and `ChannelsProofs` end with the step from the parts to the whole: a step of
the composition is a step of each part or leaves the part alone, so a behaviour
of the composition is one of each part (`EachRuns`).

*Settlement.* Type correctness needs `SessionOK`: from which point of a request
its `notice` and `pay` fields are set. `PaidIffSettled` and `SnapshotIsCurrent`
are not inductive alone. The strengthening (`SettleInv`) has three parts.
`Rows`: an open payment has not settled, one that SUCCEEDED or was refunded
has, and its invoice is one of `Invoices`. `Holding`: a session between
`LockPayment` and its commit holds the row's lock and the row is as it decided
on. `Settling`: for each payment at most one session is between `SettlePayment`
and its end, only of a payment that has settled, and only while nothing has
been activated. The cancel route keeps all three because its write waits for
the lock and leaves `paid_at` alone (`CancelInv`). From the same invariant
every step is a step of `PaymentLedger` or stutters (`ImplementsLedger`).
`OutcomeIsFinalAlways` rests on `Writers`, `OpenWrites` and `StatusWrites`:
which steps write a payment's row at all, and from which status.
`AcknowledgedAlways` is a chain: who answers 200 has settled the payment, found
it settled, or found an execution record, and a record is written only by a
session of the first two kinds (`Applied`); nothing takes back that a payment
has settled (`PaymentWrites`), nor its transaction id, which the unique
constraint on it keeps from moving to another payment.
`NoUnpaidPaidPlanAlways`: while no payment has activated the subscription,
ACTIVE comes with the free plan, and a copy that shows the free plan, whose
flush leaves the column alone, shows what the row has (`Unpaid`).

*Workflows and approvals.* Nothing is locked here, so the argument is about
what a commit writes. `AtPoint` says what a session holds at each point of its
request, by what kind it is (`Starting`, `Going` on after a commit in the
middle, `Deciding`, `Stopping`). A run that goes on has passed a step since it
read or wrote the execution, or stands at an action that commits (`Advanced`),
so a commit that asks for an approval writes both the step and the status. And
`WaitingHasOpen` strengthens `WaitingHasPending`: a waiting execution has an
approval, PENDING or granted to an agent, such that every session that takes it
up read the execution *while it waited* (`Read`, `Open`), and an action is left
for it (`Left`). Such a session changes the status in the copy, so its commit
writes the column: the commit that uses up an open approval also ends the
waiting, and one that leaves the status alone leaves an open approval
(`OpenKept`). `PassedIsPerformed` extends `NoGatedStepSkipped` to the copies.
`SessionStep` covers every step that commits nothing; `DecidedFacts`,
`AskFacts`, `WriteFacts` and `WriteRows` say what a commit writes, `WriteStep`
what the invariant needs of both commits, and `CommitStep` and
`CommitWithinStep` conclude.

*Refunds.* `IInv` adds to the properties: a session past `LockPayment` holds
the payment's lock and its new total is within the amount (`Guarded`); each
session works on a request, which is a row from some point on (`Working`); a
session past `Refund` has been paid (`PaidFirst`). Nothing is assumed of the
sign of an amount. `RefundWithinAmount` follows because
the payment is written by the lock's holder only. Two lemmas (`SessionStep`,
`EndStep`) cover the ten actions that do not touch the payment.
`NothingUnrecorded` is about the sum over the executed requests. `Reserved` says
that the total a session has computed under the lock is what is recorded plus
its own amount, and `Fresh` that the amount of a request is written before
anybody works on it; so a commit adds one request to the sum and as much to the
record. The same two carry `ImplementsLedger`: `Written` lists what one step
writes (a new request, a decision, a refund of the provider, an execution) and
`BooksKept` shows that a step writes one of these or nothing of the books. Each
is a step of `RefundLedger`; its guards on the amount are `Guarded`, and that an
execution was paid out is `PaidFirst`.

*Sums.* `MapThenSumSet` is a recursive function on the subsets of a set that
takes out an arbitrary element first. `FiniteSums` shows that such a function
exists, that the choice makes no difference, and what an element more or less,
or a bound on the elements, does to the sum. In place of an induction each lemma
looks at a smallest subset where it fails, which exists since the strict subsets
of a finite set are well-founded.

*Orders.* `LinesHeld` says that a session that orders holds the lock of every
product whose line it has done; nobody writes a locked row, so the copies stay
current (`LocksHold`). `PaidOnly` says that a status which only paid orders
come to is in the row or in a copy only of an order that was PAID, and every
move of the table into these statuses, but the one to PAID, begins in one.
`Deducted`: the copy of a locked product is the row less the quantity of its
line; the commit writes the copies, and thus takes from the stock what is
counted as sold (`StockAdds`). For the refinement `Placing` adds that an order
which is being placed is not there yet and is the work of one session, and that
its copies are on sale; then the commit is `Place`, with the lines' sum
(`Ordered`) as what it takes, and every step before it shows nothing.

*Messaging.* `RepliedOnce`: `OneWorker` says that one request at a time is past
`StoreMessage` for a message, and `Counted` that what has been sent is what the
reply's row, that request and the lost ones account for. `HumansAreLeftAlone`:
`OneActive` (one active conversation, the index), `Creating` (one is created
only when there is none, and nobody reopens another meanwhile) and `TakenHolds`
(while there are such requests, a human has the customer) lead to `TakenQuiet`:
a request that arrived under a human finds the conversation that was taken over
and is at no point from which the machine answers. `DeliveryIsMonotone`:
`Reporting` says that one request handles a report, before its key is stored,
and `Known` that a reply which is DELIVERED or READ has had its first delivered
report stored; so no request that could take it back still holds an older copy.

*Integrations.* `OneHolder` and `Unrecorded`: one request holds a key, and only
while it has no record. `Counted` bounds what the provider has performed by the
attempts of the lost requests (`Past`), plus the holder's so far, plus at most
`Limit` once there is a record. The two key lemmas are `Attempted`, for a step
of the holder, and `KeyGivenUp`, for its commit or loss; `CalmStep` covers all
steps that touch no key. `DisconnectedIsRevoked` is inductive with the types:
only `CommitDisconnection` writes DISCONNECTED and it revokes in the same
commit; only `CommitConnection` takes a revocation back, and it sets another
status.

*Event bus.* What has been given to a worker is below the group's position
(`Given`); a batch has no event twice and no two batches share one (`Batches`,
`Apart`), so an event is in one place of one batch or in none, and `Counted`
says how many handlers it has seen there. Hence no handler sees it twice, and
one that is acknowledged was called.

*Knowledge.* A request whose copy is what the row still has writes every column
it means to (`ItemSaved`). Its move into a status that customers see, or that
leads to one, begins in such a status (`OnlyFromReviewed`), where an edit keeps
the content or sends it back to DRAFT, or is an approval of what the row says;
so the row stays reviewed (`StaysReviewed`, for edits, approvals and archiving).
The premise is about the row and not about its history, so others may have
written over each other before.

*Tenants.* A request acts on copies, so the invariant is about the copies:
`CopiesAllowed` says that a copy past WAITING_PAYMENT, or a position of the
pipeline behind it, was paid for or released (`wasPaid \/ released`), and
`GateSeen` that what the gate and the pipeline look at now is in the ghosts
already. The gate and the commit to ACTIVE are one step, from which
`ActiveTenantsWereReady` and `ActiveTenantsWerePaidFor` follow.

*Usage.* `SumsTrusted`: the sum a request has read is at most what is used by
now, and once it has recorded, its own on top of it; records are never taken
back. `OverlapIsBounded` needs a sum over the requests: what is used under a
limit, plus what the requests have measured and not recorded, is at most the
highest grant plus the largest part of each session but one (`Room`). A request
that a limit holds back has seen room for its own part, and the others can have
one part each in flight; recording moves a part from one side to the other.

*The assistant.* `RunsAssigned` and `OneWorker`: a run that has not ended is
that of one session. `ApprovalsKept`: what an agent has asked for is stored, or
is flushed in the session that works on its run; the commit that ends the run,
in FAILED too, stores it. The plan is consumed agent by agent, which needs the
lemmas on `SubSeq` (`PlanRests`).

Model-checked only: liveness (`SettlementIsApplied`), which is out of the
prover's reach, and the properties that a run refutes.

## Disagreements between code and text

Shown by a run that must find a violation, and listed as findings:

1. `settlement_activation`: `payments.py:145` and `:238` promise an idempotent,
   atomic confirmation; the commit inside `update_status` (`payments.py:160`)
   splits it, and a concurrent duplicate makes the activation be lost.
2. `settlement_card`: `midtrans.py:284` maps capture + accept to SUCCEEDED; the
   key built in `webhooks.py:179` takes it for a duplicate of the challenge.
3. `workflow_repeat`: the decisions document (line 606) excludes repeating
   committed actions; two unlocked approvals, or an approval of a cancelled
   execution, perform an action again.
4. `refund_once`: `refunds.py:81` promises idempotent execution; a stale
   decision turns EXECUTED into APPROVED and the request is paid again.
5. `orders_repeated`: `domain.py:427` promises an atomic deduction; an order
   that lists a product twice deducts its last line only, since the second
   locking select overwrites the unflushed first deduction.
6. `knowledge_review`: `business_service.py:425` says that a change of content
   must reset the status, and the source-of-truth matrix (line 101) puts a
   review before ACTIVE; an edit that was read before an approval writes its
   content over the approved row and the status stays APPROVED.

Met while modelling; the models do what the code does, and no run is about it:

* `usage.py:59` calls the enforcement atomic, and nothing is locked. Its only
  caller, the gateway, records after the answer with policy WARN, so the AI
  credit limit is never enforced; recording commits the webhook's session.
* Nothing writes the `verified_payment` metadata that the gate reads
  (`lifecycle.py:490`): no tenant on a plan that costs something becomes
  ACTIVE.
* The provisioner sets READY or CONFIGURING past the transition table
  (`provisioner.py:179-189`), and a transition by name goes from
  WAITING_PAYMENT to PAID without a look at the payment.
* The content of an OUTDATED item can be changed and the item set ACTIVE in one
  request without a review (`business_service.py:424` looks at APPROVED and
  ACTIVE only).
* The orchestrator's test expects COMPLETED or PARTIAL
  (`tests/test_owner_ai_orchestrator.py:40`). A task with an agent is created
  ASSIGNED, which can become neither COMPLETED nor FAILED (`task_state.py`), so
  the updates at `orchestrator.py:164` and in the except clause are refused and
  a run with an agent ends FAILED though every agent has answered.
* A message is answered although a human took the conversation over between the
  routing and the sending (against
  `Docs/AI_BOS_R3_SIDE_EFFECT_BOUNDARY_v1.0.md:67`); a handoff can make a
  conversation active again that was closed meanwhile (`webhooks.py:566`).
* A timeout of the provider is recorded as FAILED, where the same document
  (line 64) asks for UNKNOWN. `send_text`, `send_media` and `send_template` are
  tried up to three times, against the comment at `service.py:421`. What
  Midtrans refuses is recorded as COMPLETED, and a repeat with the key returns
  the refusal.
* The cancel route writes a payment CANCELLED without its table or a lock
  (`api/v1/integrations.py:707`, `CommitCancel`): a payment that a webhook
  settled meanwhile is CANCELLED while its invoice is PAID and its subscription
  active, and can neither be refunded nor settled any more.
* Refunds of zero and of negative amounts are accepted (`refunds.py:38`).
* A commit in the middle of a workflow's action followed by a crash leaves the
  execution RUNNING, or waiting on an approval that is already APPROVED
  (`usage.py:135`, `CommitWithin`); nothing takes either up again.
* A connect and a disconnect that overlap leave an ACTIVE connection with a
  revoked credential (the converse of `DisconnectedIsRevoked` does not hold);
  two first connects create two rows, after which connecting raises; a late
  token refresh puts an older credential back.
* An assignment on a stale copy revives a CANCELLED task. A database error
  inside an orchestration leaves the run unfinished. `/tasks/{id}/complete` can
  complete nothing that the application has created.
* `POST /executions/{id}/cancel` looks at three of the five terminal statuses
  and writes without the table (`workflow_executions.py:87`): an execution that
  is TIMED_OUT or BLOCKED becomes CANCELLED (`LoadToStop`).
* The Redis bus is called durable (`redis.py:16`) and never asks for its
  pending messages again.
* A proposal of a memory stays PENDING for ever, since `POST /memory/proposals`
  saves directly; the key of an expired memory can never be saved again
  (`memory/service.py:73`).

## Not modelled

* `FakePaymentProvider` and the generic `POST /billing/webhooks/payment`
  (development only; with Midtrans configured its secret does not verify).
* Who may call what (authentication, permissions, approver identity; OAuth
  state and token validation), audit rows, correlation ids, logging, encryption
  of credentials, formatting of numbers and names.
* The AI gateway, context assembly and prompts: text in, text out. What a model
  or a classifier says is a free choice wherever a module needs it. Memories
  are single reads and writes.
* `core/handoff_state.py`, which nothing in `app` uses, and the subscribers of
  the event bus, of which there are none.
* The `rest_api` and `webhook` adapters of the integrations, which perform
  nothing outside.
* Customers, business profile, policies and categories: rows that are created,
  read and overwritten by single requests. Quotations and the plan catalogue.
* Analytics (read-only), schemas, migrations, front end.
* HTTP clients of the adapters: what they answer is a choice of the environment.

## Plan

Done, in this order: `BillingStates`, `PaymentSettlement`, `PaymentLedger`;
`WorkflowApproval`; `RefundExecution`, `RefundLedger`; `OrderStock`,
`StockLedger`; `InboundMessaging`; `IntegrationConnections`; `TenantLifecycle`;
`UsageLimits`; `AgentTasks`; `KnowledgeReview`; `EventBus`; proofs of the
safety properties and the refinements of all of them.

Left, in order of importance:

1. The refund's parts in the settlement model, where a refund is one step now:
   the money out and the commit lost while a webhook or a cancellation waits.
2. The messaging module over the integration module, with the key of the reply
   as the interface, in place of `ProviderAccepts`.
