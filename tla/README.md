# Formal model of the regional payment gateway

TLA+ modules that model how the gateway turns payments at regional providers into items in AGS (AccelByte Gaming
Services), and takes them back on a refund, with the TLC runs that check them on small instances and TLAPS proofs for
every instance. Paths below are relative to the repository.

## The system

Players pay at external providers (Xendit, KOMOJU, or a generic HTTP provider); the gateway keeps one row per payment in
DocumentDB and grants the bought item through AGS. All interaction between the parts goes through that row.

| component | state it keeps | operations | what makes it correct |
| --- | --- | --- | --- |
| Transaction store (`internal/store/docdb`) | the rows: status, provider id, retries, refund sub-document | inserts, compare-and-swap claims, **unconditional** updates (`MarkFailed`, `ResetToPending`), scheduler queries, listings | each status change fits those of the others |
| Payment creation (`pkg/service/payment.go`) | none | direct intent; hosted checkout row, then provider selection | no paid session without a row that can be fulfilled |
| Webhook service (`webhook.go`) | none | success: claim, grant, commit; canceled / expired / failed; refund | one grant, only when paid; nothing acknowledged that is not done |
| Scheduler (`scheduler.go`) | the rows it listed (stale copies) | stuck `FULFILLING` rows; expired and pending rows | every row ends; lost webhooks are made up for |
| Sync reconciler (`sync_reconciler.go`) | the row as it was read | asks the provider, then updates the id, fulfils, fails or refunds | agrees with webhook and scheduler |
| Cancellation (`cancel.go`, `public.go`) | the row as it was read; a cooldown per user | cancel a payment, or only the selected provider | never closes a paid row |
| Admin refund (`admin.go`, `refund.go`) | the claim in the refund sub-document | claim, provider refund, AGS reversal, commit | one refund; retries finish it |
| AGS client (`internal/fulfillment`) | none (AGS: grants, wallets, entitlements) | grant (idempotent per order number), reversal (one debit per credit, then revoke) | reversal as a whole or retried |
| Provider adapters (`internal/adapter`) | none (provider: sessions, payments, refunds) | create, query, cancel, refund, webhook parsing | provider states are mapped to what they mean |
| Hosted checkout (`internal/checkout`, the checkout route of `pkg/common/gateway.go`) | pages in memory: selectable for 30 minutes, swept a day later, lost in a restart | post an order, view, select, cancel, cancel the selected provider | the URL a player holds is that of the session the row names; an order is paid once; the limit per user holds |
| Memory store (`internal/store/memory`) | the rows, for tests and local runs | as the DocumentDB store | same compare-and-swap semantics |
| Listings (`admin.go`, `public.go`) | a cooldown per player | cursor pages, bulk sync over pages | each row on one page; a pass ends |

The behaviours that are hard to test: webhooks are duplicated, delayed and lost; the same paid session is seen by a
webhook, a sync and the poller at once; jobs act on rows they listed earlier; every handler can crash or fail between two
round trips; the player replaces one payment session by another while the first one's webhooks are still under way;
some updates look at the status and others do not. `PROJECT.json` lists the hazards at their lines.

## The modules

`TxStore` — the rows, and one operator per store operation. An operation is one server-side update, so it is one atomic
change of `docs`; a compare-and-swap whose filter does not match is disabled and its caller models the error as the
negation of the guard; an update that silently matches nothing changes nothing. `provider_tx_id` is abstracted to the
payment session it resolves to. The age conditions of the scheduler's queries (2 and 5 minutes) are dropped: a row of any
age may be found, which only adds behaviours, as calls to AGS have no deadline.

`PaymentLifecycle` — the request handlers and the two jobs as processes (`Requests`, `Stuckers`, `Pollers`) with a step
counter `pc`, the transaction they work on, the row as they read it (`snap`), the session they got back (`intent`) and
what a job listed (`todo`). One action is one round trip: a store operation, a provider call or an AGS call, with the
decisions that follow from its answer. `Abort` is a crash, or a store or provider call that fails, after which the
handler returns. An error of AGS may have granted the item all the same. The provider's sessions (`sstate`, `stx`) and
AGS (`granted`) are external: a webhook is an action that reads a settled session, so it can come at any time, any number
of times, in any order, or never. Two sets say what a provider is like: `WebhookOnly` are the sessions of one without a
status query (`generic.go:128`), which the poller leaves alone and the deadline expires (`scheduler.go:151`, `185`), and to
which a sync answers `UNSUPPORTED`; `Retriable` are the sessions that read as `FAILED` after an attempt and may be paid by
another one (KOMOJU), whose notice of failure may come at any time.

| actions | code |
| --- | --- |
| `CreateIntent`, `CreateSession`, `DeleteRow` | `PaymentService.CreatePaymentIntent` |
| `CreateCheckout`, `SelectProvider`, `OpenSelected`, `Attach` | `createPendingTransaction`, `CreatePaymentForExistingTransaction` |
| `Cancel`, `CancelAtProvider`, `Unselect`, `UnselectAtProvider`, `Clear` | `cancelPendingTransaction`, `CancelMyTransaction`, `CancelSelectedProviderForExistingTransaction` |
| `Sync`, `SyncQuery`, `UpdateId` | `transactionReconciler.syncTransaction`, `maybeUpdateProviderTxID` |
| `WebhookSuccess`, `WebhookNotPaid` | `WebhookService.HandleWebhook` |
| `Claim`, `FulfillUserItem`, `FulfillFails`, `Commit`, `Reset`, `Fail`, `MarkCanceled`, `MarkExpired` | the claim–grant–commit sequence of webhook, `syncProviderPaid` and `recoverPending`, and their error paths |
| `ListStuck`, `ListExpired`, `ListPending`, `Take`, `Expire`, `CancelExpired`, `Poll`, `Retry` | `SchedulerService` |

`PaymentInvariants` — the inductive invariant `IInv` and `FreshRetries`. `PaymentProofs` — the proofs. `MCPayment` —
symmetry for TLC, and specifications that start from rows whose sessions are already open.

`Refund` — the admin's refund, refund webhooks and refund syncs (`Admins`, `Webhooks`, `Syncers`) on fulfilled rows. The
two round trips of `AtomicClaimRefunding` are two actions (`AdminReads`, `AdminClaims`). The wallet debits are one action
each, because a failure between two of them is what makes retries hard. `RefundProofs` — its inductive invariant `RInv`
(stated in `Refund`) and the proofs. `MCRefund` — for TLC.

`PaymentContract` — the abstract specification: one row seen without processes, sessions or webhooks, as what was paid,
granted, asked back and taken back, and what the row says. It allows the moves of the store's interface and says what must
have happened before: claimed when paid, delivered when granted, closed only while pending, taken back only in a claimed
refund the provider was asked for. `PaymentLifecycle` and `Refund` each instantiate it (`Contract == INSTANCE … WITH …`)
and have `KeepsContract == Contract!Spec` as a property, for their half of a row's life. Two moves are weaker than one
would expect, because the code makes them: any row may fail (`MarkFailed` has no filter), and a `FULFILLED` row may be
reopened (`ResetToPending` after the stuck-row job committed the same row). That the two implement it is proved in
`PaymentProofs` and `RefundProofs`; `PaymentContractProofs` proves what the contract is worth over the whole life of a row.

`StoreProofs` — lemmas about the store operations, used by the proof modules of payments, refunds and the checkout.

`Checkout` — the hosted checkout of one player: orders are posted to the checkout route and to the direct intent, pages
live in the session store, and tabs select, cancel and cancel the selected provider on them, interleaved at every store
operation and every provider call. Pages run out and a restart loses them all. What the webhooks, the jobs and the other
calls do to a row is one step each here (`RowClaimed`, `RowSettles`, `RowCloses`), as far as `PaymentContract` allows it, and
`SyncWritesId` is the write of a sync that read the row earlier: the id of any session a player was sent to, whatever the row
names by now. `provider_tx_id` and `payment_url` (`url`) are kept apart, because that write and a claim change the id alone.
`CheckoutProofs` — its inductive invariant `CInv` and the proofs. `MCCheckout` — symmetry for TLC.

| actions | code |
| --- | --- |
| `Post`, `Insert`, `Find` | `createPendingTransaction`: count, insert, and the row of a known order id; the same steps of `CreatePaymentIntent` |
| `NewPage` | the `POST …/v1/payment/checkout` route and `Store.Create` |
| `OpenIntent`, `DeleteRow` | the rest of `CreatePaymentIntent` |
| `View` | `HandleCheckoutPage`, which links to the payment of a selected provider |
| `Select`, `OpenSelected`, `Attach`, `Compare`, `Fails` | `HandleProviderSelect`, `CreatePaymentForExistingTransaction` |
| `Cancel`, `CancelAtProvider`, `Cancels`, `Expires` | `HandleCancel`, `cancelPendingTransaction` |
| `Unselect`, `UnselectAtProvider`, `Clear` | `HandleCancelSelectedProvider`, `CancelSelectedProviderForExistingTransaction` |
| `PageRunsOut`, `Restart` | `GetValidForSelection`, `sweep`; the process ends and starts again |
| `SyncWritesId` | `maybeUpdateProviderTxID` of a sync with an older copy of the row |

`Listing` — passes over the pages of `ListTransactions`: the admin's listing, the admin's sync (`SyncTransactions`) and the
player's (`SyncMyTransactions`, with its cooldown), on either store, while rows are inserted, deleted and change what they
match between two calls, and while each row of a page is synced. Rows are a set; `created` ranks them by `created_at`, and
their ids are numbers in any order, as UUIDs are compared as strings and their order is not that of creation. A page is the
first rows of what is found, newest first (`First`): those with fewer newer ones than the page has places. Two rows are never
created at the same time (`Distinct`); DocumentDB leaves their order open then. `ListingProofs` — its inductive invariant
`LInv` and the proofs. `MCListing` — values for TLC.

`AdapterStatus` — how the three adapters translate the providers' words and merge what Xendit's resources report, as
operators without state. `Providers` — the adapter calls (query, sync, cancel, webhooks) of one payment, one action per
round trip, while the provider moves on: the session settles, refunds start and settle, Xendit's resources (session,
payment request, payment, history) catch up one by one, and payments of an open KOMOJU session fail and are followed by others
(`AttemptFails`, `TriesAgain`; `failed` says whether the current payment failed, or an earlier one that a row may name). `answer` is what the last call told the gateway.
`ProviderProofs` — its inductive invariants `PInv` and `RefundInv` and the proofs. `MCProviders` — three configurations of a
generic provider.

| actions | code |
| --- | --- |
| `SyncReadsSession`, `SyncReadsRequest`, `SyncReadsPayment`, `SyncReadsHistory`, `SyncReadsRefunds`, `SyncReplies` | `SyncTransactionStatus` and `collectTransactionHistory` of the Xendit adapter |
| `XenditQuery`, `XenditCancel`, `Webhook`, `RefundWebhook` | `GetPaymentStatus`, `CancelPayment`, `parsePaymentSessionWebhook`, `parseRefundWebhook` |
| `KomojuGetsSession`, `KomojuGetsPayment` | `GetPaymentStatus`, `SyncTransactionStatus` of the KOMOJU adapter (a 404 for a session leads to the payment) |
| `KomojuCancelsSession`, `KomojuCancelAsks`, `KomojuCancelsPayment` | its `CancelPayment`: cancel, on 404 or 422 ask, and cancel the payment |
| `GenericQuery`, `GenericSync`, `GenericCancel` | the generic adapter, as far as it is configured |

`Providers` assumes of the outside: a Xendit or generic session is attempted once (the adapters read one payment of it);
canceling the current payment of a KOMOJU session ends the session; a provider refunds no more than was paid; a
generic provider calls its states by the configured words and has a success word (`GenericConfig`, which
`ConfigsAssumption` states), and refuses what it cannot cancel when its cancel answers without a status.

`MemoryStore` — the in-memory store; `Stores` — it and `TxStore` in lockstep: every call goes to both, and `said` holds
the two answers. `StoresProofs` — the proofs that they agree.

Definitions named `X_Something` just before a definition `X` are deliberately broken variants that show which property
notices; no specification uses them.

## What the runs check

A system whose payments and refunds have all ended does stop, so deadlock is not an error where the cfg says
`CHECK_DEADLOCK FALSE`; in `stores` that is when all rows are stray (see below), in `checkout` when orders, rows and pages
are used up. `providers` and `listing` never stop.

| run | shows |
| --- | --- |
| `lifecycle` | `ClaimMutex`, `FulfilledIsGranted`, `ClosedStaysClosed`, and the contract (`KeepsContract`): requests against each other and the stuck-row job |
| `scheduler` | `NoUnpaidGrant`, `RetryLimit`, the inductive invariants, and that no row stays `PENDING` or `FULFILLING` (`EveryPaymentEnds`): a request against both jobs |
| `lost_webhook` | an attached session that is paid at a provider with a status query is fulfilled without any webhook, over a fault (`PaidIsFulfilled`), next to a row at a webhook-only provider |
| `refund` | `RefundMutex`, `RefundedIsReversed`, `NoFreeReversal`, `RefundedIsFinal`, the inductive invariant, the contract, and that a claimed refund ends unless its handler crashed (`RefundEndsUnlessCrashed`) |
| `providers` | `PaidIsPaid`, `ClosedIsClosed`, `RefundedIsRequested`: no adapter reports a payment that was not made, an end while somebody can still pay - KOMOJU only if a payment of the session did fail -, or a full refund nobody asked for; `PaidIsSeen`: a payment that was settled before a query or sync is reported |
| `stores` | `StoresAgree`, `AnswersAgree`: the memory store holds the rows of the DocumentDB store and lets the same callers win |
| `checkout` | `PendingBound`: concurrent posts exceed the limit by no more than they are; `SentIsAttached`: the payment URL a player holds is that of the session the row names, over racing tabs and stale cancels, unless a stale sync wrote another id over that very session; `OnePaymentPerOrder`: reposts, races and restarts lead to one payment |
| `listing` | `PassEnds`: no pass over the pages goes on for ever; `CursorMovesOn`: each cursor is strictly behind the last one; `PassComplete`, `ShownOnce`: each row that stays is shown, and once - in memory, and on DocumentDB when ids are in the order of creation |

These runs show the code at odds with what its documents say (`findings` in `PROJECT.json` quotes the lines):

| run | shows |
| --- | --- |
| `expiry_race` | the poller expires a row although the provider's cancel answers that it is paid |
| `debited_twice` | a retried reversal debits wallets that were debited before |
| `pending_refund` | a Xendit sync reports `REFUNDED` for refunds that are pending or failed |
| `paging` | on DocumentDB a pass over the pages skips rows: the cursor compares `_id`, the sort is on `created_at` |

What the modelling showed without a run of its own, because the code acknowledges it or no document speaks of it:

- The direct flow never stores the session id (`payment.go:145`), so the poller cannot make up for a lost webhook, and a
  paid intent expires (`scheduler.go:173`).
- A late webhook of a session the player gave up closes the row to which a second session was attached, which is then paid
  for nothing: webhooks of ends are matched by the order id only (`webhook.go:106`).
- At a provider without a status query a lost webhook is not made up for: the poller gets `ErrNotSupported`
  (`scheduler.go:185`), waits, and expires the row, paid or not. `PaidIsFulfilled` is therefore about sessions outside
  `WebhookOnly`; `EveryPaymentEnds` holds for all.
- KOMOJU reports a failed attempt as `FAILED` while its session can still be paid (`komoju.go:188`); the row is marked `FAILED`,
  and a payment made afterwards is not fulfilled. `ClosedIsClosed` states what such a report is worth, and `PaidIsFulfilled`
  leaves `Retriable` sessions out.
- A sync writes the id of the session it read whatever the row names by then (`sync_reconciler.go:73`, `docdb.go:215` has no
  filter): it reads the row with one session, the player cancels that one and is sent to a second one, and the first one's id
  is written over the second's, which the poller then no longer asks about. A row that was only cleared gets its canceled
  session's id back without a payment link. `SentIsAttached` takes the sessions that were replaced so out (`overwritten`), and
  holds for all others; without `overwritten` a run finds this sequence.
- With two sessions for one row the poller asks only about the one the row names, so `PaidIsFulfilled` is about rows with one.
- KOMOJU's idempotency key of a session is the order id (`komoju.go:101`): selecting KOMOJU again after canceling it returns
  the session that was canceled (`Returns`).
- A tab that was rendered earlier can cancel a payment while the player pays in another; the provider's answer decides.
- A post of an order id that is already known is refused when the user is at the limit: rows are counted
  (`payment.go:432`) before the order id is looked up (`payment.go:464`), and the row itself counts.
- `ResetToPending` (`docdb.go:354`) reopens a row that the stuck-row job committed meanwhile; it is granted again under the
  same order number.
- In memory a pass ends early when the row of its cursor is deleted between two pages (`memory.go:213`).
- A player's page size above 100 that the configuration allows falls back to 20 in the store (`docdb.go:241`).
- A crash or a failing store call between a refund's claim and its commit leaves the row `REFUNDING`, which no call claims
  again (`docdb.go:386`); `RefundEndsUnlessCrashed` excludes it.
- A repeated refund webhook is acknowledged while the first one is still reversing (`webhook.go:203`); when that reversal
  then fails, only an admin can finish it.
- `MarkFailed` looks at no status: a `FULFILLED` row becomes `FAILED` when a second session of it fails, or when Xendit
  reports a failed refund by webhook (`xendit.go:583`).
- A direct intent's row is deleted after an ambiguous error of the provider, who may have opened the session.
- `AtomicClaimRefunding` decides by an older read whether to reset `provider_refunded`.
- The webhook of a partial refund maps to `REFUNDED` whatever its amount (`xendit.go:577`), and everything is reversed.
- A generic provider without a configured success value reads a missing status as `SUCCESS` (`generic.go:408`).
- `CommitFulfilled` of the memory store has no filter on `FULFILLING`; `stores` stops comparing such rows (`stray`).

### Bounds

Rows do not influence each other (every action reads and writes one row, and the session belongs to one), so the runs
of the handlers have one transaction (`lost_webhook` has two, each with a session of its own, of which one is at a webhook-only
provider); the proofs are for any set. Two sessions are needed for the races between an abandoned and a
current session, one is enough where these are not the question. Two requests are needed for the races between handlers;
with both jobs one request keeps the space small, and `lifecycle` and `scheduler` share the properties' actions between
them. `MaxFaults` bounds errors and crashes: two, so that an error path can itself be interrupted. In `lost_webhook`
`MaxFaults` is not above `MaxRetries` (1), because a row is meant to fail when AGS keeps failing. In `lifecycle` both sessions
are retriable, in `scheduler` one is and the other is at a webhook-only provider. In `Refund`
two credits make a reversal that can stop half-way, two errors let a retry fail too, and two admins race for the claim.
`debits` saturates at 2 ("more than once"). In `Providers` the amount is 2 and there are two refunds, so that one may be
partial and two together full, and the configurations of the generic provider are: nothing optional, everything, and one
without a refund word whose cancel names no status. In `Stores` two rows and two sessions show that a call changes no
other row and compares ids; `MaxIncrements` = 1 bounds `retries`. In `Checkout` two requests race, three orders and rows
go over a limit of one, two pages and two sessions make two tabs with one selection each, and `MaxEvents` = 1 allows one
error, restart, claim or sync from elsewhere (what follows a claim is not counted; one sync is enough to replace a session). In `Listing` there are three rows
and one more id, pages of one and of two rows from the sizes a client asks for (none, and one too large), and two changes
between pages; a row shown twice or more counts as 2. Symmetry (of requests, sessions, refunds, rows, orders and pages) is
used in safety runs only.

### Fairness

`Fairness` is weak fairness of the steps of handlers and jobs: goroutines that were started run on, and the tickers
(`SchedulerService.Start`) fire again and again. The poller runs both of its queries at every tick, so each of them has
strong fairness of its own: otherwise it could list expired rows for ever. `DeadlinePasses` is fair because time passes.
Nobody has to open a page, select, pay or cancel. Webhooks are fair only in the specifications that say so: with it, a
provider that repeats a webhook until it is answered, which both providers' documentation promises. Crashes and errors
are never fair, and bounded. In `FairSpec` of `Refund` only the handlers are fair. In `Listing` a client that began a pass
asks for the next page (a refused player tries again), the rows of a page are synced, and a cooldown ends; syncs of the same
player from elsewhere, which start it anew, are bounded by `MaxEvents`.

## What is proved

TLAPS proves for every value of the constants (sets of any size, any bounds):

- `PaymentProofs`: `IInv` is invariant, hence `TypeOK`, `ClaimMutex`, `NoUnpaidGrant`, `FulfilledIsGranted`, and the
  action property `ClosedStaysClosed`; for one loop of the stuck-row job, `RetryLimit` through `FreshRetries`; and
  `Spec => KeepsContract`, the refinement of `PaymentContract`.
- `RefundProofs`: `RInv` is invariant, hence `TypeOK`, `RefundMutex`, `RefundedIsReversed`, `NoFreeReversal`, and the
  action property `RefundedIsFinal`; and `Spec => KeepsContract` for the other half of a row's life.
- `PaymentContractProofs`: whoever keeps the contract grants only what was paid (`NothingForFree`), takes back only what was
  granted and asked back at the provider (`NothingLost`), and forgets nothing of either (`NothingUndone`).
- `CheckoutProofs`: `CInv` is invariant, hence `TypeOK`, `PendingBound`, `SentIsAttached` and `OnePaymentPerOrder`.
- `StoresProofs`: `Agreement` is invariant, hence `StoresAgree` and `AnswersAgree`; and `TypeOK`.
- `ProviderProofs`: `PInv` is invariant, hence `PaidIsPaid`, `ClosedIsClosed` and `PaidIsSeen`, for every configuration in
  `GenericConfig`; `RefundInv` is, hence `TypeOK` and `RefundedIsRequested`, for any amount and any number of refunds;
  `RefundedElsewhere`, and that a merge never weakens a refund status (`MergeKeepsStronger`).
- `ListingProofs`: `LInv` is invariant, hence `TypeOK`, `PassComplete` and `ShownOnce`, and the action property
  `CursorMovesOn`, for any number of rows and any page sizes.

The assumptions are those of the modules: the kinds of processes are disjoint, the bounds are naturals, "no id" is not an
id, a sync reports only refunds that exist, there are finitely many of these, the configurations of a generic provider are in
`GenericConfig`, the default page size of the stores is positive and not above their largest, and in `Checkout`, where rows
are counted, there are finitely many rows and requests. All of them are stated in the modules and evaluated by TLC.

*Payments.* `ClaimMutex` is not inductive: that a row may only be claimed when nobody holds it follows from statuses, but
the unconditional `ResetToPending` and `MarkFailed` and the stuck-row job's commit write statuses without holding the
row. `IInv` adds that nobody holds a row that is absent, pending, canceled or expired (`NoHolder`), that only requests
reset rows and only those that they hold (`Roles`), that every copy of a provider id anywhere (row, process, listing)
is of a session of that very transaction (`OwnSessions`), that steps beyond a claim are reached only for paid rows
(`OnlyPaid`), and that a commit follows a grant (`GrantBeforeCommit`). The proof has one lemma per conjunct and one step
per action. `FreshRetries` says that the copy the job listed still has the row's retries; it needs that there is one
such loop, and that a listing holds a row once.

*Refunds.* `RefundMutex` alone is inductive only with the types; `RefundedIsReversed` needs what a running reversal has
taken back (`ReversalSteps`), and `NoFreeReversal` needs that what is recorded of the provider, and everyone who
reverses, followed a refund there (`AskedFirst`). The steps are proved by kind (a claim, a step on, a step of the
reversal, an end, a change at the provider), and each action is reduced to its kind.

*Stores.* `StoresAgree` alone is not inductive: `Agreement` adds that the memory store holds exactly the rows of the
collection, that stray rows keep their types, and that a row not inserted yet has no fields. One lemma (`UpdateKeeps`)
covers every call that both stores make as a check and an update; each call is reduced to it by a lemma of its own.

*Contract.* Each step of a handler is shown to be a move of the contract or a stutter, from the invariants above: a claim
needs `OnlyPaid` (a claim is reached only for a paid row), a commit `GrantBeforeCommit`, a reset `Roles` and `NoHolder`
(nobody resets a closed row), the end of a reversal `ReversalSteps` and `AskedFirst`. Steps that write nothing the contract
sees (reads, provider calls, retries, provider ids, crashes) are reduced to a stutter by one lemma (`Unseen`, `UnseenStep`).

*Checkout.* None of the three properties is inductive. `SentIsAttached` needs what a request is about to do (`SaneRequests`:
a session it attaches was opened for its row), that sessions belong to one row, and that a row names only sessions of its own
(`SessionsOwned`); it also needs that the URL of a row leads to the session it names, but where a claim or a stale sync changed the id alone
(`UrlNamed`). `OnePaymentPerOrder` needs that a page carries the order of its row (`SanePages`) and that a row exists for
an order at most once (`OrdersUnique`). `PendingBound` follows from `Room`: the rows that wait, together with the requests
between the count and the insert, are at most `MaxPending + Cardinality(Requests) - 1` - a post passes the count only
below `MaxPending` and adds one request, an insert turns one such request into a row, and everything else takes away. Most
steps are *calm* (no row starts to wait, no link changes), and one lemma covers them all; the others - inserting a row, opening,
attaching and clearing a session, a claim, and the write of a stale sync - have a lemma each.

*Adapters.* An answer is given at the end of several round trips, while the provider moves, so `PInv` says of a running call
that what it has read so far - the merged status, the records of the history, the listed refunds - fits the session as it is
*now* (`CallTrue`): a session that settled stays settled, a paid one can only be voided, and a payment that failed has failed
for good (`Moves`). `PaidIsSeen` needs
more: a sync of a payment that some certain read showed as settled before it began has merged it, or that read is still to
come (`SyncSees`), so no read may be skipped (`NextReadFacts`) and no merge may forget (`MergeKeeps`,
`SummaryOnlyRefunds`). Of the resources it needs that they show only states the session was in (`World`).

*Refunds at the adapters.* `RefundedIsRequested` is about sums, so `RefundInv` says that every record and every listed item
a call has read is a refund that was made, with its amount, and that none is there twice (`ReadTrue`): what an answer adds up
then maps one-to-one into the refunds (`SumInjected`) and is at most `Asked`. The facts about sums over finite sets are proved
first, for any finite set: a sum exists and has its recursive equation (`SumExists`, `SumEquation`, `SumRemove`). The
library's induction theorems take the property as an operator, so the lemmas instead use that strict inclusion is
well-founded on the subsets of a finite set, with the property as a set of sets (`StrictSubsetInduction`, `SubsetInduction`).
`RefundedElsewhere` is what `pending_refund` finds violated for Xendit, stated for the other two adapters: there, `REFUNDED`
means that refunds of the whole amount succeeded.

*Listings.* `Left(i)` says that row `i` is behind the cursor in the order a store pages by: older in memory, with a smaller id
on DocumentDB. `ShownOnce` needs that nothing shown is left (`NoneAgain`), `PassComplete` that what was not shown is
(`NoneSkipped`), and both that cursor, `ordered` and `lost` are what they say (`Coherent`). One page is cut in one lemma
(`OnePage`): the rows shown are newer than the rest of what was found, its cursor is the oldest of them, and without a next
cursor everything found is shown. It needs that a finite set has a least element (`HasLeast`), and that counting newer rows
cuts off the newest ones (`FirstRows`).

Every invariant and every safety property of the passing runs is now a theorem. Only model-checked: the liveness properties
`EveryPaymentEnds`, `PaidIsFulfilled`, `RefundEndsUnlessCrashed` and `PassEnds`, because fairness is out of
the prover's reach (for `PassEnds` the part that is safety, a cursor that always moves on, is `CursorMovesOn`); and the
violation runs.

## What is not modelled, and why

- Signature checks, parsing, permissions and namespaces end a call before any state changes. Logging, notifications (fire
  and forget) and responses carry no state.
- The lookup and conversion of prices (`payment.go:333`) is arithmetic on one request, with nothing to interleave.
- The TTL index deletes rows days after they ended (`delete_at`).
- The adapter registry, the configuration and the wiring are read once at start. Generated code is not modelled.
- `Providers` has one payment per session of Xendit and of a generic provider. A Xendit sync lets a payment request that failed
  overwrite a session that is still active (`xendit.go:788`); whether such a session can be paid cannot be read from the code.
- The payment and the refund half of a row's life are two modules that meet in `PaymentContract`: a refund that arrives
  before the commit needs both in one module.
- The paging of the fulfillment history in a reversal (`fulfillment.go:148`) is one lookup in `Refund`; its pages come from
  AGS, whose order the code does not state.
- In `Listing` a filter is the set of rows it matches, and a page is one atomic read; what a sync does to a row is in
  `PaymentLifecycle` and `Refund`.

## How the project grew, and what is left

The modules were written in this order: the payment lifecycle, refunds, the adapters, the two stores, then the contract and
the refinements, the hosted checkout and the listings, each with its proofs, then the proofs about the adapters, and last
those about sums of refunds, the listings and the contract itself. Left: the composition of both halves of a row's life, and
several attempts per session of Xendit.
