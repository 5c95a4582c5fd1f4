-------------------------- MODULE PaymentLifecycle --------------------------
(***************************************************************************)
(* The life of a payment, from the request that inserts its row to the     *)
(* item grant in AGS: the request handlers (webhook, create, hosted        *)
(* checkout, cancel, sync) and the two jobs of the scheduler, interleaved  *)
(* at every store operation, provider call and AGS call.  A handler's      *)
(* early return that changes nothing is not a step.                        *)
(*                                                                         *)
(* External parts, modelled from how the code uses them: the payment       *)
(* providers (sstate) and AGS (granted; an order number is granted once).  *)
(* Webhooks may be lost, delayed, duplicated and reordered: the webhook of *)
(* a settled session can be delivered at any time, any number of times.    *)
(***************************************************************************)
EXTENDS TxStore

CONSTANTS
    Requests,   \* goroutines serving HTTP and gRPC requests
    Stuckers,   \* loops of runStuckFulfillmentRecovery, one per instance
    Pollers,    \* loops of runLostWebhookRecovery, one per instance
    WebhookOnly, \* sessions at a provider that has no status query
    Retriable,  \* sessions in which a failed attempt can be followed by another
    MaxRetries, \* MAX_RETRIES of the configuration
    MaxFaults   \* bound on errors and crashes in a behaviour

ASSUME LifecycleAssumption ==
    /\ MaxRetries \in Nat
    /\ MaxFaults \in Nat
    /\ Requests \cap Stuckers = {}
    /\ Requests \cap Pollers = {}
    /\ Stuckers \cap Pollers = {}
    /\ WebhookOnly \subseteq Session
    /\ Retriable \subseteq Session

Jobs == Stuckers \cup Pollers
Proc == Requests \cup Jobs

VARIABLES
    sstate,  \* provider side: state of each payment session
    stx,     \* provider side: the internal order id a session was opened for
    granted, \* AGS side: transactions whose item was granted
    expired, \* transactions whose expires_at has passed
    hosted,  \* transactions that have a hosted checkout page
    faults,  \* errors and crashes so far
    pc,      \* where each process is in its handler
    target,  \* the transaction it works on
    snap,    \* the document it read, as it was then
    intent,  \* the session the provider returned to it
    todo     \* what a job listed and has not processed yet

store    == <<docs>>
provider == <<sstate, stx>>
deadlines == <<expired, hosted>>
local    == <<pc, target, snap, intent>>
vars == <<docs, sstate, stx, granted, expired, hosted, faults,
          pc, target, snap, intent, todo>>

SessionState == {"UNUSED", "PENDING", "SUCCESS", "FAILED", "CANCELED", "EXPIRED"}

Steps == {"idle", "createSession", "deleteRow", "openSelected", "attach",
          "sync", "idThenClaim", "idThenFail", "idThenDone",
          "cancelProvider", "unselect", "clear",
          "expire", "cancelExpired", "poll",
          "claim", "fulfill", "recover", "commit", "resetToPending",
          "incrementRetries", "markFailed", "markCanceled", "markExpired"}

TodoItem == [tx : Tx, doc : Doc, step : {"recover", "expire", "poll"}]

TypeOK ==
    /\ StoreTypeOK
    /\ sstate \in [Session -> SessionState]
    /\ stx \in [Session -> Tx \cup {None}]
    /\ granted \subseteq Tx
    /\ expired \subseteq Tx
    /\ hosted \subseteq Tx
    /\ faults \in 0..MaxFaults
    /\ pc \in [Proc -> Steps]
    /\ target \in [Proc -> Tx \cup {None}]
    /\ snap \in [Proc -> Doc]
    /\ intent \in [Proc -> Session \cup {None}]
    /\ todo \in [Jobs -> SUBSET TodoItem]

ProviderInit ==
    /\ sstate = [s \in Session |-> "UNUSED"]
    /\ stx = [s \in Session |-> None]

ProcInit ==
    /\ granted = {}
    /\ expired = {}
    /\ faults = 0
    /\ pc = [p \in Proc |-> "idle"]
    /\ target = [p \in Proc |-> None]
    /\ snap = [p \in Proc |-> NoRow]
    /\ intent = [p \in Proc |-> None]
    /\ todo = [j \in Jobs |-> {}]

Init == StoreInit /\ hosted = {} /\ ProviderInit /\ ProcInit

-----------------------------------------------------------------------------
\* Control flow of a process

Idle(p) == pc[p] = "idle"

\* Read the document of t and continue with step.
Begin(p, t, doc, step) ==
    /\ pc' = [pc EXCEPT ![p] = step]
    /\ target' = [target EXCEPT ![p] = t]
    /\ snap' = [snap EXCEPT ![p] = doc]
    /\ UNCHANGED intent

Goto(p, step) ==
    /\ pc' = [pc EXCEPT ![p] = step]
    /\ UNCHANGED <<target, snap, intent>>

Done(p) ==
    /\ pc' = [pc EXCEPT ![p] = "idle"]
    /\ target' = [target EXCEPT ![p] = None]
    /\ snap' = [snap EXCEPT ![p] = NoRow]
    /\ intent' = [intent EXCEPT ![p] = None]

Fault == faults < MaxFaults /\ faults' = faults + 1

\* A store operation op of process p, after which the handler returns.
Finally(p, step, op) ==
    /\ pc[p] = step
    /\ op
    /\ Done(p)
    /\ UNCHANGED <<provider, granted, deadlines, faults, todo>>

\* A crash of the process, or a store or provider call that fails: every
\* handler then returns and leaves the documents as they are.  A crash also
\* loses what a job had listed.
Abort(p) ==
    /\ ~Idle(p)
    /\ Fault
    /\ Done(p)
    /\ \/ UNCHANGED todo
       \/ p \in Jobs /\ todo' = [todo EXCEPT ![p] = {}]
    /\ UNCHANGED <<store, provider, granted, deadlines>>

-----------------------------------------------------------------------------
\* The environment: the provider's side of a session, and time

\* The provider opens session s for the order t.
Opens(s, t) ==
    /\ sstate[s] = "UNUSED"
    /\ sstate' = [sstate EXCEPT ![s] = "PENDING"]
    /\ stx' = [stx EXCEPT ![s] = t]

\* A KOMOJU session whose payment failed stays open: it reads as FAILED until
\* the player tries again.
SessionSettles(s) ==
    /\ \/ /\ sstate[s] = "PENDING"
          /\ \E outcome \in {"SUCCESS", "FAILED", "CANCELED", "EXPIRED"} :
                sstate' = [sstate EXCEPT ![s] = outcome]
       \/ /\ s \in Retriable /\ sstate[s] = "FAILED"
          /\ sstate' = [sstate EXCEPT ![s] = "PENDING"]
    /\ UNCHANGED <<store, stx, granted, deadlines, faults, local, todo>>

DeadlinePasses(t) ==
    /\ docs[t].status # "ABSENT"
    /\ t \notin expired
    /\ expired' = expired \cup {t}
    /\ UNCHANGED <<store, provider, granted, hosted, faults, local, todo>>

\* What CancelPayment answers for session s ("NO": still pending, not
\* supported, failed, or an error); an open session is canceled by the call,
\* or not, and the answer "NO" says nothing about which.
CancelAnswer(s, answer) ==
    /\ \/ UNCHANGED sstate
       \/ sstate[s] = "PENDING" /\ sstate' = [sstate EXCEPT ![s] = "CANCELED"]
    /\ \/ answer = "NO"
       \/ answer = "CANCELED" /\ sstate'[s] \in {"CANCELED", "FAILED"}
       \/ answer = "EXPIRED" /\ sstate'[s] = "EXPIRED"
       \/ answer = "PAID" /\ sstate'[s] = "SUCCESS"
    /\ UNCHANGED stx

-----------------------------------------------------------------------------
\* Creating payments

CreateIntent(r, t) ==
    /\ Idle(r)
    /\ CreateTransaction(t)
    /\ Begin(r, t, NoRow, "createSession")
    /\ UNCHANGED <<provider, granted, deadlines, faults, todo>>

\* The direct flow returns the payment URL and never attaches the session.
\* A provider error makes the handler delete the row, whether or not the
\* provider opened the session before it failed to answer.
CreateSession(r) ==
    /\ pc[r] = "createSession"
    /\ \/ \E s \in Session : Opens(s, target[r]) /\ Done(r) /\ UNCHANGED faults
       \/ UNCHANGED <<provider, faults>> /\ Goto(r, "deleteRow")
       \/ \E s \in Session : Opens(s, target[r]) /\ Fault /\ Goto(r, "deleteRow")
    /\ UNCHANGED <<store, granted, deadlines, todo>>

DeleteRow(r) == Finally(r, "deleteRow", DeleteTransaction(target[r]))

\* A new row, or the row that already has the client_order_id, whatever its
\* status and whichever flow created it, gets a checkout page.  (A page is
\* dropped after 30 minutes, or by a restart; that only removes behaviours.)
CreateCheckout(t) ==
    /\ \/ CreateTransaction(t)
       \/ Exists(t) /\ UNCHANGED docs
    /\ hosted' = hosted \cup {t}
    /\ UNCHANGED <<provider, granted, expired, faults, local, todo>>

SelectProvider(r, t) ==
    /\ Idle(r)
    /\ t \in hosted
    /\ Pending(t)
    /\ docs[t].providerTxID = None
    /\ Begin(r, t, docs[t], "openSelected")
    /\ UNCHANGED <<store, provider, granted, deadlines, faults, todo>>

\* The provider opens session s for t or, asked with the idempotency key of an
\* earlier request for t (KOMOJU), answers with the session it opened then,
\* whatever became of it.
Returns(s, t) ==
    \/ Opens(s, t)
    \/ sstate[s] # "UNUSED" /\ stx[s] = t /\ UNCHANGED provider

OpenSelected(r) ==
    /\ pc[r] = "openSelected"
    /\ \/ \E s \in Session :
             /\ Returns(s, target[r])
             /\ pc' = [pc EXCEPT ![r] = "attach"]
             /\ intent' = [intent EXCEPT ![r] = s]
             /\ UNCHANGED <<target, snap, faults>>
       \/ UNCHANGED provider /\ Fault /\ Goto(r, "markFailed")
       \/ \E s \in Session : Opens(s, target[r]) /\ Fault /\ Goto(r, "markFailed")
    /\ UNCHANGED <<store, granted, deadlines, todo>>

Attach(r) ==
    Finally(r, "attach", AttachProviderTransaction(target[r], intent[r]))

-----------------------------------------------------------------------------
\* Canceling payments

Cancel(r, t) ==
    /\ Idle(r)
    /\ Pending(t)
    /\ Begin(r, t, docs[t],
             IF docs[t].providerTxID = None THEN "markCanceled" ELSE "cancelProvider")
    /\ UNCHANGED <<store, provider, granted, deadlines, faults, todo>>

\* CancelMyTransaction syncs the transaction it read when the provider says
\* it is already paid; the hosted checkout's cancel only returns.
CancelAtProvider(r) ==
    /\ pc[r] = "cancelProvider"
    /\ \E answer \in {"NO", "CANCELED", "EXPIRED", "PAID"} :
          /\ CancelAnswer(snap[r].providerTxID, answer)
          /\ \/ answer = "CANCELED" /\ Goto(r, "markCanceled")
             \/ answer = "EXPIRED" /\ Goto(r, "markExpired")
             \/ answer = "PAID" /\ Goto(r, "sync")
             \/ answer \in {"PAID", "NO"} /\ Done(r)
    /\ UNCHANGED <<store, granted, deadlines, faults, todo>>

Unselect(r, t) ==
    /\ Idle(r)
    /\ t \in hosted
    /\ Pending(t)
    /\ docs[t].providerTxID # None
    /\ Begin(r, t, docs[t], "unselect")
    /\ UNCHANGED <<store, provider, granted, deadlines, faults, todo>>

UnselectAtProvider(r) ==
    /\ pc[r] = "unselect"
    /\ \E answer \in {"NO", "CANCELED", "EXPIRED", "PAID"} :
          /\ CancelAnswer(snap[r].providerTxID, answer)
          /\ \/ answer \in {"CANCELED", "EXPIRED"} /\ Goto(r, "clear")
             \/ answer \in {"PAID", "NO"} /\ Done(r)
    /\ UNCHANGED <<store, granted, deadlines, faults, todo>>

\* The filter compares ids: it also fails when the id of the same session has
\* been replaced by its payment id in the meantime.
Clear(r) ==
    Finally(r, "clear",
            \/ ClearProviderTransactionIfPending(target[r], snap[r].providerTxID)
            \/ UNCHANGED docs)

-----------------------------------------------------------------------------
\* Reconciliation with the provider (transactionReconciler)

Sync(r, t) ==
    /\ Idle(r)
    /\ Exists(t)
    /\ docs[t].providerTxID # None
    /\ Begin(r, t, docs[t], "sync")
    /\ UNCHANGED <<store, provider, granted, deadlines, faults, todo>>

\* SyncTransactionStatus, then the decision on the document read before: first
\* (maybe) the id update, then the local change.  A provider that has no status
\* query answers UNSUPPORTED and the id it was asked for.
SyncQuery(r) ==
    LET s == snap[r].providerTxID
        answers == s \notin WebhookOnly
        wasPending == snap[r].status = "PENDING"
        paid   == answers /\ wasPending /\ sstate[s] = "SUCCESS"
        failed == answers /\ wasPending /\ sstate[s] \in {"FAILED", "CANCELED", "EXPIRED"}
    IN  /\ pc[r] = "sync"
        /\ \/ paid /\ (Goto(r, "claim") \/ Goto(r, "idThenClaim"))
           \/ failed /\ (Goto(r, "markFailed") \/ Goto(r, "idThenFail"))
           \/ ~paid /\ ~failed /\ Done(r)
           \/ answers /\ ~paid /\ ~failed /\ Goto(r, "idThenDone")
        /\ UNCHANGED <<store, provider, granted, deadlines, faults, todo>>

\* maybeUpdateProviderTxID writes an id of the session the document named
\* when it was read, whatever it names now.
UpdateId(r) ==
    /\ pc[r] \in {"idThenClaim", "idThenFail", "idThenDone"}
    /\ UpdateProviderTransactionID(target[r], snap[r].providerTxID)
    /\ \/ pc[r] = "idThenClaim" /\ Goto(r, "claim")
       \/ pc[r] = "idThenFail" /\ Goto(r, "markFailed")
       \/ pc[r] = "idThenDone" /\ Done(r)
    /\ UNCHANGED <<provider, granted, deadlines, faults, todo>>

-----------------------------------------------------------------------------
\* Webhooks: validated, parsed, and matched by internal order id only

\* Mutant: a notification of a session that is still open counts as payment.
WebhookSuccess_AnyStatus(r, s) ==
    /\ Idle(r)
    /\ sstate[s] \in {"PENDING", "SUCCESS"}
    /\ AtomicClaimFulfilling(stx[s], s)
    /\ Begin(r, stx[s], NoRow, "fulfill")
    /\ UNCHANGED <<provider, granted, deadlines, faults, todo>>

WebhookSuccess(r, s) ==
    /\ Idle(r)
    /\ sstate[s] = "SUCCESS"
    /\ AtomicClaimFulfilling(stx[s], s)
    /\ Begin(r, stx[s], NoRow, "fulfill")
    /\ UNCHANGED <<provider, granted, deadlines, faults, todo>>

\* The notice of a failed attempt may come after the next attempt.
WebhookNotPaid(s) ==
    /\ \/ sstate[s] = "CANCELED" /\ MarkCanceledIfPending(stx[s])
       \/ sstate[s] = "EXPIRED" /\ MarkExpiredIfPending(stx[s])
       \/ sstate[s] = "FAILED" /\ MarkFailed(stx[s])
       \/ s \in Retriable /\ sstate[s] # "UNUSED" /\ MarkFailed(stx[s])
    /\ UNCHANGED <<provider, granted, deadlines, faults, local, todo>>

-----------------------------------------------------------------------------
\* Claim, grant, commit: shared by the webhook, the sync and the poller

Claim(p) ==
    /\ pc[p] = "claim"
    /\ \/ /\ AtomicClaimFulfilling(target[p], snap[p].providerTxID)
          /\ Begin(p, target[p], NoRow, "fulfill")
       \/ /\ ~Pending(target[p])
          /\ Done(p)
          /\ UNCHANGED docs
    /\ UNCHANGED <<provider, granted, deadlines, faults, todo>>

FulfillUserItem(p) ==
    /\ pc[p] \in {"fulfill", "recover"}
    /\ granted' = granted \cup {target[p]}
    /\ Goto(p, "commit")
    /\ UNCHANGED <<store, provider, deadlines, faults, todo>>

\* Mutant: one retry more than the limit.
FulfillFails_OffByOne(p) ==
    /\ pc[p] \in {"fulfill", "recover"}
    /\ Fault
    /\ granted' \in {granted, granted \cup {target[p]}}
    /\ \/ p \in Requests /\ Goto(p, "resetToPending")
       \/ p \in Pollers /\ Done(p)
       \/ p \in Stuckers /\ snap[p].retries > MaxRetries /\ Goto(p, "markFailed")
       \/ p \in Stuckers /\ snap[p].retries <= MaxRetries /\ Goto(p, "incrementRetries")
    /\ UNCHANGED <<store, provider, deadlines, todo>>

\* AGS answers with an error; the item may have been granted all the same.
\* Requests put the row back to PENDING, the poller leaves it FULFILLING, the
\* stuck-row job counts retries on the copy it listed.
FulfillFails(p) ==
    /\ pc[p] \in {"fulfill", "recover"}
    /\ Fault
    /\ granted' \in {granted, granted \cup {target[p]}}
    /\ \/ p \in Requests /\ Goto(p, "resetToPending")
       \/ p \in Pollers /\ Done(p)
       \/ p \in Stuckers /\ snap[p].retries >= MaxRetries /\ Goto(p, "markFailed")
       \/ p \in Stuckers /\ snap[p].retries < MaxRetries /\ Goto(p, "incrementRetries")
    /\ UNCHANGED <<store, provider, deadlines, todo>>

Commit(p) == Finally(p, "commit", CommitFulfilled(target[p]))
\* Mutant: the error path commits the row it claimed.
Reset_Commits(p) == Finally(p, "resetToPending", CommitFulfilled(target[p]))
Reset(p)  == Finally(p, "resetToPending", ResetToPending(target[p]))
Retry(p)  == Finally(p, "incrementRetries", IncrementRetries(target[p]))
Fail(p)   == Finally(p, "markFailed", MarkFailed(target[p]))
MarkCanceled(p) == Finally(p, "markCanceled", MarkCanceledIfPending(target[p]))
MarkExpired(p)  == Finally(p, "markExpired", MarkExpiredIfPending(target[p]))

-----------------------------------------------------------------------------
\* The scheduler: list, then process the copies one by one

Items(txs, step) == {[tx |-> t, doc |-> docs[t], step |-> step] : t \in txs}

Lists(j, items) ==
    /\ Idle(j)
    /\ todo[j] = {}
    /\ todo' = [todo EXCEPT ![j] = items]
    /\ UNCHANGED <<store, provider, granted, deadlines, faults, local>>

ListStuck(j)   == j \in Stuckers /\ Lists(j, Items(FindStuckFulfilling, "recover"))
ListExpired(j) == j \in Pollers /\ Lists(j, Items(FindExpiredPending(expired), "expire"))
ListPending(j) == j \in Pollers /\ Lists(j, Items(FindStuckPending(expired), "poll"))

\* Mutant: a row stays in the list after it was taken.
Take_Keeps(j) ==
    /\ Idle(j)
    /\ \E item \in todo[j] : Begin(j, item.tx, item.doc, item.step)
    /\ UNCHANGED <<store, provider, granted, deadlines, faults, todo>>

Take(j) ==
    /\ Idle(j)
    /\ \E item \in todo[j] :
          /\ todo' = [todo EXCEPT ![j] = @ \ {item}]
          /\ Begin(j, item.tx, item.doc, item.step)
    /\ UNCHANGED <<store, provider, granted, deadlines, faults>>

\* expirePending: ask the provider, then expire the row unless it is paid or
\* canceled there.  An error of the status query expires the row too, and so
\* does a provider that has none.
Expire(j) ==
    LET s == snap[j].providerTxID IN
    /\ pc[j] = "expire"
    /\ \/ s \in {None} \cup WebhookOnly /\ Goto(j, "markExpired") /\ UNCHANGED faults
       \/ s # None /\ Fault /\ Goto(j, "markExpired")
       \/ s \notin {None} \cup WebhookOnly /\ UNCHANGED faults
          /\ \/ sstate[s] = "SUCCESS" /\ Goto(j, "poll")
             \/ sstate[s] = "CANCELED" /\ Goto(j, "markCanceled")
             \/ sstate[s] \in {"EXPIRED", "FAILED"} /\ Goto(j, "markExpired")
             \/ sstate[s] = "PENDING" /\ Goto(j, "cancelExpired")
    /\ UNCHANGED <<store, provider, granted, deadlines, todo>>

\* The answer of CancelPayment is not looked at.
CancelExpired(j) ==
    /\ pc[j] = "cancelExpired"
    /\ \E answer \in {"NO", "CANCELED", "EXPIRED", "PAID"} :
          CancelAnswer(snap[j].providerTxID, answer)
    /\ Goto(j, "markExpired")
    /\ UNCHANGED <<store, granted, deadlines, faults, todo>>

\* recoverPending: a row with no provider id cannot be polled, and a provider
\* without a status query is left to send its webhook.
Poll(j) ==
    LET s == snap[j].providerTxID IN
    /\ pc[j] = "poll"
    /\ \/ s \in {None} \cup WebhookOnly /\ Done(j)
       \/ s \notin {None} \cup WebhookOnly
          /\ \/ sstate[s] = "SUCCESS" /\ Goto(j, "claim")
             \/ sstate[s] = "FAILED" /\ Goto(j, "markFailed")
             \/ sstate[s] = "CANCELED" /\ Goto(j, "markCanceled")
             \/ sstate[s] = "EXPIRED" /\ Goto(j, "markExpired")
             \/ sstate[s] = "PENDING" /\ Done(j)
    /\ UNCHANGED <<store, provider, granted, deadlines, faults, todo>>

-----------------------------------------------------------------------------

Environment ==
    \/ \E s \in Session : SessionSettles(s) \/ WebhookNotPaid(s)
    \/ \E t \in Tx : DeadlinePasses(t) \/ CreateCheckout(t)

RequestStarts(r) ==
    \/ \E t \in Tx : \/ CreateIntent(r, t) \/ SelectProvider(r, t)
                     \/ Cancel(r, t) \/ Unselect(r, t) \/ Sync(r, t)
    \/ \E s \in Session : WebhookSuccess(r, s)

RequestStep(r) ==
    \/ CreateSession(r) \/ DeleteRow(r) \/ OpenSelected(r) \/ Attach(r)
    \/ CancelAtProvider(r) \/ UnselectAtProvider(r) \/ Clear(r)
    \/ SyncQuery(r) \/ UpdateId(r)

JobStep(j) ==
    \/ ListStuck(j) \/ ListExpired(j) \/ ListPending(j)
    \/ Take(j) \/ Expire(j) \/ CancelExpired(j) \/ Poll(j)

\* Steps any process may be at.
CommonStep(p) ==
    \/ Claim(p) \/ FulfillUserItem(p) \/ Commit(p) \/ Reset(p) \/ Retry(p)
    \/ Fail(p) \/ MarkCanceled(p) \/ MarkExpired(p)

Next ==
    \/ Environment
    \/ \E r \in Requests : RequestStarts(r) \/ RequestStep(r)
    \/ \E j \in Jobs : JobStep(j)
    \/ \E p \in Proc : CommonStep(p) \/ FulfillFails(p) \/ Abort(p)

Spec == Init /\ [][Next]_vars

\* Handlers that were started run on and the tickers keep firing (the poller
\* runs both of its queries every time); nobody has to pay, to open a page or
\* to deliver a webhook.
Fairness ==
    /\ \A r \in Requests : WF_vars(RequestStep(r) \/ CommonStep(r))
    /\ \A j \in Jobs : WF_vars(JobStep(j) \/ CommonStep(j))
    /\ \A j \in Pollers : SF_vars(ListExpired(j)) /\ SF_vars(ListPending(j))

TimeFairness == \A t \in Tx : WF_vars(DeadlinePasses(t))

\* A provider that repeats the webhook of a paid session until it is answered.
WebhookFairness ==
    \A s \in Session : SF_vars(\E r \in Requests : WebhookSuccess(r, s))

FairSpec == Spec /\ Fairness /\ TimeFairness

-----------------------------------------------------------------------------
\* Properties

\* A process other than the stuck-row job that claimed t and has not let go.
Holds(p, t) ==
    /\ p \notin Stuckers
    /\ target[p] = t
    /\ pc[p] \in {"fulfill", "commit", "resetToPending"}

Paid(t) == \E s \in Session : stx[s] = t /\ sstate[s] = "SUCCESS"

Open(t) == docs[t].status \in {"PENDING", "FULFILLING"}

\* The claim of webhook.go ("prevents double-grants"): at most one handler is
\* between AtomicClaimFulfilling and its commit or reset, and a row that can
\* be claimed has no such handler - although ResetToPending, MarkFailed and
\* the job's CommitFulfilled ignore who claimed the row.
ClaimMutex ==
    /\ \A t \in Tx : \A p, q \in Proc : Holds(p, t) /\ Holds(q, t) => p = q
    /\ \A t \in Tx : Pending(t) => \A p \in Proc : ~Holds(p, t)

\* Nothing is granted, and no row is being or was fulfilled, unless a session
\* opened for that very transaction was paid - stale answers, stale copies and
\* sessions of another selection included.
NoUnpaidGrant ==
    \A t \in Tx : t \in granted \/ docs[t].status \in {"FULFILLING", "FULFILLED"}
                    => Paid(t)

\* A row says FULFILLED only if AGS granted the item, although CommitFulfilled
\* of one handler may land on a row that another one claimed.
FulfilledIsGranted ==
    \A t \in Tx : docs[t].status = "FULFILLED" => t \in granted

\* MAX_RETRIES bounds the retries of the stuck-row job (of one instance)
\* although the job decides on the copy it listed.
RetryLimit == \A t \in Tx : docs[t].retries <= MaxRetries

\* A canceled or expired row is never claimed again: only a provider failure
\* (or the deletion of a failed intent) still changes it, never the
\* unconditional ResetToPending.
ClosedStep ==
    \A t \in Tx : docs[t].status \in {"CANCELED", "EXPIRED"} =>
        docs'[t].status \in {docs[t].status, "FAILED", "GONE"}

ClosedStaysClosed == [][ClosedStep]_docs

\* The abstract contract: rows, money and items seen without the processes.
Contract == INSTANCE PaymentContract WITH
    paid     <- {t \in Tx : Paid(t)},
    status   <- [t \in Tx |-> docs[t].status],
    asked    <- {},
    returned <- {},
    refund   <- [t \in Tx |-> docs[t].refund]

\* However handlers, jobs, crashes and late answers interleave, a row only
\* changes as the contract allows: claimed when paid, delivered when granted,
\* reopened when paid and not closed, never claimed or closed from elsewhere.
KeepsContract == Contract!Spec

\* Every row leaves PENDING and FULFILLING for good or comes back to leave
\* again: no row is forgotten by the two jobs.
EveryPaymentEnds == \A t \in Tx : Open(t) ~> ~Open(t)

\* A row whose attached session, the only one opened for it, was paid in time
\* is fulfilled even if every webhook is lost ("polls for lost webhooks"), in
\* spite of crashes, failed grants and cancels that race the payment - at a
\* provider that can be asked and that does not report a payment as failed
\* before it is made.  At a webhook-only provider the poller has nobody to ask,
\* and the row expires.
PaidIsFulfilled ==
    \A t \in Tx : \A s \in Session \ (WebhookOnly \cup Retriable) :
        (stx[s] = t /\ sstate[s] = "SUCCESS") ~> docs[t].status = "FULFILLED"

\* README: "when payment completes, which triggers AGS item fulfillment".
PaidIsGranted == \A t \in Tx : Paid(t) ~> t \in granted
=============================================================================
