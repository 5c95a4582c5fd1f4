----------------------------- MODULE Providers -----------------------------
(***************************************************************************)
(* The provider adapters against a provider that keeps moving: queries,    *)
(* syncs, cancels and webhooks of one payment.  One action is one round    *)
(* trip to the provider.  The provider's side (the session, its payments   *)
(* and refunds, what each Xendit resource shows of them) is external: a    *)
(* KOMOJU session can be paid after an attempt has failed, any number of   *)
(* times, and a Xendit or generic payment is attempted once.               *)
(***************************************************************************)
EXTENDS AdapterStatus, Sequences

CONSTANTS
    RefundIds,  \* refunds of the payment at the provider
    TxAmount,   \* the amount of the transaction
    Configs     \* configurations of a generic provider (see GenericConfig)

ASSUME ProvidersAssumption ==
    /\ IsFiniteSet(RefundIds) /\ "payment" \notin RefundIds
    /\ TxAmount \in Nat \ {0}

\* A generic provider calls its states as SessionState does, and "REFUNDED" when
\* everything was refunded; the success word is configured, others may not be.
GenericConfig ==
    [success : {"PAID"}, webhookFailed : {"FAILED"}, pending : {"OPEN"},
     failed : SUBSET {"FAILED", "CANCELED", "EXPIRED"}, refund : {"", "REFUNDED"},
     status : BOOLEAN, amountPath : BOOLEAN, cancels : BOOLEAN,
     cancel : [success : SUBSET {"CANCELED"}, expired : SUBSET {"EXPIRED"},
               paid : SUBSET {"PAID", "REFUNDED"}, pending : SUBSET {"OPEN"}]]

ASSUME ConfigsAssumption == Configs \subseteq GenericConfig

VARIABLES
    kind,     \* which adapter serves the payment
    cfg,      \* the configuration, when it is the generic one
    session,  \* the payment session at the provider
    objects,  \* the payment objects that exist for it
    failed,   \* KOMOJU: whether a payment of the session failed while the session
              \* stayed open - the current one, or an earlier one
    shows,    \* Xendit: the state each resource shows, which may lag behind
    refunds,  \* the refunds at the provider
    call,     \* the adapter call that is running
    answer    \* what the last call or webhook told the gateway, until the next call

world == <<kind, cfg, session, objects, failed, shows, refunds>>
vars == <<kind, cfg, session, objects, failed, shows, refunds, call, answer>>

SessionState == {"OPEN", "PAID", "VOIDED", "FAILED", "CANCELED", "EXPIRED"}
Resources == {"session", "request", "payment", "history"}
Objects == {{}, {"request"}, {"request", "payment"}}

\* The reads of a Xendit sync in their order, with the ids each one needs.
Reads == <<"session", "request", "payment", "byReference", "byPayment", "byRequest",
           "refunds", "reply">>
Needs == <<{}, {"request"}, {"payment"}, {}, {"payment"}, {"request"}, {"request"}, {}>>

NoResult == [payment |-> "PENDING", refund |-> "NONE"]

Idle == [op |-> "none", at |-> 0, id |-> "session", ids |-> {}, result |-> NoResult,
         records |-> {}, listed |-> {}, settled |-> FALSE]

NoAnswer == [op |-> "none", payment |-> "PENDING", refund |-> "NONE", expected |-> FALSE]

Record == [read : 1 .. Len(Reads), type : {"PAYMENT", "REFUND"},
           id : RefundIds \cup {"payment"}, amount : 0 .. TxAmount,
           status : {"PENDING", "SUCCESS", "FAILED", "VOIDED"}]

TypeOK ==
    /\ kind \in {"xendit", "komoju", "generic"}
    /\ cfg \in Configs
    /\ session \in SessionState
    /\ objects \in Objects
    /\ failed \in {"none", "current", "earlier"}
    /\ shows \in [Resources -> SessionState]
    /\ refunds \in [RefundIds -> [status : {"NONE", "PENDING", "SUCCESS", "FAILED"},
                                  amount : 0 .. TxAmount]]
    /\ call.op \in {"none", "query", "sync", "cancel"}
    /\ call.at \in 0 .. Len(Reads)
    /\ call.ids \in Objects
    /\ call.result.payment \in SyncPaymentStatus
    /\ call.result.refund \in SyncRefundStatus
    /\ \A r \in call.records : r \in Record
    /\ answer.payment \in PaymentStatus \cup CancelStatus \cup SyncPaymentStatus
    /\ answer.refund \in SyncRefundStatus

Init ==
    /\ kind \in {"xendit", "komoju", "generic"}
    /\ cfg \in Configs
    /\ kind # "generic" => cfg = CHOOSE c \in Configs : TRUE
    /\ session = "OPEN" /\ objects = {} /\ failed = "none"
    /\ shows = [r \in Resources |-> "OPEN"]
    /\ refunds = [r \in RefundIds |-> [status |-> "NONE", amount |-> 0]]
    /\ call = Idle /\ answer = NoAnswer

-----------------------------------------------------------------------------
\* The provider

Refunded(statuses) ==
    SumFunctionOnSet([r \in RefundIds |-> refunds[r].amount],
                     {r \in RefundIds : refunds[r].status \in statuses})

Made == {r \in RefundIds : refunds[r].status # "NONE"}

FullyRefunded == Refunded({"SUCCESS"}) = TxAmount

Settle(state) ==
    /\ session' = state
    /\ UNCHANGED <<kind, cfg, objects, failed, shows, refunds, call, answer>>

\* The player opens the page and starts to pay.
Attempted ==
    /\ session = "OPEN" /\ objects # {"request", "payment"}
    /\ objects' = IF objects = {} THEN {"request"} ELSE {"request", "payment"}
    /\ UNCHANGED <<kind, cfg, session, failed, shows, refunds, call, answer>>

\* A KOMOJU payment fails, and the player may pay the session with another one.
\* An id that names the failed payment names an earlier one from then on.
AttemptFails ==
    /\ kind = "komoju" /\ session = "OPEN" /\ "payment" \in objects /\ failed # "current"
    /\ failed' = "current"
    /\ UNCHANGED <<kind, cfg, session, objects, shows, refunds, call, answer>>

TriesAgain ==
    /\ kind = "komoju" /\ session = "OPEN" /\ failed = "current"
    /\ failed' = "earlier"
    /\ call' = [call EXCEPT !.id = IF @ = "payment" THEN "earlier" ELSE @]
    /\ UNCHANGED <<kind, cfg, session, objects, shows, refunds, answer>>

SessionSettles ==
    \/ session = "OPEN" /\ "payment" \in objects /\ failed # "current" /\ Settle("PAID")
    \/ session = "OPEN" /\ "payment" \in objects /\ Settle("FAILED")
    \/ session = "OPEN" /\ \E s \in {"CANCELED", "EXPIRED"} : Settle(s)
    \/ session = "PAID" /\ kind = "xendit" /\ Refunded({"PENDING", "SUCCESS"}) = 0
       /\ Settle("VOIDED")

CatchesUp(r) ==
    /\ kind = "xendit" /\ shows[r] # session
    /\ shows' = [shows EXCEPT ![r] = session]
    /\ UNCHANGED <<kind, cfg, session, objects, failed, refunds, call, answer>>

\* A provider refunds no more than was paid.
RefundStarts(r) ==
    /\ session = "PAID" /\ refunds[r].status = "NONE"
    /\ \E a \in 1 .. TxAmount - Refunded({"PENDING", "SUCCESS"}) :
         refunds' = [refunds EXCEPT ![r] = [status |-> "PENDING", amount |-> a]]
    /\ UNCHANGED <<kind, cfg, session, objects, failed, shows, call, answer>>

RefundSettles(r) ==
    /\ refunds[r].status = "PENDING"
    /\ \E s \in {"SUCCESS", "FAILED"} : refunds' = [refunds EXCEPT ![r].status = s]
    /\ UNCHANGED <<kind, cfg, session, objects, failed, shows, call, answer>>

\* The providers' words for a state.
XenditSession(s) == CASE s = "OPEN" -> "ACTIVE" [] s \in {"PAID", "VOIDED"} -> "COMPLETED"
                      [] OTHER -> s
XenditPayment(s) == CASE s = "OPEN" -> "REQUIRES_ACTION" [] s = "PAID" -> "SUCCEEDED"
                      [] OTHER -> s
XenditHistory(s) == CASE s \in {"OPEN", "CANCELED", "EXPIRED"} -> "PENDING"
                      [] s = "PAID" -> "SUCCESS" [] OTHER -> s

KomojuSession(s) == [OPEN |-> "pending", PAID |-> "completed", FAILED |-> "failed",
                     CANCELED |-> "cancelled", EXPIRED |-> "expired"][s]
\* The current payment of a session in state s.
KomojuPayment(s) ==
    IF failed = "current" THEN "failed"
    ELSE CASE s = "OPEN" -> "authorized"
           [] s = "PAID" -> IF FullyRefunded THEN "refunded" ELSE "captured"
           [] OTHER      -> KomojuSession(s)

\* A generic provider calls its states as the configuration says.
GenericRaw(s) == IF s = "PAID" /\ FullyRefunded THEN "REFUNDED" ELSE s

\* What an earlier webhook may still report.
Past(s) == {"OPEN", s} \cup (IF s = "VOIDED" THEN {"PAID"} ELSE {})

-----------------------------------------------------------------------------
\* Calls and answers

\* Resources that a query or sync reads for certain.
CertainlyRead(id) == IF id = "session" THEN {"session", "history"} ELSE {"request", "history"}

\* The payment was settled for every reader before the call.
Settled(op, id) ==
    /\ session = "PAID"
    /\ \/ kind = "komoju" /\ id # "earlier"
       \/ kind = "generic" /\ cfg.status
       \/ kind = "xendit" /\ op = "query" /\ shows.session = "PAID"
       \/ kind = "xendit" /\ op = "sync" /\ \E r \in CertainlyRead(id) : shows[r] = "PAID"

\* The id in the row: of the session, or of a payment (object) it led to.
Ids == {"session"} \cup {o \in objects : o = IF kind = "xendit" THEN "request" ELSE "payment"}
          \cup (IF failed = "earlier" THEN {"earlier"} ELSE {})

Calls(op, id) ==
    /\ call = Idle /\ id \in Ids
    /\ kind = "generic" => id = "session"
    /\ kind = "xendit" /\ op = "query" => id = "session"
    /\ call' = [Idle EXCEPT !.op = op, !.id = id, !.at = 1, !.settled = Settled(op, id),
                            !.ids = IF kind = "xendit" /\ id # "session" THEN {id} ELSE {}]
    /\ answer' = NoAnswer
    /\ UNCHANGED world

\* A round trip fails and the call returns an error.
CallFails ==
    /\ call # Idle
    /\ call' = Idle
    /\ UNCHANGED <<world, answer>>

Goes(at) ==
    /\ call' = [call EXCEPT !.at = at]
    /\ UNCHANGED answer

\* A generic provider that names no word for refunded payments hides them.
Hidden == kind = "generic" /\ cfg.refund = "" /\ FullyRefunded

Answers(payment, refund) ==
    /\ call' = Idle
    /\ answer' = [op |-> call.op, payment |-> payment, refund |-> refund,
                  expected |-> call.settled /\ session = "PAID" /\ ~Hidden]

Running(k, ops, at) == kind = k /\ call.op \in ops /\ call.at = at

-----------------------------------------------------------------------------
\* Xendit

XenditQuery ==
    /\ Running("xendit", {"query"}, 1)
    /\ Answers(MapPaymentSessionStatus(XenditSession(shows.session)), "NONE")
    /\ UNCHANGED world

\* The next read whose id is known.
NextRead(n, ids) == Min({m \in n + 1 .. Len(Reads) : Needs[m] \subseteq ids})

AtRead(name) == kind = "xendit" /\ call.op = "sync" /\ Reads[call.at] = name

SyncReads(result, ids) ==
    call' = [call EXCEPT !.result = result, !.ids = ids, !.at = NextRead(call.at, ids)]

\* What an answer names of the payment objects: possibly not all of them yet.
Names == {ids \in Objects : call.ids \subseteq ids /\ ids \subseteq objects}

\* An id of a payment request makes the session superfluous.
SyncReadsSession ==
    /\ AtRead("session")
    /\ IF call.id = "session"
       THEN \E ids \in Names :
              SyncReads([payment |-> SyncPaymentStatusFromPaymentStatus(
                                        MapPaymentSessionStatus(XenditSession(shows.session))),
                         refund |-> "NONE"], ids)
       ELSE SyncReads(NoResult, call.ids)
    /\ UNCHANGED <<world, answer>>

SyncReadsRequest ==
    /\ AtRead("request")
    /\ \E ids \in Names :
         SyncReads(MergePaymentStatus(call.result, XenditPayment(shows.request)), ids)
    /\ UNCHANGED <<world, answer>>

SyncReadsPayment ==
    /\ AtRead("payment")
    /\ SyncReads(MergePaymentStatus(call.result, XenditPayment(shows.payment)), call.ids)
    /\ UNCHANGED <<world, answer>>

History ==
    {[read |-> call.at, type |-> "PAYMENT", id |-> "payment",
      status |-> XenditHistory(shows.history), amount |-> TxAmount] :
        x \in objects \cap {"payment"}}
    \cup {[read |-> call.at, type |-> "REFUND", id |-> r,
           status |-> refunds[r].status, amount |-> refunds[r].amount] : r \in Made}

\* Mutant: a record that is read twice counts twice.
AppendUnique_All(records, items) == records \cup items

AppendUnique(records, items) ==
    records \cup {i \in items : \A r \in records : r.id # i.id}

SyncReadsHistory ==
    /\ \E name \in {"byReference", "byPayment", "byRequest"} : AtRead(name)
    /\ call' = [call EXCEPT !.records = AppendUnique(@, History),
                            !.at = NextRead(call.at, call.ids)]
    /\ UNCHANGED <<world, answer>>

\* Every refund in the list counts as succeeded.
ListRefundsByPaymentRequestID ==
    {[id |-> r, status |-> "SUCCEEDED", amount |-> refunds[r].amount] :
       r \in Made}

SyncReadsRefunds ==
    /\ AtRead("refunds")
    /\ call' = [call EXCEPT !.listed = ListRefundsByPaymentRequestID,
                            !.at = NextRead(call.at, call.ids)]
    /\ UNCHANGED <<world, answer>>

SyncReplies ==
    /\ AtRead("reply")
    /\ LET result == MergeRefundSummary(
                         MergeTransactionHistory(call.result, call.records, TxAmount),
                         call.listed, TxAmount)
       IN  Answers(IF result.refund \in {"REFUNDED", "PARTIAL_REFUNDED"} THEN "PAID"
                   ELSE result.payment, result.refund)
    /\ UNCHANGED world

\* A session that is no longer open answers with its status or with an error.
XenditCancel ==
    /\ Running("xendit", {"cancel"}, 1)
    /\ IF call.id # "session"
       THEN Answers("UNSUPPORTED", "NONE") /\ UNCHANGED session
       ELSE LET s == IF session = "OPEN" THEN "CANCELED" ELSE session
            IN  /\ session' = s
                /\ Answers(MapPaymentSessionCancelStatus(XenditSession(s)), "NONE")
    /\ UNCHANGED <<kind, cfg, objects, failed, shows, refunds>>

-----------------------------------------------------------------------------
\* KOMOJU

\* The payment in the session, once there is one, decides.
ProviderStatusFromSession(s) ==
    IF "payment" \in objects THEN MapPaymentStatus(KomojuPayment(s))
    ELSE MapSessionStatus(KomojuSession(s))

KomojuAnswers(status) ==
    IF call.op = "query" THEN Answers(status, "NONE")
    ELSE Answers(IF status = "REFUNDED" THEN "PAID" ELSE SyncPaymentStatusFromPaymentStatus(status),
                 SyncRefundStatusFromPaymentStatus(status))

\* The id of a payment is not found among the sessions, and is asked for next.
KomojuGetsSession ==
    /\ Running("komoju", {"query", "sync"}, 1)
    /\ IF call.id = "session" THEN KomojuAnswers(ProviderStatusFromSession(session)) ELSE Goes(2)
    /\ UNCHANGED world

ProviderStatusFromPayment(id) ==
    MapPaymentStatus(IF id = "earlier" THEN "failed" ELSE KomojuPayment(session))

KomojuGetsPayment ==
    /\ Running("komoju", {"query", "sync"}, 2)
    /\ KomojuAnswers(ProviderStatusFromPayment(call.id))
    /\ UNCHANGED world

\* 404 for the id of a payment, 422 for a session that is closed or being
\* paid: the status is asked for next.  The answer to a successful cancel may
\* still hold the payment as it was.
KomojuCancelsSession ==
    /\ Running("komoju", {"cancel"}, 1)
    /\ \/ /\ call.id = "session" /\ session = "OPEN"
          /\ session' = "CANCELED"
          /\ \E s \in IF "payment" \in objects THEN {"OPEN", "CANCELED"} ELSE {"CANCELED"} :
               Answers(MapKomojuCancelStatus(IF "payment" \in objects THEN KomojuPayment(s)
                                             ELSE KomojuSession(s)), "NONE")
       \/ /\ call.id # "session" \/ session # "OPEN" \/ objects # {}
          /\ Goes(2)
          /\ UNCHANGED session
    /\ UNCHANGED <<kind, cfg, objects, failed, shows, refunds>>

\* A failing query is answered with FAILED, the refused cancel's outcome.  A
\* payment that failed counts as canceled.  One that is pending is canceled
\* next, by the id in the answer.
KomojuCancelAsks ==
    /\ Running("komoju", {"cancel"}, 2)
    /\ LET status == IF call.id = "session" THEN ProviderStatusFromSession(session)
                     ELSE ProviderStatusFromPayment(call.id)
       IN  \/ Answers("FAILED", "NONE")
           \/ status \in {"SUCCESS", "REFUNDED"} /\ Answers("ALREADY_PAID", "NONE")
           \/ status \in {"FAILED", "CANCELED"} /\ Answers("CANCELED", "NONE")
           \/ status = "EXPIRED" /\ Answers("EXPIRED", "NONE")
           \/ /\ status = "PENDING"
              /\ call' = [call EXCEPT !.at = 3,
                                     !.id = IF "payment" \in objects THEN "payment" ELSE @]
              /\ UNCHANGED answer
    /\ UNCHANGED world

\* The session ends with the payment that is canceled.
KomojuCancelsPayment ==
    /\ Running("komoju", {"cancel"}, 3)
    /\ call.id = "payment" /\ session = "OPEN" /\ failed # "current"
    /\ session' = "CANCELED"
    /\ Answers(MapKomojuCancelStatus(KomojuPayment("CANCELED")), "NONE")
    /\ UNCHANGED <<kind, cfg, objects, failed, shows, refunds>>

-----------------------------------------------------------------------------
\* The generic provider

GenericQuery ==
    /\ Running("generic", {"query"}, 1)
    /\ cfg.status
    /\ Answers(MapStatus(cfg, GenericRaw(session)), "NONE")
    /\ UNCHANGED world

GenericSync ==
    /\ Running("generic", {"sync"}, 1)
    /\ LET raw     == GenericRaw(session)
           amount  == IF cfg.amountPath THEN Refunded({"SUCCESS"}) ELSE 0
           reports == cfg.refund # "" /\ raw = cfg.refund
       IN  IF ~cfg.status THEN Answers("UNSUPPORTED", "UNSUPPORTED")
           ELSE Answers(IF reports THEN "PAID"
                        ELSE SyncPaymentStatusFromPaymentStatus(MapStatus(cfg, raw)),
                        IF amount \in 1 .. TxAmount - 1 THEN "PARTIAL_REFUNDED"
                        ELSE IF reports THEN "REFUNDED" ELSE "NONE")
    /\ UNCHANGED world

\* A provider that reports no status refuses what it cannot cancel.
GenericCancel ==
    /\ Running("generic", {"cancel"}, 1)
    /\ LET s == IF session = "OPEN" THEN "CANCELED" ELSE session
       IN  IF ~cfg.cancels
           THEN Answers("UNSUPPORTED", "NONE") /\ UNCHANGED session
           ELSE /\ cfg.cancel.success = {} => session = "OPEN"
                /\ session' = s
                /\ Answers(MapCancelStatus(cfg, IF cfg.cancel.success = {} THEN ""
                                                ELSE GenericRaw(s)), "NONE")
    /\ UNCHANGED <<kind, cfg, objects, failed, shows, refunds>>

-----------------------------------------------------------------------------
\* Webhooks, possibly of a state that has passed

Tells(op, payment) ==
    /\ call = Idle
    /\ answer' = [NoAnswer EXCEPT !.op = op, !.payment = payment]
    /\ UNCHANGED <<world, call>>

Webhook ==
    \E s \in Past(session) :
      \/ kind = "xendit" /\ Tells("webhook", MapPaymentSessionStatus(XenditSession(s)))
      \/ /\ kind = "komoju" /\ "payment" \in objects
         /\ \/ Tells("webhook", MapPaymentStatus(KomojuPayment(s)))
            \/ failed # "none" /\ Tells("webhook", MapPaymentStatus("failed"))
      \/ kind = "generic" /\ Tells("webhook", MapWebhookStatus(cfg, GenericRaw(s)))

\* refund.succeeded and refund.failed, whatever the amount of the refund.
RefundWebhook(r) ==
    /\ kind = "xendit" /\ r \in Made
    /\ Tells("refundWebhook", [PENDING |-> "PENDING", SUCCESS |-> "REFUNDED",
                               FAILED |-> "FAILED"][refunds[r].status])

-----------------------------------------------------------------------------
Environment ==
    \/ Attempted \/ AttemptFails \/ TriesAgain \/ SessionSettles
    \/ \E r \in Resources : CatchesUp(r)
    \/ \E r \in RefundIds : RefundStarts(r) \/ RefundSettles(r)

Xendit ==
    \/ XenditQuery \/ XenditCancel
    \/ SyncReadsSession \/ SyncReadsRequest \/ SyncReadsPayment
    \/ SyncReadsHistory \/ SyncReadsRefunds \/ SyncReplies

Komoju ==
    \/ KomojuGetsSession \/ KomojuGetsPayment
    \/ KomojuCancelsSession \/ KomojuCancelAsks \/ KomojuCancelsPayment

Generic == GenericQuery \/ GenericSync \/ GenericCancel

Next ==
    \/ Environment
    \/ \E op \in {"query", "sync", "cancel"}, id \in {"session", "request", "payment", "earlier"} :
         Calls(op, id)
    \/ CallFails \/ Xendit \/ Komoju \/ Generic
    \/ Webhook \/ \E r \in RefundIds : RefundWebhook(r)

Spec == Init /\ [][Next]_vars

-----------------------------------------------------------------------------
\* Properties

SaysPaid == answer.payment \in {"SUCCESS", "PAID", "ALREADY_PAID"}

\* A FAILED cancel was refused, and a failed refund fails no payment.
SaysClosed ==
    \/ answer.payment \in {"CANCELED", "EXPIRED"}
    \/ answer.payment = "FAILED" /\ answer.op \notin {"cancel", "refundWebhook"}

\* The gateway is told that a payment was made only if it was, although the
\* provider moves between the round trips of one call and webhooks are late.
PaidIsPaid == SaysPaid => session \in {"PAID", "VOIDED"}

\* An answer in which KOMOJU may speak of one payment of a session that is still
\* open: FAILED, and the CANCELED that CancelPayment makes of it.
MayBeAnAttempt ==
    /\ kind = "komoju"
    /\ \/ answer.payment = "FAILED"
       \/ answer.payment = "CANCELED" /\ answer.op = "cancel"

\* The gateway is told that a payment has ended unpaid only if nobody can pay
\* it any more: a resource that lags, a cancel that lost its race and a
\* payment that waits for the player do not close a row.  KOMOJU's FAILED says
\* less: an attempt has failed, and the session may be paid yet or be paid.
ClosedIsClosed ==
    SaysClosed =>
      \/ session \in {"FAILED", "CANCELED", "EXPIRED", "VOIDED"}
      \/ MayBeAnAttempt /\ failed # "none"

\* A query or sync that starts after the settlement can be read in one of the
\* resources it reads reports it, although others still show the open session
\* ("transaction history is the recovery path for missed webhooks").
PaidIsSeen == answer.expected /\ answer.op # "cancel" => SaysPaid \/ answer.payment = "REFUNDED"

\* A sync reports a full refund only if the whole amount was asked back:
\* records of one refund in several answers are counted once.
RefundedIsRequested ==
    answer.refund = "REFUNDED" => Refunded({"PENDING", "SUCCESS", "FAILED"}) >= TxAmount

\* XenditGuide.md, "Refund Summary Status": REFUNDED when the total SUCCEEDED
\* amount reaches the transaction's.
RefundedIsSucceeded == answer.refund = "REFUNDED" => Refunded({"SUCCESS"}) >= TxAmount
=============================================================================
