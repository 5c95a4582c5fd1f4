--------------------------- MODULE AdapterStatus ---------------------------
(***************************************************************************)
(* How the provider adapters (internal/adapter) translate and merge what   *)
(* providers report.  Raw statuses are the providers' words, the results   *)
(* the gateway's; amounts are in one currency.  An X_Something defined     *)
(* before X is a broken variant of X.                                      *)
(***************************************************************************)
EXTENDS Integers, FiniteSetsExt

PaymentStatus == {"PENDING", "SUCCESS", "FAILED", "CANCELED", "EXPIRED", "REFUNDED"}
CancelStatus  == {"CANCELED", "EXPIRED", "ALREADY_PAID", "PENDING", "FAILED", "UNSUPPORTED"}
SyncPaymentStatus == {"PENDING", "PAID", "FAILED", "UNKNOWN", "UNSUPPORTED"}
SyncRefundStatus  == {"NONE", "PENDING", "PARTIAL_REFUNDED", "REFUNDED", "FAILED",
                      "UNKNOWN", "UNSUPPORTED"}

SyncPaymentStatusFromPaymentStatus(status) ==
    CASE status = "SUCCESS"                          -> "PAID"
      [] status \in {"FAILED", "CANCELED", "EXPIRED"} -> "FAILED"
      [] OTHER                                       -> "PENDING"

\* Mutant: passes the payment status through.
SyncRefundStatusFromPaymentStatus_Raw(status) == status

SyncRefundStatusFromPaymentStatus(status) ==
    IF status = "REFUNDED" THEN "REFUNDED" ELSE "NONE"

-----------------------------------------------------------------------------
\* Xendit

XenditPaid == {"COMPLETED", "PAID", "SUCCEEDED", "SUCCESS"}

\* Session status, in queries, syncs and webhooks.
MapPaymentSessionStatus(raw) ==
    CASE raw \in XenditPaid                -> "SUCCESS"
      [] raw \in {"CANCELED", "CANCELLED"} -> "CANCELED"
      [] raw \in {"EXPIRED", "FAILED"}     -> raw
      [] OTHER                             -> "PENDING"

MapPaymentSessionCancelStatus(raw) ==
    CASE raw \in {"CANCELED", "CANCELLED"} -> "CANCELED"
      [] raw = "EXPIRED"                   -> "EXPIRED"
      [] raw \in XenditPaid                -> "ALREADY_PAID"
      [] raw \in {"ACTIVE", "PENDING"}     -> "PENDING"
      [] OTHER                             -> "FAILED"

\* Mutant: a payment that waits for the player counts as failed.
MapProviderPaymentStatus_Strict(raw) ==
    CASE raw \in XenditPaid -> "PAID"
      [] raw = ""           -> "UNKNOWN"
      [] OTHER              -> "FAILED"

\* Status of payment requests and payments.
MapProviderPaymentStatus(raw) ==
    CASE raw \in XenditPaid -> "PAID"
      [] raw \in {"FAILED", "CANCELED", "CANCELLED", "EXPIRED", "VOIDED", "REVERSED"} -> "FAILED"
      [] raw = ""           -> "UNKNOWN"
      [] OTHER              -> "PENDING"

MapTransactionRefundStatus(raw) ==
    CASE raw \in {"SUCCESS", "REVERSED", "VOIDED"} -> "SUCCEEDED"
      [] OTHER                                     -> raw

\* refunds: a set of [id, status, amount].
Succeeded(refunds) ==
    SumFunctionOnSet([r \in refunds |-> r.amount], {r \in refunds : r.status = "SUCCEEDED"})

SummarizeXenditRefunds(refunds, txAmount) ==
    LET Any(statuses) == \E r \in refunds : r.status \in statuses
    IN  IF refunds = {} THEN "NONE"
        ELSE IF txAmount > 0 /\ Succeeded(refunds) >= txAmount THEN "REFUNDED"
        ELSE IF Succeeded(refunds) > 0 THEN "PARTIAL_REFUNDED"
        ELSE IF Any({"PENDING"}) THEN "PENDING"
        ELSE IF Any({"FAILED", "CANCELLED"}) THEN "FAILED"
        ELSE "UNKNOWN"

StrongerRefundStatus(next, current) ==
    LET rank == [s \in SyncRefundStatus |->
                   CASE s = "REFUNDED" -> 5 [] s = "PARTIAL_REFUNDED" -> 4
                     [] s = "PENDING" -> 3 [] s = "FAILED" -> 2
                     [] s = "UNKNOWN" -> 1 [] OTHER -> 0]
    IN  rank[next] > rank[current]

\* Mutant: what was read last wins.
MergePaymentStatus_Last(result, raw) ==
    [result EXCEPT !.payment = MapProviderPaymentStatus(raw)]

\* mergePaymentRequestStatus and mergePaymentStatus.
MergePaymentStatus(result, raw) ==
    LET status == MapProviderPaymentStatus(raw)
    IN  IF status = "PENDING" THEN result ELSE [result EXCEPT !.payment = status]

MergeRefundSummary(result, refunds, txAmount) ==
    LET status == SummarizeXenditRefunds(refunds, txAmount)
    IN  IF StrongerRefundStatus(status, result.refund)
        THEN [result EXCEPT !.refund = status]
        ELSE result

\* records: a set of [type, id, status, amount].
MergeTransactionHistory(result, records, txAmount) ==
    LET Reports(statuses) ==
            \E r \in records : r.type = "PAYMENT" /\ r.status \in statuses
        refunds == {[r EXCEPT !.status = MapTransactionRefundStatus(@)] :
                       r \in {x \in records : x.type = "REFUND"}}
        payment == IF Reports({"SUCCESS"}) \/ result.payment = "PAID" THEN "PAID"
                   ELSE IF Reports({"FAILED", "VOIDED", "REVERSED"}) THEN "FAILED"
                   ELSE result.payment
    IN  MergeRefundSummary([result EXCEPT !.payment = payment], refunds, txAmount)

-----------------------------------------------------------------------------
\* KOMOJU

MapSessionStatus(raw) ==
    CASE raw \in {"cancelled", "canceled"} -> "CANCELED"
      [] raw = "expired"                   -> "EXPIRED"
      [] raw = "failed"                    -> "FAILED"
      [] OTHER                             -> "PENDING"

\* Mutant: an authorized payment counts as captured.
MapPaymentStatus_Authorized(raw) ==
    CASE raw \in {"captured", "authorized"} -> "SUCCESS"
      [] raw = "refunded" -> "REFUNDED"
      [] OTHER            -> MapSessionStatus(raw)

MapPaymentStatus(raw) ==
    CASE raw = "captured" -> "SUCCESS"
      [] raw = "refunded" -> "REFUNDED"
      [] OTHER            -> MapSessionStatus(raw)

MapKomojuCancelStatus(raw) ==
    CASE raw \in {"cancelled", "canceled"}  -> "CANCELED"
      [] raw = "expired"                    -> "EXPIRED"
      [] raw \in {"captured", "refunded"}   -> "ALREADY_PAID"
      [] raw \in {"pending", "authorized"}  -> "PENDING"
      [] OTHER                              -> "FAILED"

-----------------------------------------------------------------------------
\* The generic provider.  cfg holds the configured words: success, pending,
\* failed (a set), refund; "" is not configured.

MapStatus(cfg, val) ==
    IF val = cfg.success THEN "SUCCESS"
    ELSE IF val = cfg.pending THEN "PENDING"
    ELSE IF cfg.refund # "" /\ val = cfg.refund THEN "REFUNDED"
    ELSE IF val \in cfg.failed THEN "FAILED"
    ELSE "PENDING"

MapWebhookStatus(cfg, val) ==
    IF val = cfg.success THEN "SUCCESS"
    ELSE IF val = cfg.webhookFailed THEN "FAILED"
    ELSE "PENDING"

\* cfg.cancel: the configured sets of words by outcome.
MapCancelStatus(cfg, val) ==
    IF val \in cfg.cancel.success THEN "CANCELED"
    ELSE IF val \in cfg.cancel.expired THEN "EXPIRED"
    ELSE IF val \in cfg.cancel.paid THEN "ALREADY_PAID"
    ELSE IF val \in cfg.cancel.pending THEN "PENDING"
    ELSE IF val = "" /\ cfg.cancel.success = {} THEN "CANCELED"
    ELSE "FAILED"
=============================================================================
