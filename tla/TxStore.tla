------------------------------ MODULE TxStore ------------------------------
(***************************************************************************)
(* The transaction store of the gateway: the DocumentDB implementation of  *)
(* store.Store (internal/store/docdb).  Each operation is one server-side  *)
(* update of one document, so each is one action on docs.  An operation    *)
(* whose filter makes it fail (ErrNoDocuments, ErrNotFound) is disabled    *)
(* when the filter does not match; its caller models that outcome as the   *)
(* negation of the guard.  An operation that silently matches nothing      *)
(* (UpdateOne whose result is not looked at) is enabled and changes        *)
(* nothing.                                                                *)
(***************************************************************************)
EXTENDS Integers

CONSTANTS
    Tx,       \* transaction ids (fresh UUIDs: an id is never used twice)
    Session,  \* payment sessions at the providers
    None      \* the empty string / absent value of the code

ASSUME StoreAssumption == None \notin Session /\ None \notin Tx

VARIABLE docs  \* the collection, indexed by _id

\* ABSENT: not inserted yet.  GONE: inserted and deleted.
TxStatus == {"ABSENT", "PENDING", "FULFILLING", "FULFILLED", "FAILED",
             "CANCELED", "EXPIRED", "GONE"}

RefundStatus == {"NONE", "REFUNDING", "REFUNDED", "REFUND_FAILED"}

\* provider_tx_id is abstracted to the session it resolves to at the provider
\* (a session id and the payment id that later replaces it are one value).
Doc == [status           : TxStatus,
        providerTxID     : Session \cup {None},
        retries          : Nat,
        refund           : RefundStatus,   \* "NONE": no refund sub-document
        providerRefunded : BOOLEAN]

NoRow == [status |-> "ABSENT", providerTxID |-> None, retries |-> 0,
          refund |-> "NONE", providerRefunded |-> FALSE]

StoreTypeOK == docs \in [Tx -> Doc]

StoreInit == docs = [t \in Tx |-> NoRow]

Exists(t) == docs[t].status \notin {"ABSENT", "GONE"}
Pending(t) == docs[t].status = "PENDING"

-----------------------------------------------------------------------------
\* Creation, deletion and the queries of the scheduler

CreateTransaction(t) ==
    /\ docs[t].status = "ABSENT"
    /\ docs' = [docs EXCEPT ![t].status = "PENDING"]

DeleteTransaction(t) ==
    docs' = IF Exists(t) THEN [docs EXCEPT ![t].status = "GONE"] ELSE docs

\* updated_at older than two minutes is abstracted to any FULFILLING row:
\* calls to AGS have no deadline, so a claimer may outlive the two minutes.
\* Mutant: the filter also finds rows nobody claimed.
FindStuckFulfilling_Open == {t \in Tx : docs[t].status \in {"PENDING", "FULFILLING"}}

FindStuckFulfilling == {t \in Tx : docs[t].status = "FULFILLING"}

\* Mutants: the comparison with expires_at the wrong way round; rows without a
\* provider id left out.
FindStuckPending_Late(expired) == {t \in Tx : Pending(t) /\ t \in expired}
FindExpiredPending_Attached(expired) ==
    {t \in Tx : Pending(t) /\ t \in expired /\ docs[t].providerTxID # None}

FindStuckPending(expired)  == {t \in Tx : Pending(t) /\ t \notin expired}
FindExpiredPending(expired) == {t \in Tx : Pending(t) /\ t \in expired}

-----------------------------------------------------------------------------
\* The status machine

\* Mutant: no filter on the status.
AtomicClaimFulfilling_Any(t, s) ==
    /\ Exists(t)
    /\ docs' = [docs EXCEPT ![t].status = "FULFILLING", ![t].providerTxID = s]

AtomicClaimFulfilling(t, s) ==
    /\ Pending(t)
    /\ docs' = [docs EXCEPT ![t].status = "FULFILLING", ![t].providerTxID = s]

\* Mutant: no filter on the status.
CommitFulfilled_Any(t) ==
    docs' = IF Exists(t) THEN [docs EXCEPT ![t].status = "FULFILLED"] ELSE docs

CommitFulfilled(t) ==
    docs' = IF docs[t].status = "FULFILLING"
            THEN [docs EXCEPT ![t].status = "FULFILLED"]
            ELSE docs

\* No status filter: any existing row becomes FAILED.
MarkFailed(t) ==
    docs' = IF Exists(t) THEN [docs EXCEPT ![t].status = "FAILED"] ELSE docs

\* No status filter: any existing row becomes PENDING.
ResetToPending(t) ==
    docs' = IF Exists(t) THEN [docs EXCEPT ![t].status = "PENDING"] ELSE docs

\* Mutant: no filter on the status.
MarkTerminalIfPending_Any(t, terminal) ==
    docs' = IF Exists(t) THEN [docs EXCEPT ![t].status = terminal] ELSE docs

MarkTerminalIfPending(t, terminal) ==
    docs' = IF Pending(t) THEN [docs EXCEPT ![t].status = terminal] ELSE docs

MarkCanceledIfPending(t) == MarkTerminalIfPending(t, "CANCELED")
MarkExpiredIfPending(t)  == MarkTerminalIfPending(t, "EXPIRED")

\* Mutant: counts down.
IncrementRetries_Down(t) ==
    docs' = IF Exists(t) THEN [docs EXCEPT ![t].retries = @ - 1] ELSE docs

IncrementRetries(t) ==
    docs' = IF Exists(t) THEN [docs EXCEPT ![t].retries = @ + 1] ELSE docs

-----------------------------------------------------------------------------
\* The provider transaction id

AttachProviderTransaction(t, s) ==
    docs' = IF Pending(t) /\ docs[t].providerTxID = None
            THEN [docs EXCEPT ![t].providerTxID = s]
            ELSE docs

ClearProviderTransactionIfPending(t, s) ==
    docs' = IF Pending(t) /\ docs[t].providerTxID = s
            THEN [docs EXCEPT ![t].providerTxID = None]
            ELSE docs

\* No status filter and no comparison with the id that is replaced.
UpdateProviderTransactionID(t, s) ==
    docs' = IF Exists(t) THEN [docs EXCEPT ![t].providerTxID = s] ELSE docs

-----------------------------------------------------------------------------
\* Refunds

\* Mutants: any refund may be claimed; one that was made may be claimed again.
RefundClaimable_Any(t) == docs[t].status = "FULFILLED"
RefundClaimable_Again(t) ==
    /\ docs[t].status = "FULFILLED"
    /\ docs[t].refund # "REFUNDING"

RefundClaimable(t) ==
    /\ docs[t].status = "FULFILLED"
    /\ docs[t].refund \in {"NONE", "REFUND_FAILED"}

\* The first of the two round trips of both refund claims: does the document
\* have a refund sub-document?
RefundExists(t) == Exists(t) /\ docs[t].refund # "NONE"

\* The second round trip.  "fresh" is the answer the first one gave, read
\* before: when it said there was no sub-document, the update also writes
\* provider_refunded = false.
AtomicClaimRefunding(t, fresh) ==
    /\ RefundClaimable(t)
    /\ docs' = [docs EXCEPT ![t].refund = "REFUNDING",
                            ![t].providerRefunded = IF fresh THEN FALSE ELSE @]

\* Mutant: no filter on the refund.
AtomicClaimExternalRefunding_Any(t) ==
    /\ docs[t].status = "FULFILLED"
    /\ docs' = [docs EXCEPT ![t].refund = "REFUNDING", ![t].providerRefunded = TRUE]

AtomicClaimExternalRefunding(t) ==
    /\ RefundClaimable(t)
    /\ docs' = [docs EXCEPT ![t].refund = "REFUNDING",
                            ![t].providerRefunded = TRUE]

MarkRefundProviderSucceeded(t) ==
    docs' = IF Exists(t) THEN [docs EXCEPT ![t].providerRefunded = TRUE] ELSE docs

CommitRefund(t) ==
    docs' = IF Exists(t)
            THEN [docs EXCEPT ![t].refund = "REFUNDED",
                              ![t].providerRefunded = TRUE]
            ELSE docs

\* Mutants: the update is lost; the constant of the payment status is written.
MarkRefundFailed_Lost(t) == UNCHANGED docs
MarkRefundFailed_Status(t) ==
    docs' = IF Exists(t) THEN [docs EXCEPT ![t].refund = "FAILED"] ELSE docs

MarkRefundFailed(t) ==
    docs' = IF Exists(t) THEN [docs EXCEPT ![t].refund = "REFUND_FAILED"] ELSE docs

=============================================================================
