---------------------------- MODULE StoreProofs ----------------------------
(***************************************************************************)
(* What the operations of the store do to the documents, as lemmas: the    *)
(* type of the collection, and for the operations that write the status,   *)
(* which statuses they can turn into which.                                *)
(***************************************************************************)
EXTENDS TxStore, TLAPS

\* The document of a row that does not exist is a document.
LEMMA NoRowType == NoRow \in Doc
  BY DEF NoRow, Doc, TxStatus, RefundStatus

\* An update of the status keeps the documents typed.
LEMMA StatusType ==
  ASSUME StoreTypeOK, NEW t, NEW status \in TxStatus,
         docs' = [docs EXCEPT ![t].status = status]
  PROVE  StoreTypeOK'
  BY DEF StoreTypeOK, Doc

\* An update of the provider id keeps the documents typed.
LEMMA ProviderTxIDType ==
  ASSUME StoreTypeOK, NEW t, NEW s \in Session \cup {None},
         docs' = [docs EXCEPT ![t].providerTxID = s]
  PROVE  StoreTypeOK'
  BY DEF StoreTypeOK, Doc

\* Inserting a row keeps the collection typed.
LEMMA CreateTransactionType ==
  ASSUME StoreTypeOK, NEW t, CreateTransaction(t)
  PROVE  StoreTypeOK'
  BY StatusType DEF CreateTransaction, TxStatus

\* Deleting a row keeps the collection typed.
LEMMA DeleteTransactionType ==
  ASSUME StoreTypeOK, NEW t, DeleteTransaction(t)
  PROVE  StoreTypeOK'
  BY StatusType DEF DeleteTransaction, TxStatus, StoreTypeOK

\* Claiming a row for fulfillment keeps the collection typed.
LEMMA AtomicClaimFulfillingType ==
  ASSUME StoreTypeOK, NEW t, NEW s \in Session \cup {None}, AtomicClaimFulfilling(t, s)
  PROVE  StoreTypeOK'
<1> DEFINE claimed == [docs EXCEPT ![t].status = "FULFILLING"]
<1>1. docs' = [claimed EXCEPT ![t].providerTxID = s]
  BY DEF AtomicClaimFulfilling, StoreTypeOK, Doc
<1>2. claimed \in [Tx -> Doc]
  BY DEF StoreTypeOK, Doc, TxStatus
<1> QED
  BY <1>1, <1>2 DEF StoreTypeOK, Doc

\* Committing a fulfilled row keeps the collection typed.
LEMMA CommitFulfilledType ==
  ASSUME StoreTypeOK, NEW t, CommitFulfilled(t)
  PROVE  StoreTypeOK'
  BY StatusType DEF CommitFulfilled, TxStatus, StoreTypeOK

\* Failing a row keeps the collection typed.
LEMMA MarkFailedType ==
  ASSUME StoreTypeOK, NEW t, MarkFailed(t)
  PROVE  StoreTypeOK'
  BY StatusType DEF MarkFailed, TxStatus, StoreTypeOK

\* Resetting a row keeps the collection typed.
LEMMA ResetToPendingType ==
  ASSUME StoreTypeOK, NEW t, ResetToPending(t)
  PROVE  StoreTypeOK'
  BY StatusType DEF ResetToPending, TxStatus, StoreTypeOK

\* Canceling or expiring a row keeps the collection typed.
LEMMA TerminalType ==
  ASSUME StoreTypeOK, NEW t, MarkCanceledIfPending(t) \/ MarkExpiredIfPending(t)
  PROVE  StoreTypeOK'
  BY StatusType
     DEF MarkCanceledIfPending, MarkExpiredIfPending, MarkTerminalIfPending,
         TxStatus, StoreTypeOK

\* Counting a retry keeps the collection typed.
LEMMA IncrementRetriesType ==
  ASSUME StoreTypeOK, NEW t, IncrementRetries(t)
  PROVE  StoreTypeOK'
<1>1. ASSUME NEW u \in Tx PROVE docs'[u] \in Doc
  BY DEF IncrementRetries, StoreTypeOK, Doc
<1> QED
  BY <1>1 DEF IncrementRetries, StoreTypeOK

\* Attaching a provider id keeps the collection typed.
LEMMA AttachType ==
  ASSUME StoreTypeOK, NEW t, NEW s \in Session \cup {None},
         AttachProviderTransaction(t, s)
  PROVE  StoreTypeOK'
  BY ProviderTxIDType DEF AttachProviderTransaction, StoreTypeOK

\* Clearing the provider id keeps the collection typed.
LEMMA ClearType ==
  ASSUME StoreTypeOK, NEW t, NEW s, ClearProviderTransactionIfPending(t, s)
  PROVE  StoreTypeOK'
  BY ProviderTxIDType DEF ClearProviderTransactionIfPending, StoreTypeOK

\* Replacing the provider id keeps the collection typed.
LEMMA UpdateProviderType ==
  ASSUME StoreTypeOK, NEW t, NEW s \in Session \cup {None},
         UpdateProviderTransactionID(t, s)
  PROVE  StoreTypeOK'
  BY ProviderTxIDType DEF UpdateProviderTransactionID, StoreTypeOK

-----------------------------------------------------------------------------
\* The refund sub-document: what an operation on t writes to it, and that it
\* writes to no other row.

\* Both claims take a refund nobody holds; the admin's claim records no refund
\* by the provider that was not recorded before.
LEMMA RefundClaimWrites ==
  ASSUME StoreTypeOK, NEW t \in Tx, NEW fresh \in BOOLEAN,
         AtomicClaimRefunding(t, fresh) \/ AtomicClaimExternalRefunding(t)
  PROVE  /\ StoreTypeOK'
         /\ docs[t].refund \in {"NONE", "REFUND_FAILED"}
         /\ docs'[t].refund = "REFUNDING"
         /\ AtomicClaimRefunding(t, fresh) /\ docs'[t].providerRefunded
               => docs[t].providerRefunded
         /\ \A u \in Tx \ {t} : docs'[u] = docs[u]
<1>1. PICK b \in BOOLEAN :
        docs' = [docs EXCEPT ![t].refund = "REFUNDING", ![t].providerRefunded = b]
  <2>1. docs[t].providerRefunded \in BOOLEAN
    BY DEF StoreTypeOK, Doc
  <2>2. CASE AtomicClaimExternalRefunding(t)
    BY <2>2 DEF AtomicClaimExternalRefunding
  <2>3. CASE AtomicClaimRefunding(t, fresh)
    BY <2>1, <2>3 DEF AtomicClaimRefunding, StoreTypeOK
  <2> QED
    BY <2>2, <2>3
<1>2. docs' = [docs EXCEPT ![t] = [docs[t] EXCEPT !.refund = "REFUNDING",
                                                  !.providerRefunded = b]]
  BY <1>1 DEF StoreTypeOK, Doc
<1>3. docs'[t] = [docs[t] EXCEPT !.refund = "REFUNDING", !.providerRefunded = b]
  BY <1>2 DEF StoreTypeOK
<1>4. docs'[t] \in Doc /\ docs'[t].refund = "REFUNDING"
  <2>1. docs[t] \in Doc /\ "REFUNDING" \in RefundStatus
    BY DEF StoreTypeOK, RefundStatus
  <2> QED
    BY <1>3, <2>1 DEF Doc
<1>5. StoreTypeOK' /\ \A u \in Tx \ {t} : docs'[u] = docs[u]
  BY <1>2, <1>4 DEF StoreTypeOK
<1>6. docs[t].refund \in {"NONE", "REFUND_FAILED"}
  BY DEF AtomicClaimRefunding, AtomicClaimExternalRefunding, RefundClaimable
<1>7. AtomicClaimRefunding(t, fresh) /\ docs'[t].providerRefunded
        => docs[t].providerRefunded
  BY DEF AtomicClaimRefunding, StoreTypeOK, Doc
<1> QED
  BY <1>4, <1>5, <1>6, <1>7

\* Recording the provider's refund leaves the status of the refund alone.
LEMMA ProviderSucceededWrites ==
  ASSUME StoreTypeOK, NEW t \in Tx, MarkRefundProviderSucceeded(t)
  PROVE  /\ StoreTypeOK'
         /\ docs'[t].refund = docs[t].refund
         /\ \A u \in Tx \ {t} : docs'[u] = docs[u]
  BY DEF StoreTypeOK, Doc, MarkRefundProviderSucceeded

\* A commit writes REFUNDED, or finds no row.
LEMMA CommitRefundWrites ==
  ASSUME StoreTypeOK, NEW t \in Tx, CommitRefund(t)
  PROVE  /\ StoreTypeOK'
         /\ \A u \in Tx \ {t} : docs'[u] = docs[u]
<1>1. ASSUME NEW u \in Tx PROVE docs'[u] \in Doc
  BY DEF StoreTypeOK, Doc, RefundStatus, CommitRefund
<1> QED
  BY <1>1 DEF StoreTypeOK, CommitRefund

\* Failing a refund never writes REFUNDED and leaves the provider's refund alone.
LEMMA RefundFailedWrites ==
  ASSUME StoreTypeOK, NEW t \in Tx, MarkRefundFailed(t)
  PROVE  /\ StoreTypeOK'
         /\ docs'[t].refund = "REFUND_FAILED" \/ docs' = docs
         /\ docs'[t].providerRefunded = docs[t].providerRefunded
         /\ \A u \in Tx \ {t} : docs'[u] = docs[u]
  BY DEF StoreTypeOK, Doc, RefundStatus, MarkRefundFailed

\* Failing the payment leaves the refund alone.
LEMMA MarkFailedWrites ==
  ASSUME StoreTypeOK, NEW t \in Tx, MarkFailed(t)
  PROVE  /\ StoreTypeOK'
         /\ \A u \in Tx : /\ docs'[u].refund = docs[u].refund
                          /\ docs'[u].providerRefunded = docs[u].providerRefunded
<1>1. StoreTypeOK'
  BY MarkFailedType
<1> QED
  BY <1>1 DEF StoreTypeOK, Doc, MarkFailed

=============================================================================
