---------------------------- MODULE MemoryStore ----------------------------
(***************************************************************************)
(* The in-memory implementation of store.Store (internal/store/memory).    *)
(* Every call holds the lock from its lookup to its update, so it is one   *)
(* action; err is the error it returns.  Unlike the DocumentDB store, a    *)
(* call on a missing row always says so, and refund updates leave a row    *)
(* without a refund alone.                                                 *)
(***************************************************************************)
EXTENDS Integers, Functions

CONSTANTS None

VARIABLE mem  \* the map of rows by id; the rows are those of TxStore

NewRow == [status |-> "PENDING", providerTxID |-> None, retries |-> 0,
           refund |-> "NONE", providerRefunded |-> FALSE]

\* A locked lookup, check and write.
Update(t, err, matches, row) ==
    /\ err = IF t \notin DOMAIN mem THEN "ErrNotFound"
             ELSE IF matches THEN "nil" ELSE "ErrNoDocuments"
    /\ mem' = IF err = "nil" THEN [mem EXCEPT ![t] = row] ELSE mem

Pending(t) == mem[t].status = "PENDING"

CreateTransaction(t) ==
    mem' = [x \in DOMAIN mem \cup {t} |-> IF x = t THEN NewRow ELSE mem[x]]

DeleteTransaction(t) == mem' = Restrict(mem, DOMAIN mem \ {t})

AtomicClaimFulfilling(t, s, err) ==
    Update(t, err, Pending(t), [mem[t] EXCEPT !.status = "FULFILLING", !.providerTxID = s])

\* No filter on FULFILLING.
CommitFulfilled(t, err) == Update(t, err, TRUE, [mem[t] EXCEPT !.status = "FULFILLED"])

MarkFailed(t, err) == Update(t, err, TRUE, [mem[t] EXCEPT !.status = "FAILED"])

ResetToPending(t, err) == Update(t, err, TRUE, [mem[t] EXCEPT !.status = "PENDING"])

\* Mutant: no check of the status.
MarkTerminalIfPending_Any(t, terminal, err) ==
    Update(t, err, TRUE, [mem[t] EXCEPT !.status = terminal])

MarkTerminalIfPending(t, terminal, err) ==
    Update(t, err, Pending(t), [mem[t] EXCEPT !.status = terminal])

\* Mutant: counts down.
IncrementRetries_Down(t, err) ==
    Update(t, err, TRUE, [mem[t] EXCEPT !.retries = @ - 1])

IncrementRetries(t, err) == Update(t, err, TRUE, [mem[t] EXCEPT !.retries = @ + 1])

\* Mutant: the check of the id is answered with success.
AttachProviderTransaction_Lenient(t, s, err) ==
    Update(t, err, Pending(t), [mem[t] EXCEPT !.providerTxID = IF @ = None THEN s ELSE @])

AttachProviderTransaction(t, s, err) ==
    Update(t, err, Pending(t) /\ mem[t].providerTxID = None,
           [mem[t] EXCEPT !.providerTxID = s])

ClearProviderTransactionIfPending(t, s, err) ==
    Update(t, err, Pending(t) /\ mem[t].providerTxID = s /\ s # None,
           [mem[t] EXCEPT !.providerTxID = None])

UpdateProviderTransactionID(t, s, err) ==
    Update(t, err, TRUE, [mem[t] EXCEPT !.providerTxID = s])

RefundClaimable(t) ==
    mem[t].status = "FULFILLED" /\ mem[t].refund \in {"NONE", "REFUND_FAILED"}

\* A new sub-document starts with ProviderRefunded = false, an old one keeps it.
AtomicClaimRefunding(t, err) ==
    Update(t, err, RefundClaimable(t),
           [mem[t] EXCEPT !.refund = "REFUNDING",
                          !.providerRefunded = mem[t].refund # "NONE" /\ @])

AtomicClaimExternalRefunding(t, err) ==
    Update(t, err, RefundClaimable(t),
           [mem[t] EXCEPT !.refund = "REFUNDING", !.providerRefunded = TRUE])

\* An update of the refund sub-document, if there is one.
UpdateRefund(t, err, status, refunded) ==
    Update(t, err, TRUE,
           IF mem[t].refund = "NONE" THEN mem[t]
           ELSE [mem[t] EXCEPT !.refund = status, !.providerRefunded = refunded])

MarkRefundProviderSucceeded(t, err) == UpdateRefund(t, err, mem[t].refund, TRUE)
CommitRefund(t, err)                == UpdateRefund(t, err, "REFUNDED", TRUE)
MarkRefundFailed(t, err) == UpdateRefund(t, err, "REFUND_FAILED", mem[t].providerRefunded)
=============================================================================
