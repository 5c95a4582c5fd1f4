------------------------------- MODULE Stores -------------------------------
(***************************************************************************)
(* The two implementations of store.Store side by side: every call of the  *)
(* gateway is made to both, in any order a caller could make them.  The    *)
(* memory store is meant to preserve "the same compare-and-swap semantics  *)
(* as DocumentDB".                                                         *)
(***************************************************************************)
EXTENDS TxStore

CONSTANT MaxIncrements  \* bounds retries

ASSUME StoresAssumption == MaxIncrements \in Nat

VARIABLES
    mem,    \* the rows of the memory store
    said,   \* the answers of the two stores to the last call, and its row
    stray   \* rows that a CommitFulfilled found not FULFILLING: their
            \* comparison ends there

vars == <<docs, mem, said, stray>>

M == INSTANCE MemoryStore

Errors == {"nil", "ErrNotFound", "ErrNoDocuments"}

Rows == {t \in Tx : Exists(t)}

TypeOK ==
    /\ StoreTypeOK
    /\ DOMAIN mem = Rows
    /\ \A t \in Rows : mem[t] \in Doc
    /\ said \in [db : Errors, mem : Errors, row : Tx \cup {None}]
    /\ stray \subseteq Tx

Init ==
    /\ StoreInit
    /\ mem = [t \in {} |-> M!NewRow]
    /\ said = [db |-> "nil", mem |-> "nil", row |-> None]
    /\ stray = {}

\* What an update of the DocumentDB store answers when its filter matches or
\* does not, and one whose result nobody looks at.
Filtered(t, matches) ==
    IF matches THEN "nil" ELSE IF Exists(t) THEN "ErrNoDocuments" ELSE "ErrNotFound"

Say(t, db, err) == said' = [db |-> db, mem |-> err, row |-> t] /\ UNCHANGED stray

-----------------------------------------------------------------------------
Create(t) ==
    /\ docs[t].status = "ABSENT"
    /\ CreateTransaction(t) /\ M!CreateTransaction(t)
    /\ Say(t, "nil", "nil")

Delete(t) ==
    /\ DeleteTransaction(t) /\ M!DeleteTransaction(t)
    /\ Say(t, "nil", "nil")

ClaimFulfilling(t, s, err) ==
    /\ M!AtomicClaimFulfilling(t, s, err)
    /\ IF Pending(t) THEN AtomicClaimFulfilling(t, s) ELSE UNCHANGED docs
    /\ Say(t, Filtered(t, Pending(t)), err)

Commits(t, err) ==
    /\ CommitFulfilled(t) /\ M!CommitFulfilled(t, err)
    /\ said' = [db |-> "nil", mem |-> err, row |-> t]
    /\ stray' = IF docs[t].status = "FULFILLING" THEN stray ELSE stray \cup {t}

Fails(t, err) == MarkFailed(t) /\ M!MarkFailed(t, err) /\ Say(t, "nil", err)
Resets(t, err) == ResetToPending(t) /\ M!ResetToPending(t, err) /\ Say(t, "nil", err)

Ends(t, terminal, err) ==
    /\ MarkTerminalIfPending(t, terminal) /\ M!MarkTerminalIfPending(t, terminal, err)
    /\ Say(t, Filtered(t, Pending(t)), err)

Retries(t, err) ==
    /\ docs[t].retries < MaxIncrements
    /\ IncrementRetries(t) /\ M!IncrementRetries(t, err) /\ Say(t, "nil", err)

Attaches(t, s, err) ==
    /\ AttachProviderTransaction(t, s) /\ M!AttachProviderTransaction(t, s, err)
    /\ Say(t, Filtered(t, Pending(t) /\ docs[t].providerTxID = None), err)

Clears(t, s, err) ==
    /\ ClearProviderTransactionIfPending(t, s)
    /\ M!ClearProviderTransactionIfPending(t, s, err)
    /\ Say(t, Filtered(t, Pending(t) /\ docs[t].providerTxID = s), err)

UpdatesId(t, s, err) ==
    /\ UpdateProviderTransactionID(t, s) /\ M!UpdateProviderTransactionID(t, s, err)
    /\ Say(t, Filtered(t, Exists(t)), err)

\* The claim of an admin does not tell a missing row from one that is taken.
ClaimsRefund(t, err) ==
    /\ M!AtomicClaimRefunding(t, err)
    /\ IF RefundClaimable(t) THEN AtomicClaimRefunding(t, ~RefundExists(t))
       ELSE UNCHANGED docs
    /\ Say(t, IF RefundClaimable(t) THEN "nil" ELSE "ErrNoDocuments", err)

ClaimsExternalRefund(t, err) ==
    /\ M!AtomicClaimExternalRefunding(t, err)
    /\ IF RefundClaimable(t) THEN AtomicClaimExternalRefunding(t) ELSE UNCHANGED docs
    /\ Say(t, Filtered(t, RefundClaimable(t)), err)

\* The handlers update a refund only after they claimed it.
UpdatesRefund(t, err) ==
    /\ docs[t].refund # "NONE"
    /\ \/ MarkRefundProviderSucceeded(t) /\ M!MarkRefundProviderSucceeded(t, err)
       \/ CommitRefund(t) /\ M!CommitRefund(t, err)
       \/ MarkRefundFailed(t) /\ M!MarkRefundFailed(t, err)
    /\ Say(t, "nil", err)

Next ==
    \E t \in Tx \ stray :
      \/ Create(t) \/ Delete(t)
      \/ \E err \in Errors :
           \/ Commits(t, err) \/ Fails(t, err) \/ Resets(t, err) \/ Retries(t, err)
           \/ \E terminal \in {"CANCELED", "EXPIRED"} : Ends(t, terminal, err)
           \/ ClaimsRefund(t, err) \/ ClaimsExternalRefund(t, err) \/ UpdatesRefund(t, err)
           \/ \E s \in Session :
                \/ ClaimFulfilling(t, s, err) \/ Attaches(t, s, err)
                \/ Clears(t, s, err) \/ UpdatesId(t, s, err)

Spec == Init /\ [][Next]_vars

-----------------------------------------------------------------------------
\* Properties

\* After the same calls the two stores hold the same rows - except for rows
\* that some CommitFulfilled found in another status than FULFILLING, which
\* the memory store fulfils all the same.
StoresAgree == \A t \in Rows \ stray : mem[t] = docs[t]

\* On a row that exists the two stores let the same caller win: a call fails
\* at the one exactly if it fails at the other.
AnswersAgree ==
    said.row \in Rows \ stray => said.db = said.mem
=============================================================================
