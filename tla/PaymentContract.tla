-------------------------- MODULE PaymentContract --------------------------
(***************************************************************************)
(* What the gateway promises about one row, whatever its handlers, jobs,   *)
(* crashes and retries are doing: which status may follow which, and what  *)
(* must have happened to the money and to the item before.  It knows no    *)
(* processes, no sessions and no webhooks.  PaymentLifecycle and Refund    *)
(* implement it.                                                           *)
(***************************************************************************)
CONSTANT Tx

VARIABLES
    paid,     \* transactions the player has paid at a provider
    granted,  \* transactions whose item AGS has granted
    status,   \* what their rows say
    asked,    \* transactions whose payment the provider was asked to refund
    returned, \* transactions whose item was taken back completely
    refund    \* what the refund sub-document of their rows says

money == <<paid, granted>>
back  == <<asked, returned>>
vars  == <<paid, granted, status, asked, returned, refund>>

\* An empty collection, or one of payments that went well.
Init ==
    /\ paid \subseteq Tx
    /\ granted = paid
    /\ status = [t \in Tx |-> IF t \in paid THEN "FULFILLED" ELSE "ABSENT"]
    /\ asked = {}
    /\ returned = {}
    /\ refund = [t \in Tx |-> "NONE"]

Existing(t) == status[t] \notin {"ABSENT", "GONE"}

-----------------------------------------------------------------------------
\* The payment

\* Provider and AGS
Pay(t) ==
    /\ paid' = paid \cup {t}
    /\ UNCHANGED <<granted, status, back, refund>>

Grant(t) ==
    /\ t \in paid
    /\ granted' = granted \cup {t}
    /\ UNCHANGED <<paid, status, back, refund>>

\* The row of t turns from one status to another.
Becomes(t, new) ==
    /\ status' = [status EXCEPT ![t] = new]
    /\ UNCHANGED <<money, back, refund>>

Insert(t) == status[t] = "ABSENT" /\ Becomes(t, "PENDING")

Claim(t) == status[t] = "PENDING" /\ t \in paid /\ Becomes(t, "FULFILLING")

Deliver(t) == status[t] = "FULFILLING" /\ t \in granted /\ Becomes(t, "FULFILLED")

\* A handler whose grant failed puts the row back, whatever it says by then;
\* but only a row that was paid for and is not closed.
Reopen(t) ==
    /\ status[t] \in {"FULFILLING", "FULFILLED", "FAILED"}
    /\ t \in paid
    /\ Becomes(t, "PENDING")

Close(t) ==
    /\ status[t] = "PENDING"
    /\ Becomes(t, "CANCELED") \/ Becomes(t, "EXPIRED")

\* Any row may fail, and that of a direct intent may be deleted.
Fail(t)   == Existing(t) /\ Becomes(t, "FAILED")
Delete(t) == Existing(t) /\ Becomes(t, "GONE")

-----------------------------------------------------------------------------
\* The refund

AskRefund(t) ==
    /\ asked' = asked \cup {t}
    /\ UNCHANGED <<money, status, returned, refund>>

RefundBecomes(t, new) ==
    /\ refund' = [refund EXCEPT ![t] = new]
    /\ UNCHANGED <<money, status, back>>

ClaimRefund(t) ==
    /\ status[t] = "FULFILLED"
    /\ refund[t] \in {"NONE", "REFUND_FAILED"}
    /\ RefundBecomes(t, "REFUNDING")

TakeBack(t) ==
    /\ refund[t] = "REFUNDING"
    /\ t \in asked
    /\ returned' = returned \cup {t}
    /\ UNCHANGED <<money, status, asked, refund>>

CommitRefund(t) ==
    /\ refund[t] = "REFUNDING"
    /\ t \in returned
    /\ RefundBecomes(t, "REFUNDED")

FailRefund(t) == refund[t] = "REFUNDING" /\ RefundBecomes(t, "REFUND_FAILED")

-----------------------------------------------------------------------------

Next ==
    \E t \in Tx :
        \/ Pay(t) \/ Grant(t) \/ Insert(t) \/ Claim(t) \/ Deliver(t)
        \/ Reopen(t) \/ Close(t) \/ Fail(t) \/ Delete(t)
        \/ AskRefund(t) \/ ClaimRefund(t) \/ TakeBack(t)
        \/ CommitRefund(t) \/ FailRefund(t)

Spec == Init /\ [][Next]_vars

-----------------------------------------------------------------------------
\* What the contract is worth: whoever implements it can lose neither money nor
\* an item over the whole life of a row.

\* Nothing is given that was not paid, and no row says that something was given
\* that was not.
NothingForFree ==
    /\ granted \subseteq paid
    /\ \A t \in Tx : status[t] = "FULFILLED" => t \in granted

\* Only what was given is taken back, and only if the money goes back, too; and
\* no row says that something was taken back that was not.
NothingLost ==
    /\ returned \subseteq granted \cap asked
    /\ \A t \in Tx : refund[t] = "REFUNDED" => t \in returned

\* A deleted row stays deleted and a committed refund committed; what happened
\* to money and item is never undone.
NothingUndone ==
    [][/\ paid \subseteq paid' /\ granted \subseteq granted'
       /\ asked \subseteq asked' /\ returned \subseteq returned'
       /\ \A t \in Tx : status[t] = "GONE" => status'[t] = "GONE"
       /\ \A t \in Tx : refund[t] = "REFUNDED" => refund'[t] = "REFUNDED"]_vars
=============================================================================
