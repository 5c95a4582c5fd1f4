------------------------------- MODULE Refund -------------------------------
(***************************************************************************)
(* Refunds: the admin's Refund call (claim, provider refund, reversal in   *)
(* AGS, commit), and refunds the provider reports (webhook and sync),      *)
(* interleaved at every store operation and every call to the provider or  *)
(* to AGS.  They start from a fulfilled row.                               *)
(*                                                                         *)
(* External, modelled from how the code uses them: the refund of a payment *)
(* at the provider (rstate), wallets and entitlements of AGS (debits,      *)
(* revoked).  A webhook of a refund may come at any time, and again.        *)
(***************************************************************************)
EXTENDS TxStore

CONSTANTS
    Admins,     \* goroutines serving the admin's Refund
    Webhooks,   \* goroutines serving refund webhooks
    Syncers,    \* goroutines serving a sync (admin or player)
    Credits,    \* wallet credits in the fulfillment history of a transaction
    ReportedAsRefunded, \* refund states that a sync reports as REFUNDED
    MaxErrors,  \* bound on failing calls to the provider or to AGS
    MaxCrashes  \* bound on crashes and failing store operations

RefundState == {"NONE", "PENDING", "SUCCEEDED", "FAILED"}

ASSUME RefundAssumption ==
    /\ Admins \cap Webhooks = {}
    /\ Admins \cap Syncers = {}
    /\ Webhooks \cap Syncers = {}
    /\ ReportedAsRefunded \subseteq RefundState \ {"NONE"}
    /\ MaxErrors \in Nat
    /\ MaxCrashes \in Nat

Observers == Webhooks \cup Syncers
Worker == Admins \cup Observers

VARIABLES
    rstate,  \* provider side: the refund of a transaction's payment
    debits,  \* AGS side: how often a credit was taken back (2: more than once)
    revoked, \* AGS side: transactions whose entitlements were revoked
    errors, crashes,
    pc, target,
    fresh,   \* the claim read that there was no refund sub-document
    left     \* credits ReverseFulfillment has not taken back yet

ags  == <<debits, revoked>>
work == <<pc, target, fresh, left>>
vars == <<docs, rstate, debits, revoked, errors, crashes,
          pc, target, fresh, left>>

Steps == {"idle", "claim", "claimExternal", "refundPayment", "markSucceeded",
          "reverse", "commitRefund", "markRefundFailed"}

TypeOK ==
    /\ StoreTypeOK
    /\ rstate \in [Tx -> RefundState]
    /\ debits \in [Tx -> [Credits -> 0..2]]
    /\ revoked \subseteq Tx
    /\ errors \in 0..MaxErrors
    /\ crashes \in 0..MaxCrashes
    /\ pc \in [Worker -> Steps]
    /\ target \in [Worker -> Tx \cup {None}]
    /\ fresh \in [Worker -> BOOLEAN]
    /\ left \in [Worker -> SUBSET Credits]

FulfilledRow(s) == [NoRow EXCEPT !.status = "FULFILLED", !.providerTxID = s]

Init ==
    /\ docs \in [Tx -> {FulfilledRow(s) : s \in Session}]
    /\ rstate = [t \in Tx |-> "NONE"]
    /\ debits = [t \in Tx |-> [c \in Credits |-> 0]]
    /\ revoked = {}
    /\ errors = 0
    /\ crashes = 0
    /\ pc = [w \in Worker |-> "idle"]
    /\ target = [w \in Worker |-> None]
    /\ fresh = [w \in Worker |-> FALSE]
    /\ left = [w \in Worker |-> {}]

-----------------------------------------------------------------------------
\* Control flow

Idle(w) == pc[w] = "idle"

Goto(w, step) ==
    /\ pc' = [pc EXCEPT ![w] = step]
    /\ UNCHANGED <<target, fresh, left>>

Done(w) ==
    /\ pc' = [pc EXCEPT ![w] = "idle"]
    /\ target' = [target EXCEPT ![w] = None]
    /\ fresh' = [fresh EXCEPT ![w] = FALSE]
    /\ left' = [left EXCEPT ![w] = {}]

\* The claim was granted: reverse all credits of the transaction.
Claimed(w, step) ==
    /\ pc' = [pc EXCEPT ![w] = step]
    /\ left' = [left EXCEPT ![w] = Credits]
    /\ UNCHANGED <<target, fresh>>

Error == errors < MaxErrors /\ errors' = errors + 1

\* A crash, or a store operation that fails: the handler ends where it is.
Crash(w) ==
    /\ ~Idle(w)
    /\ crashes < MaxCrashes
    /\ crashes' = crashes + 1
    /\ Done(w)
    /\ UNCHANGED <<docs, rstate, ags, errors>>

-----------------------------------------------------------------------------
\* The provider

RefundStarts(t) ==
    /\ rstate[t] \in {"NONE", "FAILED"}
    /\ \E s \in {"PENDING", "SUCCEEDED"} : rstate' = [rstate EXCEPT ![t] = s]

\* A refund that somebody starts in the provider's dashboard.
DashboardRefund(t) ==
    /\ RefundStarts(t)
    /\ UNCHANGED <<docs, ags, errors, crashes, work>>

RefundSettles(t) ==
    /\ rstate[t] = "PENDING"
    /\ \E s \in {"SUCCEEDED", "FAILED"} : rstate' = [rstate EXCEPT ![t] = s]
    /\ UNCHANGED <<docs, ags, errors, crashes, work>>

\* Mutant: the refund is marked failed whatever it says.
WebhookRefundFailed_Refund(t) ==
    /\ rstate[t] = "FAILED"
    /\ MarkRefundFailed(t)
    /\ UNCHANGED <<rstate, ags, errors, crashes, work>>

\* The webhook of a refund that failed is taken for one of a failed payment.
WebhookRefundFailed(t) ==
    /\ rstate[t] = "FAILED"
    /\ MarkFailed(t)
    /\ UNCHANGED <<rstate, ags, errors, crashes, work>>

-----------------------------------------------------------------------------
\* The admin's refund

\* First round trip of AtomicClaimRefunding.
AdminReads(a, t) ==
    /\ Idle(a)
    /\ pc' = [pc EXCEPT ![a] = "claim"]
    /\ target' = [target EXCEPT ![a] = t]
    /\ fresh' = [fresh EXCEPT ![a] = ~RefundExists(t)]
    /\ UNCHANGED <<docs, rstate, ags, errors, crashes, left>>

\* Mutant: the provider is never asked.
AdminClaims_Skips(a) ==
    /\ pc[a] = "claim"
    /\ \/ AtomicClaimRefunding(target[a], fresh[a]) /\ Claimed(a, "reverse")
       \/ ~RefundClaimable(target[a]) /\ Done(a) /\ UNCHANGED docs
    /\ UNCHANGED <<rstate, ags, errors, crashes>>

\* Second round trip; a refund the provider already made is not asked again.
AdminClaims(a) ==
    /\ pc[a] = "claim"
    /\ \/ /\ AtomicClaimRefunding(target[a], fresh[a])
          /\ Claimed(a, IF docs'[target[a]].providerRefunded
                        THEN "reverse" ELSE "refundPayment")
       \/ ~RefundClaimable(target[a]) /\ Done(a) /\ UNCHANGED docs
    /\ UNCHANGED <<rstate, ags, errors, crashes>>

\* The provider makes one refund however often it is asked (idempotency key).
\* A call that answers with an error may have made it.
RefundPayment(a) ==
    /\ pc[a] = "refundPayment"
    /\ \/ /\ \/ RefundStarts(target[a])
             \/ rstate[target[a]] \in {"PENDING", "SUCCEEDED"} /\ UNCHANGED rstate
          /\ Goto(a, "markSucceeded")
          /\ UNCHANGED errors
       \/ /\ RefundStarts(target[a]) \/ UNCHANGED rstate
          /\ Error
          /\ Goto(a, "markRefundFailed")
    /\ UNCHANGED <<docs, ags, crashes>>

MarkSucceeded(a) ==
    /\ pc[a] = "markSucceeded"
    /\ MarkRefundProviderSucceeded(target[a])
    /\ Goto(a, "reverse")
    /\ UNCHANGED <<rstate, ags, errors, crashes>>

-----------------------------------------------------------------------------
\* Refunds the provider reports

\* handleProviderRefund and syncProviderRefund read the document first.
Notice(o, t) ==
    /\ Idle(o)
    /\ docs[t].status = "FULFILLED"
    /\ docs[t].refund # "REFUNDED"
    /\ pc' = [pc EXCEPT ![o] = "claimExternal"]
    /\ target' = [target EXCEPT ![o] = t]
    /\ UNCHANGED <<docs, rstate, ags, errors, crashes, fresh, left>>

WebhookRefunded(o, t) == o \in Webhooks /\ rstate[t] = "SUCCEEDED" /\ Notice(o, t)

SyncRefunded(o, t) ==
    o \in Syncers /\ rstate[t] \in ReportedAsRefunded /\ Notice(o, t)

ExternalClaims(o) ==
    /\ pc[o] = "claimExternal"
    /\ \/ AtomicClaimExternalRefunding(target[o]) /\ Claimed(o, "reverse")
       \/ ~RefundClaimable(target[o]) /\ Done(o) /\ UNCHANGED docs
    /\ UNCHANGED <<rstate, ags, errors, crashes>>

-----------------------------------------------------------------------------
\* reverseAGSRefund

TakeBack(t, c) == debits' = [debits EXCEPT ![t][c] = IF @ < 2 THEN @ + 1 ELSE 2]

\* ReverseFulfillment debits the wallets one by one.
Debit(w) ==
    /\ pc[w] = "reverse"
    /\ \E c \in left[w] :
          /\ TakeBack(target[w], c)
          /\ left' = [left EXCEPT ![w] = @ \ {c}]
    /\ UNCHANGED <<docs, rstate, revoked, errors, crashes, pc, target, fresh>>

\* Then it revokes the entitlements, all at once; doing so again is harmless.
Revoke(w) ==
    /\ pc[w] = "reverse"
    /\ left[w] = {}
    /\ revoked' = revoked \cup {target[w]}
    /\ Goto(w, "commitRefund")
    /\ UNCHANGED <<docs, rstate, debits, errors, crashes>>

\* Mutant: an error of AGS is not looked at.
ReverseFails_Commits(w) ==
    /\ pc[w] = "reverse"
    /\ Error
    /\ Goto(w, "commitRefund")
    /\ UNCHANGED <<docs, rstate, ags, crashes>>

\* A call to AGS answers with an error, and may have taken effect.
ReverseFails(w) ==
    /\ pc[w] = "reverse"
    /\ Error
    /\ \/ UNCHANGED ags
       \/ \E c \in left[w] : TakeBack(target[w], c) /\ UNCHANGED revoked
       \/ left[w] = {} /\ revoked' = revoked \cup {target[w]} /\ UNCHANGED debits
    /\ Goto(w, "markRefundFailed")
    /\ UNCHANGED <<docs, rstate, crashes>>

Commit(w) ==
    /\ pc[w] = "commitRefund"
    /\ CommitRefund(target[w])
    /\ Done(w)
    /\ UNCHANGED <<rstate, ags, errors, crashes>>

Fail(w) ==
    /\ pc[w] = "markRefundFailed"
    /\ MarkRefundFailed(target[w])
    /\ Done(w)
    /\ UNCHANGED <<rstate, ags, errors, crashes>>

-----------------------------------------------------------------------------

Provider ==
    \E t \in Tx : DashboardRefund(t) \/ RefundSettles(t) \/ WebhookRefundFailed(t)

Starts ==
    \E t \in Tx : \/ \E a \in Admins : AdminReads(a, t)
                  \/ \E o \in Observers : WebhookRefunded(o, t) \/ SyncRefunded(o, t)

Step(w) ==
    \/ AdminClaims(w) \/ RefundPayment(w) \/ MarkSucceeded(w) \/ ExternalClaims(w)
    \/ Debit(w) \/ Revoke(w) \/ ReverseFails(w) \/ Commit(w) \/ Fail(w)

Next ==
    \/ Provider
    \/ Starts
    \/ \E w \in Worker : Step(w) \/ Crash(w)

Spec == Init /\ [][Next]_vars

\* A handler that was started runs on.
FairSpec == Spec /\ \A w \in Worker : WF_vars(Step(w))

-----------------------------------------------------------------------------
\* Properties

\* w claimed the refund of t and has not finished.
Holds(w, t) ==
    /\ target[w] = t
    /\ pc[w] \in {"refundPayment", "markSucceeded", "reverse", "commitRefund",
                  "markRefundFailed"}

\* The admin, the webhook and the sync never refund one transaction together,
\* and while one of them does, the row says REFUNDING: CommitRefund and
\* MarkRefundFailed, which look at no status, only ever end their own claim.
RefundMutex ==
    \A t \in Tx : \A w \in Worker : Holds(w, t) =>
        /\ docs[t].refund = "REFUNDING"
        /\ \A v \in Worker : Holds(v, t) => v = w

\* Whoever works on a refund works on a row.
Targets == \A w \in Worker : pc[w] # "idle" => target[w] \in Tx

\* A reversal has taken back what is not left to do, and commits last.
ReversalSteps ==
    \A w \in Worker : \A t \in Tx : Holds(w, t) =>
        /\ \A c \in Credits \ left[w] : debits[t][c] > 0
        /\ pc[w] = "commitRefund" => left[w] = {} /\ t \in revoked

Reversed(t) == t \in revoked /\ \A c \in Credits : debits[t][c] > 0

\* REFUNDED means that everything was taken back, although a retry starts the
\* reversal over and the commit does not look at what was done.
RefundedIsReversed ==
    \A t \in Tx : docs[t].refund = "REFUNDED" => Reversed(t)

\* Nothing is taken back from a player whose payment the provider was never
\* asked to refund, whoever starts the refund and whatever it finds recorded.
NoFreeReversal ==
    \A t \in Tx : t \in revoked \/ (\E c \in Credits : debits[t][c] > 0)
                     => rstate[t] # "NONE"

\* What is recorded of the provider, and who reverses, followed a refund there.
AskedFirst ==
    /\ \A t \in Tx : docs[t].providerRefunded => rstate[t] # "NONE"
    /\ \A w \in Worker :
          pc[w] \in {"claimExternal", "markSucceeded", "reverse", "commitRefund"}
             => rstate[target[w]] # "NONE"

\* The inductive invariant.
RInv ==
    /\ TypeOK
    /\ Targets
    /\ RefundMutex
    /\ ReversalSteps
    /\ RefundedIsReversed
    /\ AskedFirst
    /\ NoFreeReversal

\* A refund that was committed stays committed, whatever arrives late.
RefundedStep ==
    \A t \in Tx : docs[t].refund = "REFUNDED" => docs'[t].refund = "REFUNDED"
RefundedIsFinal == [][RefundedStep]_docs

\* The abstract contract: payments that went well, and their refunds.
Contract == INSTANCE PaymentContract WITH
    paid     <- Tx,
    granted  <- Tx,
    status   <- [t \in Tx |-> docs[t].status],
    asked    <- {t \in Tx : rstate[t] # "NONE"},
    returned <- {t \in Tx : Reversed(t)},
    refund   <- [t \in Tx |-> docs[t].refund]

\* Whoever refunds, and however often it is retried, a row only changes as the
\* contract allows: one claim at a time, taken back after the provider was
\* asked, committed when all is taken back, and never again after that.
KeepsContract == Contract!Spec

\* A claimed refund ends, as REFUNDED or so that it can be retried (proto:
\* "safe to retry"), unless a handler crashes or a store operation fails:
\* nothing claims a row again that says REFUNDING.
RefundEndsUnlessCrashed ==
    [](crashes = 0) =>
        \A t \in Tx : docs[t].refund = "REFUNDING" ~> docs[t].refund # "REFUNDING"

\* Proto: "Idempotent - safe to retry": retries take a credit back once.
DebitedOnce == \A t \in Tx : \A c \in Credits : debits[t][c] <= 1
=============================================================================
