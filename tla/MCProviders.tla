---------------------------- MODULE MCProviders ----------------------------
(***************************************************************************)
(* Providers for TLC: configurations of a generic provider, and symmetry.  *)
(***************************************************************************)
EXTENDS Providers, TLC

NoWords == [success |-> {}, expired |-> {}, paid |-> {}, pending |-> {}]
AllWords == [success |-> {"CANCELED"}, expired |-> {"EXPIRED"},
             paid |-> {"PAID", "REFUNDED"}, pending |-> {"OPEN"}]

\* Everything optional left out; everything configured; no refund value, and
\* a cancel without a status in its answer.
Bare == [success |-> "PAID", webhookFailed |-> "FAILED", pending |-> "OPEN", failed |-> {},
         refund |-> "", status |-> FALSE, amountPath |-> FALSE,
         cancels |-> FALSE, cancel |-> NoWords]
Full == [Bare EXCEPT !.failed = {"FAILED", "CANCELED", "EXPIRED"}, !.refund = "REFUNDED",
                     !.status = TRUE, !.amountPath = TRUE,
                     !.cancels = TRUE, !.cancel = AllWords]
Partial == [Full EXCEPT !.refund = "", !.cancel = NoWords]

GenericConfigs == {Bare, Full, Partial}
FullConfig == {Full}

\* Refunds are interchangeable.
Symmetry == Permutations(RefundIds)
=============================================================================
