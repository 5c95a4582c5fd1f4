------------------------------ MODULE MCRefund ------------------------------
(***************************************************************************)
(* Refund for TLC.                                                         *)
(***************************************************************************)
EXTENDS Refund

\* What the sync of Komoju and of the generic provider reports as refunded,
\* and what the list of refunds of Xendit does.
OnlySucceeded == {"SUCCEEDED"}
AnyRefund == {"PENDING", "SUCCEEDED", "FAILED"}
=============================================================================
