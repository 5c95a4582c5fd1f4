----------------------------- MODULE MCCheckout -----------------------------
(***************************************************************************)
(* Checkout for TLC.                                                       *)
(***************************************************************************)
EXTENDS Checkout, TLC

\* Rows, orders, pages, sessions and requests are interchangeable.
Symmetry ==
    Permutations(Tx) \cup Permutations(Order) \cup Permutations(Page)
        \cup Permutations(Session) \cup Permutations(Requests)
=============================================================================
