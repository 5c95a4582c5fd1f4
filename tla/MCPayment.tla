----------------------------- MODULE MCPayment -----------------------------
(***************************************************************************)
(* PaymentLifecycle for TLC: symmetry, and specifications that start from  *)
(* a row that is already in the store.                                     *)
(***************************************************************************)
EXTENDS PaymentInvariants, Functions, TLC

\* Requests are interchangeable, and so are sessions.
Symmetry == Permutations(Requests) \cup Permutations(Session)

\* Every row is in the store and the provider has an open session of its own
\* for it, attached to the row: after CreateCheckout, SelectProvider,
\* OpenSelected and Attach.
Opened ==
    \E own \in Injection(Tx, Session) :
        /\ docs = [t \in Tx |->
                     [NoRow EXCEPT !.status = "PENDING", !.providerTxID = own[t]]]
        /\ hosted = Tx
        /\ sstate = [s \in Session |-> IF s \in Range(own) THEN "PENDING" ELSE "UNUSED"]
        /\ stx = [s \in Session |-> IF s \in Range(own) THEN Inverse(own, Tx, Session)[s]
                                                      ELSE None]
        /\ ProcInit

\* Hosted checkout before its deadline; no webhook need arrive.
HostedSpec == Opened /\ [][Next /\ UNCHANGED expired]_vars /\ Fairness

\* Hosted checkout with a deadline, and a provider that repeats its webhook.
ExpirySpec == Opened /\ [][Next]_vars
              /\ Fairness /\ TimeFairness /\ WebhookFairness
=============================================================================
