----------------------- MODULE PaymentContractProofs -----------------------
(***************************************************************************)
(* What the contract is worth, for every set of rows: along its steps no   *)
(* item is given for free and none is taken back for nothing.              *)
(***************************************************************************)
EXTENDS PaymentContract, TLAPS

RowStatus == {"ABSENT", "PENDING", "FULFILLING", "FULFILLED", "FAILED", "CANCELED", "EXPIRED",
              "GONE"}
RefundStatus == {"NONE", "REFUNDING", "REFUNDED", "REFUND_FAILED"}

TypeOK ==
    /\ paid \subseteq Tx /\ granted \subseteq Tx
    /\ asked \subseteq Tx /\ returned \subseteq Tx
    /\ status \in [Tx -> RowStatus]
    /\ refund \in [Tx -> RefundStatus]

\* A row that is claimed was paid for, and one that is or was refunded given.
CInv ==
    /\ TypeOK /\ NothingForFree /\ NothingLost
    /\ \A t \in Tx : status[t] = "FULFILLING" => t \in paid
    /\ \A t \in Tx : refund[t] # "NONE" => t \in granted

LEMMA ContractStarts == Init => CInv
  BY DEF Init, CInv, TypeOK, NothingForFree, NothingLost, RowStatus, RefundStatus

\* A step of the payment keeps the invariant and undoes nothing.
LEMMA PaymentStep ==
  ASSUME CInv, NEW t \in Tx,
         Pay(t) \/ Grant(t) \/ Insert(t) \/ Claim(t) \/ Deliver(t)
           \/ Reopen(t) \/ Close(t) \/ Fail(t) \/ Delete(t)
  PROVE  /\ CInv'
         /\ paid \subseteq paid' /\ granted \subseteq granted'
         /\ UNCHANGED <<asked, returned, refund>>
         /\ \A u \in Tx : status[u] = "GONE" => status'[u] = "GONE"
<1> USE DEF CInv, TypeOK, NothingForFree, NothingLost, RowStatus, RefundStatus, back, money
<1>1. CASE Pay(t)
  BY <1>1 DEF Pay
<1>2. CASE Grant(t)
  BY <1>2 DEF Grant
<1>3. ASSUME NEW new \in RowStatus, Becomes(t, new), status[t] # "GONE",
             new = "FULFILLING" => t \in paid, new = "FULFILLED" => t \in granted
      PROVE  /\ CInv'
             /\ UNCHANGED <<paid, granted, asked, returned, refund>>
             /\ \A u \in Tx : status[u] = "GONE" => status'[u] = "GONE"
  BY <1>3 DEF Becomes
<1>4. \/ Pay(t) \/ Grant(t)
      \/ \E new \in RowStatus :
            /\ Becomes(t, new) /\ status[t] # "GONE"
            /\ new = "FULFILLING" => t \in paid
            /\ new = "FULFILLED" => t \in granted
  BY DEF Insert, Claim, Deliver, Reopen, Close, Fail, Delete, Existing
<1> QED
  BY <1>1, <1>2, <1>3, <1>4

\* So does a step of the refund.
LEMMA RefundStep ==
  ASSUME CInv, NEW t \in Tx,
         AskRefund(t) \/ ClaimRefund(t) \/ TakeBack(t) \/ CommitRefund(t) \/ FailRefund(t)
  PROVE  /\ CInv'
         /\ asked \subseteq asked' /\ returned \subseteq returned'
         /\ UNCHANGED <<paid, granted, status>>
         /\ \A u \in Tx : refund[u] = "REFUNDED" => refund'[u] = "REFUNDED"
<1> USE DEF CInv, TypeOK, NothingForFree, NothingLost, RowStatus, RefundStatus, back, money
<1>1. CASE AskRefund(t)
  BY <1>1 DEF AskRefund
<1>2. CASE TakeBack(t)
  BY <1>2 DEF TakeBack
<1>3. CASE ClaimRefund(t)
  BY <1>3 DEF ClaimRefund, RefundBecomes
<1>4. CASE CommitRefund(t)
  BY <1>4 DEF CommitRefund, RefundBecomes
<1>5. CASE FailRefund(t)
  BY <1>5 DEF FailRefund, RefundBecomes
<1> QED
  BY <1>1, <1>2, <1>3, <1>4, <1>5

LEMMA ContractKeeps == CInv /\ [Next]_vars => CInv'
<1> SUFFICES ASSUME CInv, [Next]_vars PROVE CInv'
  OBVIOUS
<1>1. CASE Next
  BY <1>1, PaymentStep, RefundStep DEF Next
<1>2. CASE UNCHANGED vars
  BY <1>2 DEF vars, CInv, TypeOK, NothingForFree, NothingLost
<1> QED
  BY <1>1, <1>2

\* A row that is claimed was paid for, and one whose refund was claimed was granted.
THEOREM ContractInvariant == Spec => []CInv
  BY ContractStarts, ContractKeeps, PTL DEF Spec

\* Over the whole life of a row nothing is given for free.
THEOREM NothingForFreeHolds == Spec => []NothingForFree
<1>1. CInv => NothingForFree
  BY DEF CInv
<1> QED
  BY <1>1, ContractInvariant, PTL

\* Nothing is taken back that was not given, or without the money going back.
THEOREM NothingLostHolds == Spec => []NothingLost
<1>1. CInv => NothingLost
  BY DEF CInv
<1> QED
  BY <1>1, ContractInvariant, PTL

\* Payments, grants, refunds asked for and items taken back are not forgotten; a
\* deleted row and a committed refund stay.
THEOREM NothingUndoneHolds == Spec => NothingUndone
<1> DEFINE Kept ==
       /\ paid \subseteq paid' /\ granted \subseteq granted'
       /\ asked \subseteq asked' /\ returned \subseteq returned'
       /\ \A t \in Tx : status[t] = "GONE" => status'[t] = "GONE"
       /\ \A t \in Tx : refund[t] = "REFUNDED" => refund'[t] = "REFUNDED"
<1>1. CInv /\ [Next]_vars => [Kept]_vars
  <2> SUFFICES ASSUME CInv, Next PROVE Kept
    OBVIOUS
  <2> QED
    BY PaymentStep, RefundStep DEF Next
<1> QED
  BY <1>1, ContractInvariant, PTL DEF Spec, NothingUndone

=============================================================================
