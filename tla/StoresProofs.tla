---------------------------- MODULE StoresProofs ----------------------------
(***************************************************************************)
(* The two stores agree for every set of rows, sessions and any number of  *)
(* calls.                                                                  *)
(***************************************************************************)
EXTENDS Stores, TLAPS

\* The inductive invariant: the memory store holds exactly the rows of the
\* collection, agrees with it on those that are compared, and the last call
\* on such a row was answered alike; a row not inserted yet has no fields.
Agreement ==
    /\ docs \in [Tx -> Doc]
    /\ DOMAIN mem = Rows
    /\ \A t \in Rows : mem[t] \in Doc
    /\ \A t \in Tx : docs[t].status = "ABSENT" => docs[t] = NoRow
    /\ StoresAgree
    /\ AnswersAgree

\* The call took effect on both rows: where Update found the row of t and its
\* filter matched, the memory store holds the row of the collection.
LEMMA UpdateKeeps ==
    ASSUME Agreement, NEW t \in Tx \ stray, NEW err \in Errors,
           NEW matches \in BOOLEAN, NEW row,
           M!Update(t, err, matches, row),
           Exists(t) /\ matches => row \in Doc /\ row.status \notin {"ABSENT", "GONE"},
           docs' = IF Exists(t) /\ matches THEN [docs EXCEPT ![t] = row] ELSE docs,
           stray' = stray,
           said'.row = t,
           Exists(t) => said'.db = said'.mem
    PROVE  Agreement'
<1>1. CASE Exists(t) /\ matches
  <2>1. t \in DOMAIN mem BY <1>1 DEF Agreement, Rows
  <2>2. mem' = [mem EXCEPT ![t] = row] BY <1>1, <2>1 DEF M!Update
  <2>3. docs' = [docs EXCEPT ![t] = row] BY <1>1
  <2>4. Rows' = Rows BY <1>1, <2>3 DEF Agreement, Rows, Exists
  <2> QED BY <1>1, <2>1, <2>2, <2>3, <2>4
          DEF Agreement, StoresAgree, AnswersAgree, Rows, Exists
<1>2. CASE ~(Exists(t) /\ matches)
  <2>1. mem' = mem BY <1>2 DEF M!Update, Agreement, Rows
  <2>2. docs' = docs BY <1>2
  <2> QED BY <2>1, <2>2 DEF Agreement, StoresAgree, AnswersAgree, Rows, Exists
<1> QED BY <1>1, <1>2

LEMMA FailsKeeps ==
    ASSUME Agreement, NEW t \in Tx \ stray, NEW err \in Errors,
           Fails(t, err)
    PROVE  Agreement'
<1> DEFINE row == [mem[t] EXCEPT !.status = "FAILED"]
           matches == TRUE
<1>1. Exists(t) => t \in DOMAIN mem /\ mem[t] = docs[t] /\ docs[t] \in Doc
  BY DEF Agreement, StoresAgree, Rows
<1>2. ~Exists(t) => t \notin DOMAIN mem
  BY DEF Agreement, Rows
<1>3. M!Update(t, err, matches, row)
  BY <1>1, <1>2, StoreAssumption DEF Fails, MarkFailed, M!MarkFailed, M!Update
<1>4. Exists(t) /\ matches => row \in Doc /\ row.status \notin {"ABSENT", "GONE"}
  BY <1>1 DEF Exists, Doc, TxStatus, RefundStatus
<1>5. docs' = IF Exists(t) /\ matches THEN [docs EXCEPT ![t] = row] ELSE docs
  BY <1>1 DEF Fails, MarkFailed, M!MarkFailed, Exists, Agreement, Doc
<1>6. /\ stray' = stray /\ said'.row = t
      /\ Exists(t) => said'.db = said'.mem
  BY <1>1, <1>3 DEF Fails, Say, Filtered, M!Update, Exists, Pending, RefundClaimable
<1>7. matches \in BOOLEAN
  BY DEF Pending, RefundClaimable
<1> QED
  BY <1>3, <1>4, <1>5, <1>6, <1>7, UpdateKeeps

LEMMA ResetsKeeps ==
    ASSUME Agreement, NEW t \in Tx \ stray, NEW err \in Errors,
           Resets(t, err)
    PROVE  Agreement'
<1> DEFINE row == [mem[t] EXCEPT !.status = "PENDING"]
           matches == TRUE
<1>1. Exists(t) => t \in DOMAIN mem /\ mem[t] = docs[t] /\ docs[t] \in Doc
  BY DEF Agreement, StoresAgree, Rows
<1>2. ~Exists(t) => t \notin DOMAIN mem
  BY DEF Agreement, Rows
<1>3. M!Update(t, err, matches, row)
  BY <1>1, <1>2, StoreAssumption DEF Resets, ResetToPending, M!ResetToPending, M!Update
<1>4. Exists(t) /\ matches => row \in Doc /\ row.status \notin {"ABSENT", "GONE"}
  BY <1>1 DEF Exists, Doc, TxStatus, RefundStatus
<1>5. docs' = IF Exists(t) /\ matches THEN [docs EXCEPT ![t] = row] ELSE docs
  BY <1>1 DEF Resets, ResetToPending, M!ResetToPending, Exists, Agreement, Doc
<1>6. /\ stray' = stray /\ said'.row = t
      /\ Exists(t) => said'.db = said'.mem
  BY <1>1, <1>3 DEF Resets, Say, Filtered, M!Update, Exists, Pending, RefundClaimable
<1>7. matches \in BOOLEAN
  BY DEF Pending, RefundClaimable
<1> QED
  BY <1>3, <1>4, <1>5, <1>6, <1>7, UpdateKeeps

LEMMA RetriesKeeps ==
    ASSUME Agreement, NEW t \in Tx \ stray, NEW err \in Errors,
           Retries(t, err)
    PROVE  Agreement'
<1> DEFINE row == [mem[t] EXCEPT !.retries = @ + 1]
           matches == TRUE
<1>1. Exists(t) => t \in DOMAIN mem /\ mem[t] = docs[t] /\ docs[t] \in Doc
  BY DEF Agreement, StoresAgree, Rows
<1>2. ~Exists(t) => t \notin DOMAIN mem
  BY DEF Agreement, Rows
<1>3. M!Update(t, err, matches, row)
  BY <1>1, <1>2, StoreAssumption DEF Retries, IncrementRetries, M!IncrementRetries, M!Update
<1>4. Exists(t) /\ matches => row \in Doc /\ row.status \notin {"ABSENT", "GONE"}
  BY <1>1 DEF Exists, Doc, TxStatus, RefundStatus
<1>5. docs' = IF Exists(t) /\ matches THEN [docs EXCEPT ![t] = row] ELSE docs
  BY <1>1 DEF Retries, IncrementRetries, M!IncrementRetries, Exists, Agreement, Doc
<1>6. /\ stray' = stray /\ said'.row = t
      /\ Exists(t) => said'.db = said'.mem
  BY <1>1, <1>3 DEF Retries, Say, Filtered, M!Update, Exists, Pending, RefundClaimable
<1>7. matches \in BOOLEAN
  BY DEF Pending, RefundClaimable
<1> QED
  BY <1>3, <1>4, <1>5, <1>6, <1>7, UpdateKeeps

LEMMA EndsKeeps ==
    ASSUME Agreement, NEW t \in Tx \ stray, NEW terminal \in {"CANCELED", "EXPIRED"}, NEW err \in Errors,
           Ends(t, terminal, err)
    PROVE  Agreement'
<1> DEFINE row == [mem[t] EXCEPT !.status = terminal]
           matches == Pending(t)
<1>1. Exists(t) => t \in DOMAIN mem /\ mem[t] = docs[t] /\ docs[t] \in Doc
  BY DEF Agreement, StoresAgree, Rows
<1>2. ~Exists(t) => t \notin DOMAIN mem
  BY DEF Agreement, Rows
<1>3. M!Update(t, err, matches, row)
  BY <1>1, <1>2, StoreAssumption DEF Ends, MarkTerminalIfPending, M!MarkTerminalIfPending, M!Pending, Pending, M!Update
<1>4. Exists(t) /\ matches => row \in Doc /\ row.status \notin {"ABSENT", "GONE"}
  BY <1>1 DEF Exists, Doc, TxStatus, RefundStatus, Pending
<1>5. docs' = IF Exists(t) /\ matches THEN [docs EXCEPT ![t] = row] ELSE docs
  BY <1>1 DEF Ends, MarkTerminalIfPending, M!MarkTerminalIfPending, M!Pending, Pending, Exists, Agreement, Doc
<1>6. /\ stray' = stray /\ said'.row = t
      /\ Exists(t) => said'.db = said'.mem
  BY <1>1, <1>3 DEF Ends, Say, Filtered, M!Update, Exists, Pending, RefundClaimable
<1>7. matches \in BOOLEAN
  BY DEF Pending, RefundClaimable
<1> QED
  BY <1>3, <1>4, <1>5, <1>6, <1>7, UpdateKeeps

LEMMA ClaimFulfillingKeeps ==
    ASSUME Agreement, NEW t \in Tx \ stray, NEW s \in Session, NEW err \in Errors,
           ClaimFulfilling(t, s, err)
    PROVE  Agreement'
<1> DEFINE row == [mem[t] EXCEPT !.status = "FULFILLING", !.providerTxID = s]
           matches == Pending(t)
<1>1. Exists(t) => t \in DOMAIN mem /\ mem[t] = docs[t] /\ docs[t] \in Doc
  BY DEF Agreement, StoresAgree, Rows
<1>2. ~Exists(t) => t \notin DOMAIN mem
  BY DEF Agreement, Rows
<1>3. M!Update(t, err, matches, row)
  BY <1>1, <1>2, StoreAssumption DEF ClaimFulfilling, AtomicClaimFulfilling, M!AtomicClaimFulfilling, M!Pending, Pending, M!Update
<1>4. Exists(t) /\ matches => row \in Doc /\ row.status \notin {"ABSENT", "GONE"}
  BY <1>1 DEF Exists, Doc, TxStatus, RefundStatus, Pending
<1>5. docs' = IF Exists(t) /\ matches THEN [docs EXCEPT ![t] = row] ELSE docs
  BY <1>1 DEF ClaimFulfilling, AtomicClaimFulfilling, M!AtomicClaimFulfilling, M!Pending, Pending, Exists, Agreement, Doc
<1>6. /\ stray' = stray /\ said'.row = t
      /\ Exists(t) => said'.db = said'.mem
  BY <1>1, <1>3 DEF ClaimFulfilling, Say, Filtered, M!Update, Exists, Pending, RefundClaimable
<1>7. matches \in BOOLEAN
  BY DEF Pending, RefundClaimable
<1> QED
  BY <1>3, <1>4, <1>5, <1>6, <1>7, UpdateKeeps

LEMMA AttachesKeeps ==
    ASSUME Agreement, NEW t \in Tx \ stray, NEW s \in Session, NEW err \in Errors,
           Attaches(t, s, err)
    PROVE  Agreement'
<1> DEFINE row == [mem[t] EXCEPT !.providerTxID = s]
           matches == Pending(t) /\ docs[t].providerTxID = None
<1>1. Exists(t) => t \in DOMAIN mem /\ mem[t] = docs[t] /\ docs[t] \in Doc
  BY DEF Agreement, StoresAgree, Rows
<1>2. ~Exists(t) => t \notin DOMAIN mem
  BY DEF Agreement, Rows
<1>3. M!Update(t, err, matches, row)
  BY <1>1, <1>2, StoreAssumption DEF Attaches, AttachProviderTransaction, M!AttachProviderTransaction, M!Pending, Pending, M!Update
<1>4. Exists(t) /\ matches => row \in Doc /\ row.status \notin {"ABSENT", "GONE"}
  BY <1>1 DEF Exists, Doc, TxStatus, RefundStatus, Pending
<1>5. docs' = IF Exists(t) /\ matches THEN [docs EXCEPT ![t] = row] ELSE docs
  BY <1>1 DEF Attaches, AttachProviderTransaction, M!AttachProviderTransaction, M!Pending, Pending, Exists, Agreement, Doc
<1>6. /\ stray' = stray /\ said'.row = t
      /\ Exists(t) => said'.db = said'.mem
  BY <1>1, <1>3 DEF Attaches, Say, Filtered, M!Update, Exists, Pending, RefundClaimable
<1>7. matches \in BOOLEAN
  BY DEF Pending, RefundClaimable
<1> QED
  BY <1>3, <1>4, <1>5, <1>6, <1>7, UpdateKeeps

LEMMA ClearsKeeps ==
    ASSUME Agreement, NEW t \in Tx \ stray, NEW s \in Session, NEW err \in Errors,
           Clears(t, s, err)
    PROVE  Agreement'
<1> DEFINE row == [mem[t] EXCEPT !.providerTxID = None]
           matches == Pending(t) /\ docs[t].providerTxID = s
<1>1. Exists(t) => t \in DOMAIN mem /\ mem[t] = docs[t] /\ docs[t] \in Doc
  BY DEF Agreement, StoresAgree, Rows
<1>2. ~Exists(t) => t \notin DOMAIN mem
  BY DEF Agreement, Rows
<1>3. M!Update(t, err, matches, row)
  BY <1>1, <1>2, StoreAssumption DEF Clears, ClearProviderTransactionIfPending, M!ClearProviderTransactionIfPending, M!Pending, Pending, M!Update
<1>4. Exists(t) /\ matches => row \in Doc /\ row.status \notin {"ABSENT", "GONE"}
  BY <1>1 DEF Exists, Doc, TxStatus, RefundStatus, Pending
<1>5. docs' = IF Exists(t) /\ matches THEN [docs EXCEPT ![t] = row] ELSE docs
  BY <1>1 DEF Clears, ClearProviderTransactionIfPending, M!ClearProviderTransactionIfPending, M!Pending, Pending, Exists, Agreement, Doc
<1>6. /\ stray' = stray /\ said'.row = t
      /\ Exists(t) => said'.db = said'.mem
  BY <1>1, <1>3 DEF Clears, Say, Filtered, M!Update, Exists, Pending, RefundClaimable
<1>7. matches \in BOOLEAN
  BY DEF Pending, RefundClaimable
<1> QED
  BY <1>3, <1>4, <1>5, <1>6, <1>7, UpdateKeeps

LEMMA UpdatesIdKeeps ==
    ASSUME Agreement, NEW t \in Tx \ stray, NEW s \in Session, NEW err \in Errors,
           UpdatesId(t, s, err)
    PROVE  Agreement'
<1> DEFINE row == [mem[t] EXCEPT !.providerTxID = s]
           matches == TRUE
<1>1. Exists(t) => t \in DOMAIN mem /\ mem[t] = docs[t] /\ docs[t] \in Doc
  BY DEF Agreement, StoresAgree, Rows
<1>2. ~Exists(t) => t \notin DOMAIN mem
  BY DEF Agreement, Rows
<1>3. M!Update(t, err, matches, row)
  BY <1>1, <1>2, StoreAssumption DEF UpdatesId, UpdateProviderTransactionID, M!UpdateProviderTransactionID, M!Update
<1>4. Exists(t) /\ matches => row \in Doc /\ row.status \notin {"ABSENT", "GONE"}
  BY <1>1 DEF Exists, Doc, TxStatus, RefundStatus
<1>5. docs' = IF Exists(t) /\ matches THEN [docs EXCEPT ![t] = row] ELSE docs
  BY <1>1 DEF UpdatesId, UpdateProviderTransactionID, M!UpdateProviderTransactionID, Exists, Agreement, Doc
<1>6. /\ stray' = stray /\ said'.row = t
      /\ Exists(t) => said'.db = said'.mem
  BY <1>1, <1>3 DEF UpdatesId, Say, Filtered, M!Update, Exists, Pending, RefundClaimable
<1>7. matches \in BOOLEAN
  BY DEF Pending, RefundClaimable
<1> QED
  BY <1>3, <1>4, <1>5, <1>6, <1>7, UpdateKeeps

LEMMA ClaimsRefundKeeps ==
    ASSUME Agreement, NEW t \in Tx \ stray, NEW err \in Errors,
           ClaimsRefund(t, err)
    PROVE  Agreement'
<1> DEFINE row == [mem[t] EXCEPT !.refund = "REFUNDING", !.providerRefunded = mem[t].refund # "NONE" /\ @]
           matches == RefundClaimable(t)
<1>1. Exists(t) => t \in DOMAIN mem /\ mem[t] = docs[t] /\ docs[t] \in Doc
  BY DEF Agreement, StoresAgree, Rows
<1>2. ~Exists(t) => t \notin DOMAIN mem
  BY DEF Agreement, Rows
<1>3. M!Update(t, err, matches, row)
  BY <1>1, <1>2, StoreAssumption DEF ClaimsRefund, AtomicClaimRefunding, M!AtomicClaimRefunding, M!RefundClaimable, RefundClaimable, RefundExists, M!Update
<1>4. Exists(t) /\ matches => row \in Doc /\ row.status \notin {"ABSENT", "GONE"}
  BY <1>1 DEF Exists, Doc, TxStatus, RefundStatus, RefundClaimable
<1>5. docs' = IF Exists(t) /\ matches THEN [docs EXCEPT ![t] = row] ELSE docs
  <2>1. CASE matches
    <3>1. Exists(t)
      BY <2>1 DEF RefundClaimable, Exists
    <3>2. mem[t] = docs[t] /\ docs[t] \in Doc
      BY <1>1, <3>1
    <3>3. RefundExists(t) <=> mem[t].refund # "NONE"
      BY <3>1, <3>2 DEF RefundExists
    <3>4. AtomicClaimRefunding(t, ~RefundExists(t))
      BY <2>1 DEF ClaimsRefund
    <3>5. docs[t].providerRefunded \in BOOLEAN
      BY <3>2 DEF Doc
    <3>6. (IF ~RefundExists(t) THEN FALSE ELSE docs[t].providerRefunded)
             = (mem[t].refund # "NONE" /\ mem[t].providerRefunded)
      BY <3>2, <3>3, <3>5
    <3>7. PICK b \in BOOLEAN :
             /\ b = (IF ~RefundExists(t) THEN FALSE ELSE docs[t].providerRefunded)
             /\ docs' = [docs EXCEPT ![t].refund = "REFUNDING", ![t].providerRefunded = b]
      BY <3>4, <3>5 DEF AtomicClaimRefunding
    <3>8. row = [mem[t] EXCEPT !.refund = "REFUNDING", !.providerRefunded = b]
      BY <3>6, <3>7
    <3>9. docs' = [docs EXCEPT ![t] = row]
      BY <3>2, <3>7, <3>8
    <3> QED
      BY <2>1, <3>1, <3>9
  <2>2. CASE ~matches
    BY <2>2 DEF ClaimsRefund
  <2> QED
    BY <2>1, <2>2
<1>6. /\ stray' = stray /\ said'.row = t
      /\ Exists(t) => said'.db = said'.mem
  BY <1>1, <1>3 DEF ClaimsRefund, Say, Filtered, M!Update, Exists, Pending, RefundClaimable
<1>7. matches \in BOOLEAN
  BY DEF Pending, RefundClaimable
<1> QED
  BY <1>3, <1>4, <1>5, <1>6, <1>7, UpdateKeeps

LEMMA ClaimsExternalRefundKeeps ==
    ASSUME Agreement, NEW t \in Tx \ stray, NEW err \in Errors,
           ClaimsExternalRefund(t, err)
    PROVE  Agreement'
<1> DEFINE row == [mem[t] EXCEPT !.refund = "REFUNDING", !.providerRefunded = TRUE]
           matches == RefundClaimable(t)
<1>1. Exists(t) => t \in DOMAIN mem /\ mem[t] = docs[t] /\ docs[t] \in Doc
  BY DEF Agreement, StoresAgree, Rows
<1>2. ~Exists(t) => t \notin DOMAIN mem
  BY DEF Agreement, Rows
<1>3. M!Update(t, err, matches, row)
  BY <1>1, <1>2, StoreAssumption DEF ClaimsExternalRefund, AtomicClaimExternalRefunding, M!AtomicClaimExternalRefunding, M!RefundClaimable, RefundClaimable, M!Update
<1>4. Exists(t) /\ matches => row \in Doc /\ row.status \notin {"ABSENT", "GONE"}
  BY <1>1 DEF Exists, Doc, TxStatus, RefundStatus, RefundClaimable
<1>5. docs' = IF Exists(t) /\ matches THEN [docs EXCEPT ![t] = row] ELSE docs
  BY <1>1 DEF ClaimsExternalRefund, AtomicClaimExternalRefunding, M!AtomicClaimExternalRefunding, M!RefundClaimable, RefundClaimable, Exists, Agreement, Doc
<1>6. /\ stray' = stray /\ said'.row = t
      /\ Exists(t) => said'.db = said'.mem
  BY <1>1, <1>3 DEF ClaimsExternalRefund, Say, Filtered, M!Update, Exists, Pending, RefundClaimable
<1>7. matches \in BOOLEAN
  BY DEF Pending, RefundClaimable
<1> QED
  BY <1>3, <1>4, <1>5, <1>6, <1>7, UpdateKeeps

\* The updates of a refund, of which the memory store makes none without a
\* refund sub-document: the handlers call them on claimed refunds only.
LEMMA UpdatesRefundKeeps ==
    ASSUME Agreement, NEW t \in Tx \ stray, NEW err \in Errors,
           UpdatesRefund(t, err)
    PROVE  Agreement'
<1>1. Exists(t) => t \in DOMAIN mem /\ mem[t] = docs[t] /\ docs[t] \in Doc
  BY DEF Agreement, StoresAgree, Rows
<1>2. ~Exists(t) => t \notin DOMAIN mem
  BY DEF Agreement, Rows
<1>3. docs[t].refund # "NONE" /\ Say(t, "nil", err)
  BY DEF UpdatesRefund
<1>4. stray' = stray /\ said'.row = t /\ said'.db = "nil" /\ said'.mem = err
  BY <1>3 DEF Say
<1>5. CASE MarkRefundProviderSucceeded(t) /\ M!MarkRefundProviderSucceeded(t, err)
  <2> DEFINE row == [mem[t] EXCEPT !.refund = mem[t].refund, !.providerRefunded = TRUE]
  <2>1. M!Update(t, err, TRUE, row)
    BY <1>5, <1>1, <1>2, <1>3 DEF M!MarkRefundProviderSucceeded, M!UpdateRefund, M!Update
  <2>2. Exists(t) => row \in Doc /\ row.status \notin {"ABSENT", "GONE"}
    BY <1>1 DEF Exists, Doc, TxStatus, RefundStatus
  <2>3. docs' = IF Exists(t) THEN [docs EXCEPT ![t] = row] ELSE docs
    BY <1>5, <1>1 DEF MarkRefundProviderSucceeded, Exists, Agreement, Doc
  <2>4. Exists(t) => said'.db = said'.mem
    BY <1>1, <1>4, <2>1 DEF M!Update
  <2> QED
    BY <2>1, <2>2, <2>3, <2>4, <1>4, UpdateKeeps
<1>6. CASE CommitRefund(t) /\ M!CommitRefund(t, err)
  <2> DEFINE row == [mem[t] EXCEPT !.refund = "REFUNDED", !.providerRefunded = TRUE]
  <2>1. M!Update(t, err, TRUE, row)
    BY <1>6, <1>1, <1>2, <1>3 DEF M!CommitRefund, M!UpdateRefund, M!Update
  <2>2. Exists(t) => row \in Doc /\ row.status \notin {"ABSENT", "GONE"}
    BY <1>1 DEF Exists, Doc, TxStatus, RefundStatus
  <2>3. docs' = IF Exists(t) THEN [docs EXCEPT ![t] = row] ELSE docs
    BY <1>6, <1>1 DEF CommitRefund, Exists, Agreement, Doc
  <2>4. Exists(t) => said'.db = said'.mem
    BY <1>1, <1>4, <2>1 DEF M!Update
  <2> QED
    BY <2>1, <2>2, <2>3, <2>4, <1>4, UpdateKeeps
<1>7. CASE MarkRefundFailed(t) /\ M!MarkRefundFailed(t, err)
  <2> DEFINE row == [mem[t] EXCEPT !.refund = "REFUND_FAILED", !.providerRefunded = mem[t].providerRefunded]
  <2>1. M!Update(t, err, TRUE, row)
    BY <1>7, <1>1, <1>2, <1>3 DEF M!MarkRefundFailed, M!UpdateRefund, M!Update
  <2>2. Exists(t) => row \in Doc /\ row.status \notin {"ABSENT", "GONE"}
    BY <1>1 DEF Exists, Doc, TxStatus, RefundStatus
  <2>3. docs' = IF Exists(t) THEN [docs EXCEPT ![t] = row] ELSE docs
    BY <1>7, <1>1 DEF MarkRefundFailed, Exists, Agreement, Doc
  <2>4. Exists(t) => said'.db = said'.mem
    BY <1>1, <1>4, <2>1 DEF M!Update
  <2> QED
    BY <2>1, <2>2, <2>3, <2>4, <1>4, UpdateKeeps
<1> QED
  BY <1>5, <1>6, <1>7 DEF UpdatesRefund

\* An insertion puts the same fresh row into both.
LEMMA CreateKeeps ==
    ASSUME Agreement, NEW t \in Tx \ stray, Create(t)
    PROVE  Agreement'
<1>1. docs' = [docs EXCEPT ![t] = M!NewRow]
  <2>1. docs[t] = NoRow
    BY DEF Create, Agreement
  <2>2. [NoRow EXCEPT !.status = "PENDING"] = M!NewRow
    <3> DEFINE record(status, b) ==
                 [status |-> status, providerTxID |-> None, retries |-> 0,
                  refund |-> "NONE", providerRefunded |-> b]
    <3>1. \A b \in BOOLEAN :
            [record("ABSENT", b) EXCEPT !.status = "PENDING"] = record("PENDING", b)
      OBVIOUS
    <3>2. NoRow = record("ABSENT", FALSE) /\ M!NewRow = record("PENDING", FALSE)
      BY Zenon DEF NoRow, M!NewRow
    <3> HIDE DEF record
    <3> QED
      BY <3>1, <3>2
  <2>3. docs' = [docs EXCEPT ![t].status = "PENDING"]
    BY DEF Create, CreateTransaction
  <2> QED
    BY <2>1, <2>2, <2>3
<1>2. mem' = [x \in DOMAIN mem \cup {t} |-> IF x = t THEN M!NewRow ELSE mem[x]]
  BY DEF Create, M!CreateTransaction
<1>3. stray' = stray /\ said' = [db |-> "nil", mem |-> "nil", row |-> t]
  BY DEF Create, Say
<1>4. M!NewRow \in Doc /\ M!NewRow.status = "PENDING"
  BY DEF M!NewRow, Doc, TxStatus, RefundStatus
<1>5. docs' \in [Tx -> Doc] /\ docs'[t] = M!NewRow
      /\ \A u \in Tx \ {t} : docs'[u] = docs[u]
  BY <1>1, <1>4 DEF Agreement
<1>6. Rows' = Rows \cup {t}
  BY <1>4, <1>5 DEF Rows, Exists
<1>7. DOMAIN mem' = Rows' /\ mem'[t] = M!NewRow
      /\ \A u \in Rows \ {t} : mem'[u] = mem[u]
  BY <1>2, <1>6 DEF Agreement
<1>8. \A u \in Rows' : mem'[u] \in Doc
  BY <1>4, <1>6, <1>7 DEF Agreement
<1>9. \A u \in Tx : docs'[u].status = "ABSENT" => docs'[u] = NoRow
  BY <1>4, <1>5 DEF Agreement
<1>10. StoresAgree'
  BY <1>3, <1>5, <1>6, <1>7 DEF Agreement, StoresAgree, Rows
<1>11. AnswersAgree'
  BY <1>3 DEF AnswersAgree
<1> QED
  BY <1>5, <1>7, <1>8, <1>9, <1>10, <1>11 DEF Agreement

\* A deletion leaves neither of them the row.
LEMMA DeleteKeeps ==
    ASSUME Agreement, NEW t \in Tx \ stray, Delete(t)
    PROVE  Agreement'
<1>1. mem' = [x \in DOMAIN mem \ {t} |-> mem[x]]
  BY DEF Delete, M!DeleteTransaction, M!Restrict
<1>2. stray' = stray /\ said' = [db |-> "nil", mem |-> "nil", row |-> t]
  BY DEF Delete, Say
<1>3. docs' = IF Exists(t) THEN [docs EXCEPT ![t] = [docs[t] EXCEPT !.status = "GONE"]]
              ELSE docs
  BY DEF Delete, DeleteTransaction, Agreement, Doc
<1>4. docs' \in [Tx -> Doc] /\ \A u \in Tx \ {t} : docs'[u] = docs[u]
  BY <1>3 DEF Agreement, Doc, TxStatus
<1>5. docs'[t].status \in {"ABSENT", "GONE"}
  BY <1>3 DEF Agreement, Doc, Exists
<1>6. Rows' = Rows \ {t}
  BY <1>4, <1>5 DEF Rows, Exists
<1>7. DOMAIN mem' = Rows' /\ \A u \in Rows' : mem'[u] = mem[u]
  BY <1>1, <1>6 DEF Agreement
<1>8. \A u \in Rows' : mem'[u] \in Doc
  BY <1>6, <1>7 DEF Agreement
<1>9. \A u \in Tx : docs'[u].status = "ABSENT" => docs'[u] = NoRow
  <2>1. docs[t].status = "ABSENT" => docs' = docs
    BY <1>3 DEF Exists
  <2>2. docs[t].status # "ABSENT" => docs'[t].status # "ABSENT"
    BY <1>3 DEF Agreement, Doc, Exists
  <2> QED
    BY <1>4, <2>1, <2>2 DEF Agreement
<1>10. StoresAgree'
  BY <1>2, <1>4, <1>6, <1>7 DEF Agreement, StoresAgree, Rows
<1>11. AnswersAgree'
  BY <1>2 DEF AnswersAgree
<1> QED
  BY <1>4, <1>7, <1>8, <1>9, <1>10, <1>11 DEF Agreement

\* A commit agrees on a row that is FULFILLING; any other row is compared no
\* longer, but stays in both.
LEMMA CommitsKeeps ==
    ASSUME Agreement, NEW t \in Tx \ stray, NEW err \in Errors, Commits(t, err)
    PROVE  Agreement'
<1> DEFINE row == [mem[t] EXCEPT !.status = "FULFILLED"]
<1>1. Exists(t) => t \in DOMAIN mem /\ mem[t] = docs[t] /\ docs[t] \in Doc
  BY DEF Agreement, StoresAgree, Rows
<1>2. ~Exists(t) => t \notin DOMAIN mem
  BY DEF Agreement, Rows
<1>3. M!Update(t, err, TRUE, row)
  BY DEF Commits, M!CommitFulfilled
<1>4. Exists(t) => row \in Doc /\ row.status \notin {"ABSENT", "GONE"}
  BY <1>1 DEF Doc, TxStatus
<1>5. said' = [db |-> "nil", mem |-> err, row |-> t]
  BY DEF Commits
<1>6. CASE docs[t].status = "FULFILLING"
  <2>1. docs' = [docs EXCEPT ![t] = row] /\ Exists(t) /\ stray' = stray
    BY <1>6, <1>1 DEF Commits, CommitFulfilled, Exists, Agreement, Doc
  <2>2. said'.row = t /\ said'.db = said'.mem
    BY <1>1, <1>3, <1>5, <2>1 DEF M!Update
  <2> QED
    BY <1>3, <1>4, <2>1, <2>2, UpdateKeeps
<1>7. CASE docs[t].status # "FULFILLING"
  <2>1. docs' = docs /\ stray' = stray \cup {t}
    BY <1>7 DEF Commits, CommitFulfilled
  <2>2. Rows' = Rows
    BY <2>1 DEF Rows, Exists
  <2>3. DOMAIN mem' = DOMAIN mem /\ \A u \in Rows : mem'[u] \in Doc
    BY <1>1, <1>2, <1>3, <1>4 DEF M!Update, Agreement, Rows
  <2>4. \A u \in Rows \ {t} : mem'[u] = mem[u]
    BY <1>3 DEF M!Update, Agreement
  <2>5. StoresAgree' /\ AnswersAgree'
    BY <1>5, <2>1, <2>2, <2>4 DEF StoresAgree, AnswersAgree, Agreement, Rows
  <2> QED
    BY <2>1, <2>2, <2>3, <2>5 DEF Agreement
<1> QED
  BY <1>6, <1>7

\* Agreement holds at the start and every call keeps it.
LEMMA AgreementHolds == Spec => []Agreement
<1>1. Init => Agreement
  <2> SUFFICES ASSUME Init PROVE Agreement
    OBVIOUS
  <2>1. docs = [t \in Tx |-> NoRow] /\ NoRow \in Doc
    BY DEF Init, StoreInit, NoRow, Doc, TxStatus, RefundStatus
  <2>2. Rows = {}
    BY <2>1 DEF Rows, Exists, NoRow
  <2>3. DOMAIN mem = {} /\ said.row = None
    BY DEF Init
  <2> QED
    BY <2>1, <2>2, <2>3 DEF Agreement, StoresAgree, AnswersAgree
<1>2. Agreement /\ [Next]_vars => Agreement'
  <2> SUFFICES ASSUME Agreement, [Next]_vars PROVE Agreement'
    OBVIOUS
  <2>1. CASE UNCHANGED vars
    BY <2>1 DEF vars, Agreement, StoresAgree, AnswersAgree, Rows, Exists
  <2>2. CASE Next
    <3>1. PICK t \in Tx \ stray :
            \/ Create(t) \/ Delete(t)
            \/ \E err \in Errors :
                 \/ Commits(t, err) \/ Fails(t, err) \/ Resets(t, err) \/ Retries(t, err)
                 \/ \E terminal \in {"CANCELED", "EXPIRED"} : Ends(t, terminal, err)
                 \/ ClaimsRefund(t, err) \/ ClaimsExternalRefund(t, err)
                 \/ UpdatesRefund(t, err)
                 \/ \E s \in Session :
                      \/ ClaimFulfilling(t, s, err) \/ Attaches(t, s, err)
                      \/ Clears(t, s, err) \/ UpdatesId(t, s, err)
      BY <2>2 DEF Next
    <3>2. CASE Create(t) \/ Delete(t)
      BY <3>2, CreateKeeps, DeleteKeeps
    <3>3. ASSUME NEW err \in Errors,
                 Commits(t, err) \/ Fails(t, err) \/ Resets(t, err) \/ Retries(t, err)
          PROVE  Agreement'
      BY <3>3, CommitsKeeps, FailsKeeps, ResetsKeeps, RetriesKeeps
    <3>4. ASSUME NEW err \in Errors, NEW terminal \in {"CANCELED", "EXPIRED"},
                 Ends(t, terminal, err)
          PROVE  Agreement'
      BY <3>4, EndsKeeps
    <3>5. ASSUME NEW err \in Errors,
                 ClaimsRefund(t, err) \/ ClaimsExternalRefund(t, err) \/ UpdatesRefund(t, err)
          PROVE  Agreement'
      BY <3>5, ClaimsRefundKeeps, ClaimsExternalRefundKeeps, UpdatesRefundKeeps
    <3>6. ASSUME NEW err \in Errors, NEW s \in Session,
                 \/ ClaimFulfilling(t, s, err) \/ Attaches(t, s, err)
                 \/ Clears(t, s, err) \/ UpdatesId(t, s, err)
          PROVE  Agreement'
      BY <3>6, ClaimFulfillingKeeps, AttachesKeeps, ClearsKeeps, UpdatesIdKeeps
    <3> QED
      BY <3>1, <3>2, <3>3, <3>4, <3>5, <3>6
  <2> QED
    BY <2>1, <2>2
<1> QED
  BY <1>1, <1>2, PTL DEF Spec

\* After any sequence of calls the two stores hold the same rows, except for
\* those that some CommitFulfilled found in another status than FULFILLING.
THEOREM StoresAgreeHolds == Spec => []StoresAgree
<1>1. Agreement => StoresAgree
  BY DEF Agreement
<1> QED
  BY <1>1, AgreementHolds, PTL

\* A call on a row that exists fails at the one store exactly if it fails at
\* the other: the same caller wins a claim.
THEOREM AnswersAgreeHolds == Spec => []AnswersAgree
<1>1. Agreement => AnswersAgree
  BY DEF Agreement
<1> QED
  BY <1>1, AgreementHolds, PTL

\* The two answers are known errors about a row, and only rows are stray.
Answered == said \in [db : Errors, mem : Errors, row : Tx \cup {None}] /\ stray \subseteq Tx

\* Whatever a store answers, the answers keep their type.
LEMMA SayKeeps ==
    ASSUME Answered, NEW t \in Tx, NEW db \in Errors, NEW err \in Errors, Say(t, db, err)
    PROVE  Answered'
  BY DEF Say, Answered

\* An update answers with one of the errors.
LEMMA FilteredIsError ==
    ASSUME NEW t, NEW matches PROVE Filtered(t, matches) \in Errors
  BY DEF Filtered, Errors

\* Every call keeps the type of the answers.
LEMMA AnsweredNext == Answered /\ [Next]_vars => Answered'
<1> SUFFICES ASSUME Answered, [Next]_vars PROVE Answered'
  OBVIOUS
<1>e. {"nil", "ErrNoDocuments"} \subseteq Errors
  BY DEF Errors
<1>1. CASE UNCHANGED vars
  BY <1>1 DEF vars, Answered
<1>2. ASSUME NEW t \in Tx \ stray, Create(t) \/ Delete(t) PROVE Answered'
  BY <1>2, <1>e, SayKeeps DEF Create, Delete
<1>3. ASSUME NEW t \in Tx \ stray, NEW err \in Errors, Commits(t, err) PROVE Answered'
  BY <1>3, <1>e DEF Commits, Answered
<1>4. ASSUME NEW t \in Tx \ stray, NEW err \in Errors,
             \/ Fails(t, err) \/ Resets(t, err) \/ Retries(t, err)
             \/ UpdatesRefund(t, err)
      PROVE  Answered'
  BY <1>4, <1>e, SayKeeps DEF Fails, Resets, Retries, UpdatesRefund
<1>5. ASSUME NEW t \in Tx \ stray, NEW err \in Errors,
             ClaimsRefund(t, err) \/ ClaimsExternalRefund(t, err)
      PROVE  Answered'
  <2>1. CASE ClaimsRefund(t, err)
    BY <2>1, <1>e, SayKeeps DEF ClaimsRefund
  <2>2. CASE ClaimsExternalRefund(t, err)
    BY <2>2, FilteredIsError, SayKeeps DEF ClaimsExternalRefund
  <2> QED
    BY <1>5, <2>1, <2>2
<1>6. ASSUME NEW t \in Tx \ stray, NEW err \in Errors,
             NEW terminal \in {"CANCELED", "EXPIRED"}, Ends(t, terminal, err)
      PROVE  Answered'
  BY <1>6, FilteredIsError, SayKeeps DEF Ends
<1>7. ASSUME NEW t \in Tx \ stray, NEW err \in Errors, NEW s \in Session,
             \/ ClaimFulfilling(t, s, err) \/ Attaches(t, s, err)
             \/ Clears(t, s, err) \/ UpdatesId(t, s, err)
      PROVE  Answered'
  BY <1>7, FilteredIsError, SayKeeps DEF ClaimFulfilling, Attaches, Clears, UpdatesId
<1> QED
  BY <1>1, <1>2, <1>3, <1>4, <1>5, <1>6, <1>7 DEF Next

\* The variables of the two stores keep their types.
THEOREM StoresTypeCorrect == Spec => []TypeOK
<1>1. Init => Answered
  BY DEF Init, Answered, Errors
<1>2. Agreement /\ Answered => TypeOK
  BY DEF Agreement, Answered, TypeOK, StoreTypeOK
<1> QED
  BY <1>1, <1>2, AnsweredNext, AgreementHolds, PTL DEF Spec
=============================================================================
