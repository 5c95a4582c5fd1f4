--------------------------- MODULE PaymentProofs ---------------------------
(***************************************************************************)
(* The safety properties of PaymentLifecycle hold for every number of      *)
(* transactions, sessions, request goroutines, service instances (loops of *)
(* the two jobs), retries, errors and crashes.  Each conjunct of IInv has  *)
(* a lemma that every step preserves it, one step of the proof per action. *)
(* Then PaymentLifecycle implements PaymentContract: every step maps to a  *)
(* step of the contract for one row, or to a stutter.                      *)
(***************************************************************************)
EXTENDS PaymentInvariants, StoreProofs

USE DEF store, provider, deadlines, local, vars

-----------------------------------------------------------------------------
\* Types and control

\* Every step keeps the variables typed, and whoever works works on a row.
LEMMA TypeNext == TypeOK /\ Targets /\ [Next]_vars => TypeOK' /\ Targets'
<1> SUFFICES ASSUME TypeOK, Targets, [Next]_vars PROVE TypeOK' /\ Targets'
  OBVIOUS
<1> USE StoreAssumption, LifecycleAssumption, NoRowType
    DEF TypeOK, SessionState, Steps, Proc, Jobs,
        Begin, Goto, Done, Fault, Finally, Idle, Targets
<1>a. \A t \in Tx : docs[t] \in Doc
  BY DEF StoreTypeOK
<1>b. \A p \in Proc : snap[p].providerTxID \in Session \cup {None}
  BY DEF Doc
<1>1. CASE UNCHANGED vars
  BY <1>1 DEF StoreTypeOK
<1>2. ASSUME NEW s \in Session, SessionSettles(s) PROVE TypeOK' /\ Targets'
  BY <1>2 DEF SessionSettles, StoreTypeOK
<1>3. ASSUME NEW s \in Session, WebhookNotPaid(s) PROVE TypeOK' /\ Targets'
  BY <1>3, TerminalType, MarkFailedType DEF WebhookNotPaid
<1>4. ASSUME NEW t \in Tx, DeadlinePasses(t) PROVE TypeOK' /\ Targets'
  BY <1>4 DEF DeadlinePasses, StoreTypeOK
<1>5. ASSUME NEW t \in Tx, CreateCheckout(t) PROVE TypeOK' /\ Targets'
  BY <1>5, CreateTransactionType DEF CreateCheckout, StoreTypeOK
<1>6. ASSUME NEW r \in Requests, NEW t \in Tx, CreateIntent(r, t)
      PROVE  TypeOK' /\ Targets'
  BY <1>6, CreateTransactionType DEF CreateIntent
<1>7. ASSUME NEW r \in Requests, NEW t \in Tx, SelectProvider(r, t)
      PROVE  TypeOK' /\ Targets'
  BY <1>7, <1>a DEF SelectProvider, StoreTypeOK
<1>8. ASSUME NEW r \in Requests, NEW t \in Tx, Cancel(r, t)
      PROVE  TypeOK' /\ Targets'
  BY <1>8, <1>a DEF Cancel, StoreTypeOK
<1>9. ASSUME NEW r \in Requests, NEW t \in Tx, Unselect(r, t)
      PROVE  TypeOK' /\ Targets'
  BY <1>9, <1>a DEF Unselect, StoreTypeOK
<1>10. ASSUME NEW r \in Requests, NEW t \in Tx, Sync(r, t)
      PROVE  TypeOK' /\ Targets'
  BY <1>10, <1>a DEF Sync, StoreTypeOK
<1>11. ASSUME NEW r \in Requests, NEW s \in Session, WebhookSuccess(r, s)
      PROVE  TypeOK' /\ Targets'
  BY <1>11, AtomicClaimFulfillingType DEF WebhookSuccess
<1>12. ASSUME NEW r \in Requests, CreateSession(r) PROVE TypeOK' /\ Targets'
  BY <1>12 DEF CreateSession, StoreTypeOK, Opens
<1>13. ASSUME NEW r \in Requests, DeleteRow(r) PROVE TypeOK' /\ Targets'
  BY <1>13, DeleteTransactionType DEF DeleteRow
<1>14. ASSUME NEW r \in Requests, OpenSelected(r) PROVE TypeOK' /\ Targets'
  BY <1>14 DEF OpenSelected, Returns, StoreTypeOK, Opens
<1>15. ASSUME NEW r \in Requests, Attach(r) PROVE TypeOK' /\ Targets'
  BY <1>15, AttachType DEF Attach
<1>16. ASSUME NEW r \in Requests, CancelAtProvider(r) PROVE TypeOK' /\ Targets'
  BY <1>16 DEF CancelAtProvider, StoreTypeOK, CancelAnswer
<1>17. ASSUME NEW r \in Requests, UnselectAtProvider(r)
      PROVE  TypeOK' /\ Targets'
  BY <1>17 DEF UnselectAtProvider, StoreTypeOK, CancelAnswer
<1>18. ASSUME NEW r \in Requests, Clear(r) PROVE TypeOK' /\ Targets'
  BY <1>18, ClearType DEF Clear, StoreTypeOK
<1>19. ASSUME NEW r \in Requests, SyncQuery(r) PROVE TypeOK' /\ Targets'
  BY <1>19 DEF SyncQuery, StoreTypeOK
<1>20. ASSUME NEW r \in Requests, UpdateId(r) PROVE TypeOK' /\ Targets'
  BY <1>20, <1>b, UpdateProviderType DEF UpdateId
<1>21. ASSUME NEW j \in Jobs, ListStuck(j) PROVE TypeOK' /\ Targets'
  BY <1>21, <1>a
      DEF ListStuck, StoreTypeOK, Lists, Items, TodoItem, FindStuckFulfilling
<1>22. ASSUME NEW j \in Jobs, ListExpired(j) PROVE TypeOK' /\ Targets'
  BY <1>22, <1>a
      DEF ListExpired, StoreTypeOK, Lists, Items, TodoItem, FindExpiredPending
<1>23. ASSUME NEW j \in Jobs, ListPending(j) PROVE TypeOK' /\ Targets'
  BY <1>23, <1>a
      DEF ListPending, StoreTypeOK, Lists, Items, TodoItem, FindStuckPending
<1>24. ASSUME NEW j \in Jobs, Take(j) PROVE TypeOK' /\ Targets'
  BY <1>24 DEF Take, StoreTypeOK, TodoItem
<1>25. ASSUME NEW j \in Jobs, Expire(j) PROVE TypeOK' /\ Targets'
  BY <1>25 DEF Expire, StoreTypeOK
<1>26. ASSUME NEW j \in Jobs, CancelExpired(j) PROVE TypeOK' /\ Targets'
  BY <1>26 DEF CancelExpired, StoreTypeOK, CancelAnswer
<1>27. ASSUME NEW j \in Jobs, Poll(j) PROVE TypeOK' /\ Targets'
  BY <1>27 DEF Poll, StoreTypeOK
<1>28. ASSUME NEW p \in Proc, Claim(p) PROVE TypeOK' /\ Targets'
  BY <1>28, <1>b, AtomicClaimFulfillingType DEF Claim, StoreTypeOK
<1>29. ASSUME NEW p \in Proc, FulfillUserItem(p) PROVE TypeOK' /\ Targets'
  BY <1>29 DEF FulfillUserItem, StoreTypeOK
<1>30. ASSUME NEW p \in Proc, FulfillFails(p) PROVE TypeOK' /\ Targets'
  BY <1>30 DEF FulfillFails, StoreTypeOK
<1>31. ASSUME NEW p \in Proc, Commit(p) PROVE TypeOK' /\ Targets'
  BY <1>31, CommitFulfilledType DEF Commit
<1>32. ASSUME NEW p \in Proc, Reset(p) PROVE TypeOK' /\ Targets'
  BY <1>32, ResetToPendingType DEF Reset
<1>33. ASSUME NEW p \in Proc, Retry(p) PROVE TypeOK' /\ Targets'
  BY <1>33, IncrementRetriesType DEF Retry
<1>34. ASSUME NEW p \in Proc, Fail(p) PROVE TypeOK' /\ Targets'
  BY <1>34, MarkFailedType DEF Fail
<1>35. ASSUME NEW p \in Proc, MarkCanceled(p) PROVE TypeOK' /\ Targets'
  BY <1>35, TerminalType DEF MarkCanceled
<1>36. ASSUME NEW p \in Proc, MarkExpired(p) PROVE TypeOK' /\ Targets'
  BY <1>36, TerminalType DEF MarkExpired
<1>37. ASSUME NEW p \in Proc, Abort(p) PROVE TypeOK' /\ Targets'
  BY <1>37 DEF Abort, StoreTypeOK
<1> QED
  BY <1>1, <1>2, <1>3, <1>4, <1>5, <1>6, <1>7, <1>8, <1>9, <1>10,
     <1>11, <1>12, <1>13, <1>14, <1>15, <1>16, <1>17, <1>18, <1>19, <1>20,
     <1>21, <1>22, <1>23, <1>24, <1>25, <1>26, <1>27, <1>28, <1>29, <1>30,
     <1>31, <1>32, <1>33, <1>34, <1>35, <1>36, <1>37
     DEF Next, Environment, RequestStarts, RequestStep, JobStep, CommonStep

\* No process gets hold of a row, and no row becomes claimable or closed.
Keeps ==
    /\ \A t \in Tx : \A p \in Proc : Holds(p, t)' => Holds(p, t)
    /\ \A t \in Tx : docs'[t].status \in Unclaimable
                          => docs[t].status \in Unclaimable

\* Every step keeps the jobs and the requests on their own steps.
LEMMA RolesNext == TypeOK /\ Roles /\ [Next]_vars => Roles'
<1> SUFFICES ASSUME TypeOK, Roles, [Next]_vars PROVE Roles'
  OBVIOUS
<1> USE LifecycleAssumption
    DEF Roles, TypeOK, Proc, Jobs, Begin, Goto, Done, Finally, Idle
<1>1. CASE UNCHANGED vars
  BY <1>1
<1>2. ASSUME NEW s \in Session, SessionSettles(s) PROVE Roles'
  BY <1>2 DEF SessionSettles
<1>3. ASSUME NEW s \in Session, WebhookNotPaid(s) PROVE Roles'
  BY <1>3 DEF WebhookNotPaid
<1>4. ASSUME NEW t \in Tx, DeadlinePasses(t) PROVE Roles'
  BY <1>4 DEF DeadlinePasses
<1>5. ASSUME NEW t \in Tx, CreateCheckout(t) PROVE Roles'
  BY <1>5 DEF CreateCheckout
<1>6. ASSUME NEW r \in Requests, NEW t \in Tx, CreateIntent(r, t) PROVE Roles'
  BY <1>6 DEF CreateIntent
<1>7. ASSUME NEW r \in Requests, NEW t \in Tx, SelectProvider(r, t) PROVE Roles'
  BY <1>7 DEF SelectProvider
<1>8. ASSUME NEW r \in Requests, NEW t \in Tx, Cancel(r, t) PROVE Roles'
  BY <1>8 DEF Cancel
<1>9. ASSUME NEW r \in Requests, NEW t \in Tx, Unselect(r, t) PROVE Roles'
  BY <1>9 DEF Unselect
<1>10. ASSUME NEW r \in Requests, NEW t \in Tx, Sync(r, t) PROVE Roles'
  BY <1>10 DEF Sync
<1>11. ASSUME NEW r \in Requests, NEW s \in Session, WebhookSuccess(r, s)
      PROVE  Roles'
  BY <1>11 DEF WebhookSuccess
<1>12. ASSUME NEW r \in Requests, CreateSession(r) PROVE Roles'
  BY <1>12 DEF CreateSession
<1>13. ASSUME NEW r \in Requests, DeleteRow(r) PROVE Roles'
  BY <1>13 DEF DeleteRow
<1>14. ASSUME NEW r \in Requests, OpenSelected(r) PROVE Roles'
  BY <1>14 DEF OpenSelected, Returns
<1>15. ASSUME NEW r \in Requests, Attach(r) PROVE Roles'
  BY <1>15 DEF Attach
<1>16. ASSUME NEW r \in Requests, CancelAtProvider(r) PROVE Roles'
  BY <1>16 DEF CancelAtProvider
<1>17. ASSUME NEW r \in Requests, UnselectAtProvider(r) PROVE Roles'
  BY <1>17 DEF UnselectAtProvider
<1>18. ASSUME NEW r \in Requests, Clear(r) PROVE Roles'
  BY <1>18 DEF Clear
<1>19. ASSUME NEW r \in Requests, SyncQuery(r) PROVE Roles'
  BY <1>19 DEF SyncQuery
<1>20. ASSUME NEW r \in Requests, UpdateId(r) PROVE Roles'
  BY <1>20 DEF UpdateId
<1>21. ASSUME NEW j \in Jobs, ListStuck(j) PROVE Roles'
  BY <1>21 DEF ListStuck, Lists, Items
<1>22. ASSUME NEW j \in Jobs, ListExpired(j) PROVE Roles'
  BY <1>22 DEF ListExpired, Lists, Items
<1>23. ASSUME NEW j \in Jobs, ListPending(j) PROVE Roles'
  BY <1>23 DEF ListPending, Lists, Items
<1>24. ASSUME NEW j \in Jobs, Take(j) PROVE Roles'
  BY <1>24 DEF Take, TodoItem
<1>25. ASSUME NEW j \in Jobs, Expire(j) PROVE Roles'
  BY <1>25 DEF Expire
<1>26. ASSUME NEW j \in Jobs, CancelExpired(j) PROVE Roles'
  BY <1>26 DEF CancelExpired
<1>27. ASSUME NEW j \in Jobs, Poll(j) PROVE Roles'
  BY <1>27 DEF Poll
<1>28. ASSUME NEW p \in Proc, Claim(p) PROVE Roles'
  BY <1>28 DEF Claim
<1>29. ASSUME NEW p \in Proc, FulfillUserItem(p) PROVE Roles'
  BY <1>29 DEF FulfillUserItem
<1>30. ASSUME NEW p \in Proc, FulfillFails(p) PROVE Roles'
  BY <1>30 DEF FulfillFails
<1>31. ASSUME NEW p \in Proc, Commit(p) PROVE Roles'
  BY <1>31 DEF Commit
<1>32. ASSUME NEW p \in Proc, Reset(p) PROVE Roles'
  BY <1>32 DEF Reset
<1>33. ASSUME NEW p \in Proc, Retry(p) PROVE Roles'
  BY <1>33 DEF Retry
<1>34. ASSUME NEW p \in Proc, Fail(p) PROVE Roles'
  BY <1>34 DEF Fail
<1>35. ASSUME NEW p \in Proc, MarkCanceled(p) PROVE Roles'
  BY <1>35 DEF MarkCanceled
<1>36. ASSUME NEW p \in Proc, MarkExpired(p) PROVE Roles'
  BY <1>36 DEF MarkExpired
<1>37. ASSUME NEW p \in Proc, Abort(p) PROVE Roles'
  BY <1>37 DEF Abort
<1> QED
  BY <1>1, <1>2, <1>3, <1>4, <1>5, <1>6, <1>7, <1>8, <1>9, <1>10,
     <1>11, <1>12, <1>13, <1>14, <1>15, <1>16, <1>17, <1>18, <1>19, <1>20,
     <1>21, <1>22, <1>23, <1>24, <1>25, <1>26, <1>27, <1>28, <1>29, <1>30,
     <1>31, <1>32, <1>33, <1>34, <1>35, <1>36, <1>37
     DEF Next, Environment, RequestStarts, RequestStep, JobStep, CommonStep

\* A step that adds no holder and reopens no row keeps the mutual exclusion.
LEMMA KeepsHolder == OneHolder /\ NoHolder /\ Keeps => OneHolder' /\ NoHolder'
  BY DEF OneHolder, NoHolder, Keeps

\* Every step keeps at most one holder of a row, and none of a row that is
\* pending or closed: only a claim adds a holder, only the holder resets.
LEMMA HolderNext ==
  TypeOK /\ Targets /\ Roles /\ OneHolder /\ NoHolder /\ [Next]_vars
    => OneHolder' /\ NoHolder'
<1> SUFFICES ASSUME TypeOK, Targets, Roles, OneHolder, NoHolder, [Next]_vars
             PROVE  OneHolder' /\ NoHolder'
  OBVIOUS
<1> USE StoreAssumption, LifecycleAssumption, KeepsHolder
    DEF Keeps, Holds, Unclaimable, Idle, TypeOK, StoreTypeOK, Doc, Proc, Jobs,
        Begin, Goto, Done, Finally, Exists, Pending
<1>1. CASE UNCHANGED vars
  BY <1>1
<1>2. ASSUME NEW s \in Session, SessionSettles(s) PROVE OneHolder' /\ NoHolder'
  BY <1>2 DEF SessionSettles
<1>3. ASSUME NEW s \in Session, WebhookNotPaid(s) PROVE OneHolder' /\ NoHolder'
  BY <1>3
      DEF WebhookNotPaid, MarkCanceledIfPending, MarkExpiredIfPending,
          MarkTerminalIfPending, MarkFailed
<1>4. ASSUME NEW t \in Tx, DeadlinePasses(t) PROVE OneHolder' /\ NoHolder'
  BY <1>4 DEF DeadlinePasses
<1>5. ASSUME NEW t \in Tx, CreateCheckout(t) PROVE OneHolder' /\ NoHolder'
  BY <1>5 DEF CreateCheckout, CreateTransaction
<1>6. ASSUME NEW r \in Requests, NEW t \in Tx, CreateIntent(r, t)
      PROVE  OneHolder' /\ NoHolder'
  BY <1>6 DEF CreateIntent, CreateTransaction
<1>7. ASSUME NEW r \in Requests, NEW t \in Tx, SelectProvider(r, t)
      PROVE  OneHolder' /\ NoHolder'
  BY <1>7 DEF SelectProvider
<1>8. ASSUME NEW r \in Requests, NEW t \in Tx, Cancel(r, t)
      PROVE  OneHolder' /\ NoHolder'
  BY <1>8 DEF Cancel
<1>9. ASSUME NEW r \in Requests, NEW t \in Tx, Unselect(r, t)
      PROVE  OneHolder' /\ NoHolder'
  BY <1>9 DEF Unselect
<1>10. ASSUME NEW r \in Requests, NEW t \in Tx, Sync(r, t)
      PROVE  OneHolder' /\ NoHolder'
  BY <1>10 DEF Sync
<1>11. ASSUME NEW r \in Requests, NEW s \in Session, WebhookSuccess(r, s)
      PROVE  OneHolder' /\ NoHolder'
  BY <1>11
      DEF WebhookSuccess, AtomicClaimFulfilling, OneHolder, NoHolder, Targets
<1>12. ASSUME NEW r \in Requests, CreateSession(r) PROVE OneHolder' /\ NoHolder'
  BY <1>12 DEF CreateSession
<1>13. ASSUME NEW r \in Requests, DeleteRow(r) PROVE OneHolder' /\ NoHolder'
  BY <1>13 DEF DeleteRow, DeleteTransaction
<1>14. ASSUME NEW r \in Requests, OpenSelected(r) PROVE OneHolder' /\ NoHolder'
  BY <1>14 DEF OpenSelected, Returns
<1>15. ASSUME NEW r \in Requests, Attach(r) PROVE OneHolder' /\ NoHolder'
  BY <1>15 DEF Attach, AttachProviderTransaction
<1>16. ASSUME NEW r \in Requests, CancelAtProvider(r)
      PROVE  OneHolder' /\ NoHolder'
  BY <1>16 DEF CancelAtProvider
<1>17. ASSUME NEW r \in Requests, UnselectAtProvider(r)
      PROVE  OneHolder' /\ NoHolder'
  BY <1>17 DEF UnselectAtProvider
<1>18. ASSUME NEW r \in Requests, Clear(r) PROVE OneHolder' /\ NoHolder'
  BY <1>18 DEF Clear, ClearProviderTransactionIfPending
<1>19. ASSUME NEW r \in Requests, SyncQuery(r) PROVE OneHolder' /\ NoHolder'
  BY <1>19 DEF SyncQuery
<1>20. ASSUME NEW r \in Requests, UpdateId(r) PROVE OneHolder' /\ NoHolder'
  BY <1>20 DEF UpdateId, UpdateProviderTransactionID
<1>21. ASSUME NEW j \in Jobs, ListStuck(j) PROVE OneHolder' /\ NoHolder'
  BY <1>21 DEF ListStuck, Lists
<1>22. ASSUME NEW j \in Jobs, ListExpired(j) PROVE OneHolder' /\ NoHolder'
  BY <1>22 DEF ListExpired, Lists
<1>23. ASSUME NEW j \in Jobs, ListPending(j) PROVE OneHolder' /\ NoHolder'
  BY <1>23 DEF ListPending, Lists
<1>24. ASSUME NEW j \in Jobs, Take(j) PROVE OneHolder' /\ NoHolder'
  BY <1>24 DEF Take, TodoItem
<1>25. ASSUME NEW j \in Jobs, Expire(j) PROVE OneHolder' /\ NoHolder'
  BY <1>25 DEF Expire
<1>26. ASSUME NEW j \in Jobs, CancelExpired(j) PROVE OneHolder' /\ NoHolder'
  BY <1>26 DEF CancelExpired
<1>27. ASSUME NEW j \in Jobs, Poll(j) PROVE OneHolder' /\ NoHolder'
  BY <1>27 DEF Poll
<1>28. ASSUME NEW p \in Proc, Claim(p) PROVE OneHolder' /\ NoHolder'
  BY <1>28, SMTT(60) DEF Claim, AtomicClaimFulfilling, OneHolder, NoHolder
<1>29. ASSUME NEW p \in Proc, FulfillUserItem(p) PROVE OneHolder' /\ NoHolder'
  BY <1>29 DEF FulfillUserItem, Roles
<1>30. ASSUME NEW p \in Proc, FulfillFails(p) PROVE OneHolder' /\ NoHolder'
  BY <1>30 DEF FulfillFails, Roles
<1>31. ASSUME NEW p \in Proc, Commit(p) PROVE OneHolder' /\ NoHolder'
  BY <1>31 DEF Commit, CommitFulfilled
<1>32. ASSUME NEW p \in Proc, Reset(p) PROVE OneHolder' /\ NoHolder'
  BY <1>32 DEF Reset, ResetToPending, OneHolder, NoHolder, Roles
<1>33. ASSUME NEW p \in Proc, Retry(p) PROVE OneHolder' /\ NoHolder'
  BY <1>33 DEF Retry, IncrementRetries
<1>34. ASSUME NEW p \in Proc, Fail(p) PROVE OneHolder' /\ NoHolder'
  BY <1>34 DEF Fail, MarkFailed
<1>35. ASSUME NEW p \in Proc, MarkCanceled(p) PROVE OneHolder' /\ NoHolder'
  BY <1>35 DEF MarkCanceled, MarkCanceledIfPending, MarkTerminalIfPending
<1>36. ASSUME NEW p \in Proc, MarkExpired(p) PROVE OneHolder' /\ NoHolder'
  BY <1>36 DEF MarkExpired, MarkExpiredIfPending, MarkTerminalIfPending
<1>37. ASSUME NEW p \in Proc, Abort(p) PROVE OneHolder' /\ NoHolder'
  BY <1>37 DEF Abort
<1> QED
  BY <1>1, <1>2, <1>3, <1>4, <1>5, <1>6, <1>7, <1>8, <1>9, <1>10,
     <1>11, <1>12, <1>13, <1>14, <1>15, <1>16, <1>17, <1>18, <1>19, <1>20,
     <1>21, <1>22, <1>23, <1>24, <1>25, <1>26, <1>27, <1>28, <1>29, <1>30,
     <1>31, <1>32, <1>33, <1>34, <1>35, <1>36, <1>37
     DEF Next, Environment, RequestStarts, RequestStep, JobStep, CommonStep

-----------------------------------------------------------------------------
\* The provider's sessions

\* An opened session keeps its order, and a paid one stays paid.
SessionsKept ==
    \A s \in Session : sstate[s] # "UNUSED" =>
        /\ stx'[s] = stx[s]
        /\ sstate'[s] # "UNUSED"
        /\ sstate[s] = "SUCCESS" => sstate'[s] = "SUCCESS"

\* No step reopens a session or takes a payment back.
LEMMA SessionsNext == TypeOK /\ [Next]_vars => SessionsKept
<1> SUFFICES ASSUME TypeOK, [Next]_vars PROVE SessionsKept
  OBVIOUS
<1> USE DEF SessionsKept, TypeOK, SessionState
<1>1. CASE UNCHANGED vars
  BY <1>1
<1>2. ASSUME NEW s \in Session, SessionSettles(s) PROVE SessionsKept
  BY <1>2 DEF SessionSettles
<1>3. ASSUME NEW s \in Session, WebhookNotPaid(s) PROVE SessionsKept
  BY <1>3 DEF WebhookNotPaid
<1>4. ASSUME NEW t \in Tx, DeadlinePasses(t) PROVE SessionsKept
  BY <1>4 DEF DeadlinePasses
<1>5. ASSUME NEW t \in Tx, CreateCheckout(t) PROVE SessionsKept
  BY <1>5 DEF CreateCheckout
<1>6. ASSUME NEW r \in Requests, NEW t \in Tx, CreateIntent(r, t)
      PROVE  SessionsKept
  BY <1>6 DEF CreateIntent
<1>7. ASSUME NEW r \in Requests, NEW t \in Tx, SelectProvider(r, t)
      PROVE  SessionsKept
  BY <1>7 DEF SelectProvider
<1>8. ASSUME NEW r \in Requests, NEW t \in Tx, Cancel(r, t) PROVE SessionsKept
  BY <1>8 DEF Cancel
<1>9. ASSUME NEW r \in Requests, NEW t \in Tx, Unselect(r, t) PROVE SessionsKept
  BY <1>9 DEF Unselect
<1>10. ASSUME NEW r \in Requests, NEW t \in Tx, Sync(r, t) PROVE SessionsKept
  BY <1>10 DEF Sync
<1>11. ASSUME NEW r \in Requests, NEW s \in Session, WebhookSuccess(r, s)
      PROVE  SessionsKept
  BY <1>11 DEF WebhookSuccess
<1>12. ASSUME NEW r \in Requests, CreateSession(r) PROVE SessionsKept
  BY <1>12 DEF CreateSession, Opens
<1>13. ASSUME NEW r \in Requests, DeleteRow(r) PROVE SessionsKept
  BY <1>13 DEF DeleteRow, Finally
<1>14. ASSUME NEW r \in Requests, OpenSelected(r) PROVE SessionsKept
  BY <1>14 DEF OpenSelected, Returns, Opens
<1>15. ASSUME NEW r \in Requests, Attach(r) PROVE SessionsKept
  BY <1>15 DEF Attach, Finally
<1>16. ASSUME NEW r \in Requests, CancelAtProvider(r) PROVE SessionsKept
  BY <1>16 DEF CancelAtProvider, CancelAnswer
<1>17. ASSUME NEW r \in Requests, UnselectAtProvider(r) PROVE SessionsKept
  BY <1>17 DEF UnselectAtProvider, CancelAnswer
<1>18. ASSUME NEW r \in Requests, Clear(r) PROVE SessionsKept
  BY <1>18 DEF Clear, Finally
<1>19. ASSUME NEW r \in Requests, SyncQuery(r) PROVE SessionsKept
  BY <1>19 DEF SyncQuery
<1>20. ASSUME NEW r \in Requests, UpdateId(r) PROVE SessionsKept
  BY <1>20 DEF UpdateId
<1>21. ASSUME NEW j \in Jobs, ListStuck(j) PROVE SessionsKept
  BY <1>21 DEF ListStuck, Lists
<1>22. ASSUME NEW j \in Jobs, ListExpired(j) PROVE SessionsKept
  BY <1>22 DEF ListExpired, Lists
<1>23. ASSUME NEW j \in Jobs, ListPending(j) PROVE SessionsKept
  BY <1>23 DEF ListPending, Lists
<1>24. ASSUME NEW j \in Jobs, Take(j) PROVE SessionsKept
  BY <1>24 DEF Take
<1>25. ASSUME NEW j \in Jobs, Expire(j) PROVE SessionsKept
  BY <1>25 DEF Expire
<1>26. ASSUME NEW j \in Jobs, CancelExpired(j) PROVE SessionsKept
  BY <1>26 DEF CancelExpired, CancelAnswer
<1>27. ASSUME NEW j \in Jobs, Poll(j) PROVE SessionsKept
  BY <1>27 DEF Poll
<1>28. ASSUME NEW p \in Proc, Claim(p) PROVE SessionsKept
  BY <1>28 DEF Claim
<1>29. ASSUME NEW p \in Proc, FulfillUserItem(p) PROVE SessionsKept
  BY <1>29 DEF FulfillUserItem
<1>30. ASSUME NEW p \in Proc, FulfillFails(p) PROVE SessionsKept
  BY <1>30 DEF FulfillFails
<1>31. ASSUME NEW p \in Proc, Commit(p) PROVE SessionsKept
  BY <1>31 DEF Commit, Finally
<1>32. ASSUME NEW p \in Proc, Reset(p) PROVE SessionsKept
  BY <1>32 DEF Reset, Finally
<1>33. ASSUME NEW p \in Proc, Retry(p) PROVE SessionsKept
  BY <1>33 DEF Retry, Finally
<1>34. ASSUME NEW p \in Proc, Fail(p) PROVE SessionsKept
  BY <1>34 DEF Fail, Finally
<1>35. ASSUME NEW p \in Proc, MarkCanceled(p) PROVE SessionsKept
  BY <1>35 DEF MarkCanceled, Finally
<1>36. ASSUME NEW p \in Proc, MarkExpired(p) PROVE SessionsKept
  BY <1>36 DEF MarkExpired, Finally
<1>37. ASSUME NEW p \in Proc, Abort(p) PROVE SessionsKept
  BY <1>37 DEF Abort
<1> QED
  BY <1>1, <1>2, <1>3, <1>4, <1>5, <1>6, <1>7, <1>8, <1>9, <1>10,
     <1>11, <1>12, <1>13, <1>14, <1>15, <1>16, <1>17, <1>18, <1>19, <1>20,
     <1>21, <1>22, <1>23, <1>24, <1>25, <1>26, <1>27, <1>28, <1>29, <1>30,
     <1>31, <1>32, <1>33, <1>34, <1>35, <1>36, <1>37
     DEF Next, Environment, RequestStarts, RequestStep, JobStep, CommonStep

\* What was opened for t stays opened for t.
LEMMA OpenedForKept == SessionsKept => \A s, t : OpenedFor(s, t) => OpenedFor(s, t)'
  BY DEF SessionsKept, OpenedFor

\* What was paid stays paid.
LEMMA PaidKept == SessionsKept => \A t : Paid(t) => Paid(t)'
  BY DEF SessionsKept, Paid

\* Every step keeps provider queries to documents with a provider id.
LEMMA SyncsNext == TypeOK /\ SyncsAttached /\ [Next]_vars => SyncsAttached'
<1> SUFFICES ASSUME TypeOK, SyncsAttached, [Next]_vars PROVE SyncsAttached'
  OBVIOUS
<1> USE LifecycleAssumption
    DEF SyncsAttached, TypeOK, Proc, Jobs, Begin, Goto, Done, Finally, Idle
<1>1. CASE UNCHANGED vars
  BY <1>1
<1>2. ASSUME NEW s \in Session, SessionSettles(s) PROVE SyncsAttached'
  BY <1>2 DEF SessionSettles
<1>3. ASSUME NEW s \in Session, WebhookNotPaid(s) PROVE SyncsAttached'
  BY <1>3 DEF WebhookNotPaid
<1>4. ASSUME NEW t \in Tx, DeadlinePasses(t) PROVE SyncsAttached'
  BY <1>4 DEF DeadlinePasses
<1>5. ASSUME NEW t \in Tx, CreateCheckout(t) PROVE SyncsAttached'
  BY <1>5 DEF CreateCheckout
<1>6. ASSUME NEW r \in Requests, NEW t \in Tx, CreateIntent(r, t)
      PROVE  SyncsAttached'
  BY <1>6 DEF CreateIntent
<1>7. ASSUME NEW r \in Requests, NEW t \in Tx, SelectProvider(r, t)
      PROVE  SyncsAttached'
  BY <1>7 DEF SelectProvider
<1>8. ASSUME NEW r \in Requests, NEW t \in Tx, Cancel(r, t) PROVE SyncsAttached'
  BY <1>8 DEF Cancel
<1>9. ASSUME NEW r \in Requests, NEW t \in Tx, Unselect(r, t)
      PROVE  SyncsAttached'
  BY <1>9 DEF Unselect
<1>10. ASSUME NEW r \in Requests, NEW t \in Tx, Sync(r, t) PROVE SyncsAttached'
  BY <1>10 DEF Sync
<1>11. ASSUME NEW r \in Requests, NEW s \in Session, WebhookSuccess(r, s)
      PROVE  SyncsAttached'
  BY <1>11 DEF WebhookSuccess
<1>12. ASSUME NEW r \in Requests, CreateSession(r) PROVE SyncsAttached'
  BY <1>12 DEF CreateSession
<1>13. ASSUME NEW r \in Requests, DeleteRow(r) PROVE SyncsAttached'
  BY <1>13 DEF DeleteRow
<1>14. ASSUME NEW r \in Requests, OpenSelected(r) PROVE SyncsAttached'
  BY <1>14 DEF OpenSelected, Returns
<1>15. ASSUME NEW r \in Requests, Attach(r) PROVE SyncsAttached'
  BY <1>15 DEF Attach
<1>16. ASSUME NEW r \in Requests, CancelAtProvider(r) PROVE SyncsAttached'
  BY <1>16 DEF CancelAtProvider
<1>17. ASSUME NEW r \in Requests, UnselectAtProvider(r) PROVE SyncsAttached'
  BY <1>17 DEF UnselectAtProvider
<1>18. ASSUME NEW r \in Requests, Clear(r) PROVE SyncsAttached'
  BY <1>18 DEF Clear
<1>19. ASSUME NEW r \in Requests, SyncQuery(r) PROVE SyncsAttached'
  BY <1>19 DEF SyncQuery
<1>20. ASSUME NEW r \in Requests, UpdateId(r) PROVE SyncsAttached'
  BY <1>20 DEF UpdateId
<1>21. ASSUME NEW j \in Jobs, ListStuck(j) PROVE SyncsAttached'
  BY <1>21 DEF ListStuck, Lists
<1>22. ASSUME NEW j \in Jobs, ListExpired(j) PROVE SyncsAttached'
  BY <1>22 DEF ListExpired, Lists
<1>23. ASSUME NEW j \in Jobs, ListPending(j) PROVE SyncsAttached'
  BY <1>23 DEF ListPending, Lists
<1>24. ASSUME NEW j \in Jobs, Take(j) PROVE SyncsAttached'
  BY <1>24 DEF Take, TodoItem
<1>25. ASSUME NEW j \in Jobs, Expire(j) PROVE SyncsAttached'
  BY <1>25 DEF Expire
<1>26. ASSUME NEW j \in Jobs, CancelExpired(j) PROVE SyncsAttached'
  BY <1>26 DEF CancelExpired
<1>27. ASSUME NEW j \in Jobs, Poll(j) PROVE SyncsAttached'
  BY <1>27 DEF Poll
<1>28. ASSUME NEW p \in Proc, Claim(p) PROVE SyncsAttached'
  BY <1>28 DEF Claim
<1>29. ASSUME NEW p \in Proc, FulfillUserItem(p) PROVE SyncsAttached'
  BY <1>29 DEF FulfillUserItem
<1>30. ASSUME NEW p \in Proc, FulfillFails(p) PROVE SyncsAttached'
  BY <1>30 DEF FulfillFails
<1>31. ASSUME NEW p \in Proc, Commit(p) PROVE SyncsAttached'
  BY <1>31 DEF Commit
<1>32. ASSUME NEW p \in Proc, Reset(p) PROVE SyncsAttached'
  BY <1>32 DEF Reset
<1>33. ASSUME NEW p \in Proc, Retry(p) PROVE SyncsAttached'
  BY <1>33 DEF Retry
<1>34. ASSUME NEW p \in Proc, Fail(p) PROVE SyncsAttached'
  BY <1>34 DEF Fail
<1>35. ASSUME NEW p \in Proc, MarkCanceled(p) PROVE SyncsAttached'
  BY <1>35 DEF MarkCanceled
<1>36. ASSUME NEW p \in Proc, MarkExpired(p) PROVE SyncsAttached'
  BY <1>36 DEF MarkExpired
<1>37. ASSUME NEW p \in Proc, Abort(p) PROVE SyncsAttached'
  BY <1>37 DEF Abort
<1> QED
  BY <1>1, <1>2, <1>3, <1>4, <1>5, <1>6, <1>7, <1>8, <1>9, <1>10,
     <1>11, <1>12, <1>13, <1>14, <1>15, <1>16, <1>17, <1>18, <1>19, <1>20,
     <1>21, <1>22, <1>23, <1>24, <1>25, <1>26, <1>27, <1>28, <1>29, <1>30,
     <1>31, <1>32, <1>33, <1>34, <1>35, <1>36, <1>37
     DEF Next, Environment, RequestStarts, RequestStep, JobStep, CommonStep

\* Every step keeps the grant before the commit.
LEMMA GrantNext ==
  TypeOK /\ Targets /\ GrantBeforeCommit /\ [Next]_vars => GrantBeforeCommit'
<1> SUFFICES ASSUME TypeOK, Targets, GrantBeforeCommit, [Next]_vars
             PROVE  GrantBeforeCommit'
  OBVIOUS
<1> USE LifecycleAssumption
    DEF GrantBeforeCommit, FulfilledIsGranted, Targets, TypeOK, StoreTypeOK,
        Doc, Proc, Jobs, Begin, Goto, Done, Finally, Idle, Exists, Pending
<1>1. CASE UNCHANGED vars
  BY <1>1
<1>2. ASSUME NEW s \in Session, SessionSettles(s) PROVE GrantBeforeCommit'
  BY <1>2 DEF SessionSettles
<1>3. ASSUME NEW s \in Session, WebhookNotPaid(s) PROVE GrantBeforeCommit'
  BY <1>3
      DEF WebhookNotPaid, MarkCanceledIfPending, MarkExpiredIfPending,
          MarkTerminalIfPending, MarkFailed
<1>4. ASSUME NEW t \in Tx, DeadlinePasses(t) PROVE GrantBeforeCommit'
  BY <1>4 DEF DeadlinePasses
<1>5. ASSUME NEW t \in Tx, CreateCheckout(t) PROVE GrantBeforeCommit'
  BY <1>5 DEF CreateCheckout, CreateTransaction
<1>6. ASSUME NEW r \in Requests, NEW t \in Tx, CreateIntent(r, t)
      PROVE  GrantBeforeCommit'
  BY <1>6 DEF CreateIntent, CreateTransaction
<1>7. ASSUME NEW r \in Requests, NEW t \in Tx, SelectProvider(r, t)
      PROVE  GrantBeforeCommit'
  BY <1>7 DEF SelectProvider
<1>8. ASSUME NEW r \in Requests, NEW t \in Tx, Cancel(r, t)
      PROVE  GrantBeforeCommit'
  BY <1>8 DEF Cancel
<1>9. ASSUME NEW r \in Requests, NEW t \in Tx, Unselect(r, t)
      PROVE  GrantBeforeCommit'
  BY <1>9 DEF Unselect
<1>10. ASSUME NEW r \in Requests, NEW t \in Tx, Sync(r, t)
      PROVE  GrantBeforeCommit'
  BY <1>10 DEF Sync
<1>11. ASSUME NEW r \in Requests, NEW s \in Session, WebhookSuccess(r, s)
      PROVE  GrantBeforeCommit'
  BY <1>11 DEF WebhookSuccess, AtomicClaimFulfilling
<1>12. ASSUME NEW r \in Requests, CreateSession(r) PROVE GrantBeforeCommit'
  BY <1>12 DEF CreateSession
<1>13. ASSUME NEW r \in Requests, DeleteRow(r) PROVE GrantBeforeCommit'
  BY <1>13 DEF DeleteRow, DeleteTransaction
<1>14. ASSUME NEW r \in Requests, OpenSelected(r) PROVE GrantBeforeCommit'
  BY <1>14 DEF OpenSelected, Returns
<1>15. ASSUME NEW r \in Requests, Attach(r) PROVE GrantBeforeCommit'
  BY <1>15 DEF Attach, AttachProviderTransaction
<1>16. ASSUME NEW r \in Requests, CancelAtProvider(r) PROVE GrantBeforeCommit'
  BY <1>16 DEF CancelAtProvider
<1>17. ASSUME NEW r \in Requests, UnselectAtProvider(r) PROVE GrantBeforeCommit'
  BY <1>17 DEF UnselectAtProvider
<1>18. ASSUME NEW r \in Requests, Clear(r) PROVE GrantBeforeCommit'
  BY <1>18 DEF Clear, ClearProviderTransactionIfPending
<1>19. ASSUME NEW r \in Requests, SyncQuery(r) PROVE GrantBeforeCommit'
  BY <1>19 DEF SyncQuery
<1>20. ASSUME NEW r \in Requests, UpdateId(r) PROVE GrantBeforeCommit'
  BY <1>20 DEF UpdateId, UpdateProviderTransactionID
<1>21. ASSUME NEW j \in Jobs, ListStuck(j) PROVE GrantBeforeCommit'
  BY <1>21 DEF ListStuck, Lists
<1>22. ASSUME NEW j \in Jobs, ListExpired(j) PROVE GrantBeforeCommit'
  BY <1>22 DEF ListExpired, Lists
<1>23. ASSUME NEW j \in Jobs, ListPending(j) PROVE GrantBeforeCommit'
  BY <1>23 DEF ListPending, Lists
<1>24. ASSUME NEW j \in Jobs, Take(j) PROVE GrantBeforeCommit'
  BY <1>24 DEF Take, TodoItem
<1>25. ASSUME NEW j \in Jobs, Expire(j) PROVE GrantBeforeCommit'
  BY <1>25 DEF Expire
<1>26. ASSUME NEW j \in Jobs, CancelExpired(j) PROVE GrantBeforeCommit'
  BY <1>26 DEF CancelExpired
<1>27. ASSUME NEW j \in Jobs, Poll(j) PROVE GrantBeforeCommit'
  BY <1>27 DEF Poll
<1>28. ASSUME NEW p \in Proc, Claim(p) PROVE GrantBeforeCommit'
  BY <1>28 DEF Claim, AtomicClaimFulfilling
<1>29. ASSUME NEW p \in Proc, FulfillUserItem(p) PROVE GrantBeforeCommit'
  BY <1>29 DEF FulfillUserItem
<1>30. ASSUME NEW p \in Proc, FulfillFails(p) PROVE GrantBeforeCommit'
  BY <1>30 DEF FulfillFails
<1>31. ASSUME NEW p \in Proc, Commit(p) PROVE GrantBeforeCommit'
  BY <1>31 DEF Commit, CommitFulfilled
<1>32. ASSUME NEW p \in Proc, Reset(p) PROVE GrantBeforeCommit'
  BY <1>32 DEF Reset, ResetToPending
<1>33. ASSUME NEW p \in Proc, Retry(p) PROVE GrantBeforeCommit'
  BY <1>33 DEF Retry, IncrementRetries
<1>34. ASSUME NEW p \in Proc, Fail(p) PROVE GrantBeforeCommit'
  BY <1>34 DEF Fail, MarkFailed
<1>35. ASSUME NEW p \in Proc, MarkCanceled(p) PROVE GrantBeforeCommit'
  BY <1>35 DEF MarkCanceled, MarkCanceledIfPending, MarkTerminalIfPending
<1>36. ASSUME NEW p \in Proc, MarkExpired(p) PROVE GrantBeforeCommit'
  BY <1>36 DEF MarkExpired, MarkExpiredIfPending, MarkTerminalIfPending
<1>37. ASSUME NEW p \in Proc, Abort(p) PROVE GrantBeforeCommit'
  BY <1>37 DEF Abort
<1> QED
  BY <1>1, <1>2, <1>3, <1>4, <1>5, <1>6, <1>7, <1>8, <1>9, <1>10,
     <1>11, <1>12, <1>13, <1>14, <1>15, <1>16, <1>17, <1>18, <1>19, <1>20,
     <1>21, <1>22, <1>23, <1>24, <1>25, <1>26, <1>27, <1>28, <1>29, <1>30,
     <1>31, <1>32, <1>33, <1>34, <1>35, <1>36, <1>37
     DEF Next, Environment, RequestStarts, RequestStep, JobStep, CommonStep

\* Every write of provider_tx_id writes a session of that very row.
LEMMA RowSessionsNext ==
  TypeOK /\ Targets /\ OwnSessions /\ [Next]_vars => RowSessions'
<1> SUFFICES ASSUME TypeOK, Targets, OwnSessions, [Next]_vars PROVE RowSessions'
  OBVIOUS
<1>a. \A s, t : OpenedFor(s, t) => OpenedFor(s, t)'
  BY SessionsNext, OpenedForKept
<1> USE <1>a, StoreAssumption
    DEF OwnSessions, RowSessions, Targets, TypeOK, StoreTypeOK, Doc, Proc,
        Jobs, Finally, Exists, Pending
<1>1. CASE UNCHANGED vars
  BY <1>1
<1>2. ASSUME NEW s \in Session, SessionSettles(s) PROVE RowSessions'
  BY <1>2 DEF SessionSettles
<1>3. ASSUME NEW s \in Session, WebhookNotPaid(s) PROVE RowSessions'
  BY <1>3
      DEF WebhookNotPaid, MarkCanceledIfPending, MarkExpiredIfPending,
          MarkTerminalIfPending, MarkFailed
<1>4. ASSUME NEW t \in Tx, DeadlinePasses(t) PROVE RowSessions'
  BY <1>4 DEF DeadlinePasses
<1>5. ASSUME NEW t \in Tx, CreateCheckout(t) PROVE RowSessions'
  BY <1>5 DEF CreateCheckout, CreateTransaction
<1>6. ASSUME NEW r \in Requests, NEW t \in Tx, CreateIntent(r, t)
      PROVE  RowSessions'
  BY <1>6 DEF CreateIntent, CreateTransaction
<1>7. ASSUME NEW r \in Requests, NEW t \in Tx, SelectProvider(r, t)
      PROVE  RowSessions'
  BY <1>7 DEF SelectProvider
<1>8. ASSUME NEW r \in Requests, NEW t \in Tx, Cancel(r, t) PROVE RowSessions'
  BY <1>8 DEF Cancel
<1>9. ASSUME NEW r \in Requests, NEW t \in Tx, Unselect(r, t) PROVE RowSessions'
  BY <1>9 DEF Unselect
<1>10. ASSUME NEW r \in Requests, NEW t \in Tx, Sync(r, t) PROVE RowSessions'
  BY <1>10 DEF Sync
<1>11. ASSUME NEW r \in Requests, NEW s \in Session, WebhookSuccess(r, s)
      PROVE  RowSessions'
  BY <1>11 DEF WebhookSuccess, AtomicClaimFulfilling, OpenedFor
<1>12. ASSUME NEW r \in Requests, CreateSession(r) PROVE RowSessions'
  BY <1>12 DEF CreateSession
<1>13. ASSUME NEW r \in Requests, DeleteRow(r) PROVE RowSessions'
  BY <1>13 DEF DeleteRow, DeleteTransaction
<1>14. ASSUME NEW r \in Requests, OpenSelected(r) PROVE RowSessions'
  BY <1>14 DEF OpenSelected, Returns
<1>15. ASSUME NEW r \in Requests, Attach(r) PROVE RowSessions'
  BY <1>15 DEF Attach, AttachProviderTransaction, ProcSessions
<1>16. ASSUME NEW r \in Requests, CancelAtProvider(r) PROVE RowSessions'
  BY <1>16 DEF CancelAtProvider
<1>17. ASSUME NEW r \in Requests, UnselectAtProvider(r) PROVE RowSessions'
  BY <1>17 DEF UnselectAtProvider
<1>18. ASSUME NEW r \in Requests, Clear(r) PROVE RowSessions'
  BY <1>18 DEF Clear, ClearProviderTransactionIfPending, OpenedFor
<1>19. ASSUME NEW r \in Requests, SyncQuery(r) PROVE RowSessions'
  BY <1>19 DEF SyncQuery
<1>20. ASSUME NEW r \in Requests, UpdateId(r) PROVE RowSessions'
  BY <1>20 DEF UpdateId, UpdateProviderTransactionID, ProcSessions
<1>21. ASSUME NEW j \in Jobs, ListStuck(j) PROVE RowSessions'
  BY <1>21 DEF ListStuck, Lists
<1>22. ASSUME NEW j \in Jobs, ListExpired(j) PROVE RowSessions'
  BY <1>22 DEF ListExpired, Lists
<1>23. ASSUME NEW j \in Jobs, ListPending(j) PROVE RowSessions'
  BY <1>23 DEF ListPending, Lists
<1>24. ASSUME NEW j \in Jobs, Take(j) PROVE RowSessions'
  BY <1>24 DEF Take
<1>25. ASSUME NEW j \in Jobs, Expire(j) PROVE RowSessions'
  BY <1>25 DEF Expire
<1>26. ASSUME NEW j \in Jobs, CancelExpired(j) PROVE RowSessions'
  BY <1>26 DEF CancelExpired
<1>27. ASSUME NEW j \in Jobs, Poll(j) PROVE RowSessions'
  BY <1>27 DEF Poll
<1>28. ASSUME NEW p \in Proc, Claim(p) PROVE RowSessions'
  BY <1>28 DEF Claim, AtomicClaimFulfilling, ProcSessions
<1>29. ASSUME NEW p \in Proc, FulfillUserItem(p) PROVE RowSessions'
  BY <1>29 DEF FulfillUserItem
<1>30. ASSUME NEW p \in Proc, FulfillFails(p) PROVE RowSessions'
  BY <1>30 DEF FulfillFails
<1>31. ASSUME NEW p \in Proc, Commit(p) PROVE RowSessions'
  BY <1>31 DEF Commit, CommitFulfilled
<1>32. ASSUME NEW p \in Proc, Reset(p) PROVE RowSessions'
  BY <1>32 DEF Reset, ResetToPending
<1>33. ASSUME NEW p \in Proc, Retry(p) PROVE RowSessions'
  BY <1>33 DEF Retry, IncrementRetries
<1>34. ASSUME NEW p \in Proc, Fail(p) PROVE RowSessions'
  BY <1>34 DEF Fail, MarkFailed
<1>35. ASSUME NEW p \in Proc, MarkCanceled(p) PROVE RowSessions'
  BY <1>35 DEF MarkCanceled, MarkCanceledIfPending, MarkTerminalIfPending
<1>36. ASSUME NEW p \in Proc, MarkExpired(p) PROVE RowSessions'
  BY <1>36 DEF MarkExpired, MarkExpiredIfPending, MarkTerminalIfPending
<1>37. ASSUME NEW p \in Proc, Abort(p) PROVE RowSessions'
  BY <1>37 DEF Abort
<1> QED
  BY <1>1, <1>2, <1>3, <1>4, <1>5, <1>6, <1>7, <1>8, <1>9, <1>10,
     <1>11, <1>12, <1>13, <1>14, <1>15, <1>16, <1>17, <1>18, <1>19, <1>20,
     <1>21, <1>22, <1>23, <1>24, <1>25, <1>26, <1>27, <1>28, <1>29, <1>30,
     <1>31, <1>32, <1>33, <1>34, <1>35, <1>36, <1>37
     DEF Next, Environment, RequestStarts, RequestStep, JobStep, CommonStep

\* Every copy a process takes has a session of its own transaction.
LEMMA ProcSessionsNext ==
  TypeOK /\ Targets /\ OwnSessions /\ [Next]_vars => ProcSessions'
<1> SUFFICES ASSUME TypeOK, Targets, OwnSessions, [Next]_vars
             PROVE  ProcSessions'
  OBVIOUS
<1>a. \A s, t : OpenedFor(s, t) => OpenedFor(s, t)'
  BY SessionsNext, OpenedForKept
<1>b. \A t : OpenedFor(None, t)' /\ NoRow.providerTxID = None
  BY DEF OpenedFor, NoRow
<1> USE <1>a, <1>b, StoreAssumption
    DEF OwnSessions, ProcSessions, TypeOK, Proc, Jobs, Begin, Goto, Done,
        Finally, Idle
<1>1. CASE UNCHANGED vars
  BY <1>1
<1>2. ASSUME NEW s \in Session, SessionSettles(s) PROVE ProcSessions'
  BY <1>2 DEF SessionSettles
<1>3. ASSUME NEW s \in Session, WebhookNotPaid(s) PROVE ProcSessions'
  BY <1>3 DEF WebhookNotPaid
<1>4. ASSUME NEW t \in Tx, DeadlinePasses(t) PROVE ProcSessions'
  BY <1>4 DEF DeadlinePasses
<1>5. ASSUME NEW t \in Tx, CreateCheckout(t) PROVE ProcSessions'
  BY <1>5 DEF CreateCheckout
<1>6. ASSUME NEW r \in Requests, NEW t \in Tx, CreateIntent(r, t)
      PROVE  ProcSessions'
  BY <1>6 DEF CreateIntent
<1>7. ASSUME NEW r \in Requests, NEW t \in Tx, SelectProvider(r, t)
      PROVE  ProcSessions'
  BY <1>7 DEF SelectProvider, RowSessions
<1>8. ASSUME NEW r \in Requests, NEW t \in Tx, Cancel(r, t) PROVE ProcSessions'
  BY <1>8 DEF Cancel, RowSessions
<1>9. ASSUME NEW r \in Requests, NEW t \in Tx, Unselect(r, t)
      PROVE  ProcSessions'
  BY <1>9 DEF Unselect, RowSessions
<1>10. ASSUME NEW r \in Requests, NEW t \in Tx, Sync(r, t) PROVE ProcSessions'
  BY <1>10 DEF Sync, RowSessions
<1>11. ASSUME NEW r \in Requests, NEW s \in Session, WebhookSuccess(r, s)
      PROVE  ProcSessions'
  BY <1>11 DEF WebhookSuccess
<1>12. ASSUME NEW r \in Requests, CreateSession(r) PROVE ProcSessions'
  BY <1>12 DEF CreateSession
<1>13. ASSUME NEW r \in Requests, DeleteRow(r) PROVE ProcSessions'
  BY <1>13 DEF DeleteRow
<1>14. ASSUME NEW r \in Requests, OpenSelected(r) PROVE ProcSessions'
  BY <1>14 DEF OpenSelected, Returns, Opens, OpenedFor, SessionState
<1>15. ASSUME NEW r \in Requests, Attach(r) PROVE ProcSessions'
  BY <1>15 DEF Attach
<1>16. ASSUME NEW r \in Requests, CancelAtProvider(r) PROVE ProcSessions'
  BY <1>16 DEF CancelAtProvider
<1>17. ASSUME NEW r \in Requests, UnselectAtProvider(r) PROVE ProcSessions'
  BY <1>17 DEF UnselectAtProvider
<1>18. ASSUME NEW r \in Requests, Clear(r) PROVE ProcSessions'
  BY <1>18 DEF Clear
<1>19. ASSUME NEW r \in Requests, SyncQuery(r) PROVE ProcSessions'
  BY <1>19 DEF SyncQuery
<1>20. ASSUME NEW r \in Requests, UpdateId(r) PROVE ProcSessions'
  BY <1>20 DEF UpdateId
<1>21. ASSUME NEW j \in Jobs, ListStuck(j) PROVE ProcSessions'
  BY <1>21 DEF ListStuck, Lists
<1>22. ASSUME NEW j \in Jobs, ListExpired(j) PROVE ProcSessions'
  BY <1>22 DEF ListExpired, Lists
<1>23. ASSUME NEW j \in Jobs, ListPending(j) PROVE ProcSessions'
  BY <1>23 DEF ListPending, Lists
<1>24. ASSUME NEW j \in Jobs, Take(j) PROVE ProcSessions'
  BY <1>24 DEF Take, ListedSessions, TodoItem
<1>25. ASSUME NEW j \in Jobs, Expire(j) PROVE ProcSessions'
  BY <1>25 DEF Expire
<1>26. ASSUME NEW j \in Jobs, CancelExpired(j) PROVE ProcSessions'
  BY <1>26 DEF CancelExpired
<1>27. ASSUME NEW j \in Jobs, Poll(j) PROVE ProcSessions'
  BY <1>27 DEF Poll
<1>28. ASSUME NEW p \in Proc, Claim(p) PROVE ProcSessions'
  BY <1>28 DEF Claim
<1>29. ASSUME NEW p \in Proc, FulfillUserItem(p) PROVE ProcSessions'
  BY <1>29 DEF FulfillUserItem
<1>30. ASSUME NEW p \in Proc, FulfillFails(p) PROVE ProcSessions'
  BY <1>30 DEF FulfillFails
<1>31. ASSUME NEW p \in Proc, Commit(p) PROVE ProcSessions'
  BY <1>31 DEF Commit
<1>32. ASSUME NEW p \in Proc, Reset(p) PROVE ProcSessions'
  BY <1>32 DEF Reset
<1>33. ASSUME NEW p \in Proc, Retry(p) PROVE ProcSessions'
  BY <1>33 DEF Retry
<1>34. ASSUME NEW p \in Proc, Fail(p) PROVE ProcSessions'
  BY <1>34 DEF Fail
<1>35. ASSUME NEW p \in Proc, MarkCanceled(p) PROVE ProcSessions'
  BY <1>35 DEF MarkCanceled
<1>36. ASSUME NEW p \in Proc, MarkExpired(p) PROVE ProcSessions'
  BY <1>36 DEF MarkExpired
<1>37. ASSUME NEW p \in Proc, Abort(p) PROVE ProcSessions'
  BY <1>37 DEF Abort
<1> QED
  BY <1>1, <1>2, <1>3, <1>4, <1>5, <1>6, <1>7, <1>8, <1>9, <1>10,
     <1>11, <1>12, <1>13, <1>14, <1>15, <1>16, <1>17, <1>18, <1>19, <1>20,
     <1>21, <1>22, <1>23, <1>24, <1>25, <1>26, <1>27, <1>28, <1>29, <1>30,
     <1>31, <1>32, <1>33, <1>34, <1>35, <1>36, <1>37
     DEF Next, Environment, RequestStarts, RequestStep, JobStep, CommonStep

\* Every copy a job lists has a session of its own transaction.
LEMMA ListedSessionsNext ==
  TypeOK /\ Targets /\ OwnSessions /\ [Next]_vars => ListedSessions'
<1> SUFFICES ASSUME TypeOK, Targets, OwnSessions, [Next]_vars
             PROVE  ListedSessions'
  OBVIOUS
<1>a. \A s, t : OpenedFor(s, t) => OpenedFor(s, t)'
  BY SessionsNext, OpenedForKept
<1> USE <1>a DEF OwnSessions, ListedSessions, TypeOK, Proc, Jobs, Finally
<1>1. CASE UNCHANGED vars
  BY <1>1
<1>2. ASSUME NEW s \in Session, SessionSettles(s) PROVE ListedSessions'
  BY <1>2 DEF SessionSettles
<1>3. ASSUME NEW s \in Session, WebhookNotPaid(s) PROVE ListedSessions'
  BY <1>3 DEF WebhookNotPaid
<1>4. ASSUME NEW t \in Tx, DeadlinePasses(t) PROVE ListedSessions'
  BY <1>4 DEF DeadlinePasses
<1>5. ASSUME NEW t \in Tx, CreateCheckout(t) PROVE ListedSessions'
  BY <1>5 DEF CreateCheckout
<1>6. ASSUME NEW r \in Requests, NEW t \in Tx, CreateIntent(r, t)
      PROVE  ListedSessions'
  BY <1>6 DEF CreateIntent
<1>7. ASSUME NEW r \in Requests, NEW t \in Tx, SelectProvider(r, t)
      PROVE  ListedSessions'
  BY <1>7 DEF SelectProvider
<1>8. ASSUME NEW r \in Requests, NEW t \in Tx, Cancel(r, t)
      PROVE  ListedSessions'
  BY <1>8 DEF Cancel
<1>9. ASSUME NEW r \in Requests, NEW t \in Tx, Unselect(r, t)
      PROVE  ListedSessions'
  BY <1>9 DEF Unselect
<1>10. ASSUME NEW r \in Requests, NEW t \in Tx, Sync(r, t) PROVE ListedSessions'
  BY <1>10 DEF Sync
<1>11. ASSUME NEW r \in Requests, NEW s \in Session, WebhookSuccess(r, s)
      PROVE  ListedSessions'
  BY <1>11 DEF WebhookSuccess
<1>12. ASSUME NEW r \in Requests, CreateSession(r) PROVE ListedSessions'
  BY <1>12 DEF CreateSession
<1>13. ASSUME NEW r \in Requests, DeleteRow(r) PROVE ListedSessions'
  BY <1>13 DEF DeleteRow
<1>14. ASSUME NEW r \in Requests, OpenSelected(r) PROVE ListedSessions'
  BY <1>14 DEF OpenSelected, Returns
<1>15. ASSUME NEW r \in Requests, Attach(r) PROVE ListedSessions'
  BY <1>15 DEF Attach
<1>16. ASSUME NEW r \in Requests, CancelAtProvider(r) PROVE ListedSessions'
  BY <1>16 DEF CancelAtProvider
<1>17. ASSUME NEW r \in Requests, UnselectAtProvider(r) PROVE ListedSessions'
  BY <1>17 DEF UnselectAtProvider
<1>18. ASSUME NEW r \in Requests, Clear(r) PROVE ListedSessions'
  BY <1>18 DEF Clear
<1>19. ASSUME NEW r \in Requests, SyncQuery(r) PROVE ListedSessions'
  BY <1>19 DEF SyncQuery
<1>20. ASSUME NEW r \in Requests, UpdateId(r) PROVE ListedSessions'
  BY <1>20 DEF UpdateId
<1>21. ASSUME NEW j \in Jobs, ListStuck(j) PROVE ListedSessions'
  BY <1>21 DEF ListStuck, Lists, Items, RowSessions, FindStuckFulfilling
<1>22. ASSUME NEW j \in Jobs, ListExpired(j) PROVE ListedSessions'
  BY <1>22 DEF ListExpired, Lists, Items, RowSessions, FindExpiredPending
<1>23. ASSUME NEW j \in Jobs, ListPending(j) PROVE ListedSessions'
  BY <1>23 DEF ListPending, Lists, Items, RowSessions, FindStuckPending
<1>24. ASSUME NEW j \in Jobs, Take(j) PROVE ListedSessions'
  BY <1>24 DEF Take
<1>25. ASSUME NEW j \in Jobs, Expire(j) PROVE ListedSessions'
  BY <1>25 DEF Expire
<1>26. ASSUME NEW j \in Jobs, CancelExpired(j) PROVE ListedSessions'
  BY <1>26 DEF CancelExpired
<1>27. ASSUME NEW j \in Jobs, Poll(j) PROVE ListedSessions'
  BY <1>27 DEF Poll
<1>28. ASSUME NEW p \in Proc, Claim(p) PROVE ListedSessions'
  BY <1>28 DEF Claim
<1>29. ASSUME NEW p \in Proc, FulfillUserItem(p) PROVE ListedSessions'
  BY <1>29 DEF FulfillUserItem
<1>30. ASSUME NEW p \in Proc, FulfillFails(p) PROVE ListedSessions'
  BY <1>30 DEF FulfillFails
<1>31. ASSUME NEW p \in Proc, Commit(p) PROVE ListedSessions'
  BY <1>31 DEF Commit
<1>32. ASSUME NEW p \in Proc, Reset(p) PROVE ListedSessions'
  BY <1>32 DEF Reset
<1>33. ASSUME NEW p \in Proc, Retry(p) PROVE ListedSessions'
  BY <1>33 DEF Retry
<1>34. ASSUME NEW p \in Proc, Fail(p) PROVE ListedSessions'
  BY <1>34 DEF Fail
<1>35. ASSUME NEW p \in Proc, MarkCanceled(p) PROVE ListedSessions'
  BY <1>35 DEF MarkCanceled
<1>36. ASSUME NEW p \in Proc, MarkExpired(p) PROVE ListedSessions'
  BY <1>36 DEF MarkExpired
<1>37. ASSUME NEW p \in Proc, Abort(p) PROVE ListedSessions'
  BY <1>37 DEF Abort
<1> QED
  BY <1>1, <1>2, <1>3, <1>4, <1>5, <1>6, <1>7, <1>8, <1>9, <1>10,
     <1>11, <1>12, <1>13, <1>14, <1>15, <1>16, <1>17, <1>18, <1>19, <1>20,
     <1>21, <1>22, <1>23, <1>24, <1>25, <1>26, <1>27, <1>28, <1>29, <1>30,
     <1>31, <1>32, <1>33, <1>34, <1>35, <1>36, <1>37
     DEF Next, Environment, RequestStarts, RequestStep, JobStep, CommonStep

\* Every step claims, recovers or grants only what was paid.
LEMMA PaidNext ==
  TypeOK /\ Targets /\ OwnSessions /\ SyncsAttached /\ OnlyPaid /\ [Next]_vars
    => OnlyPaid'
<1> SUFFICES ASSUME TypeOK, Targets, OwnSessions, SyncsAttached, OnlyPaid,
                    [Next]_vars
             PROVE  OnlyPaid'
  OBVIOUS
<1>a. \A t : Paid(t) => Paid(t)'
  BY SessionsNext, PaidKept
<1> USE <1>a
    DEF OnlyPaid, NoUnpaidGrant, PaidSteps, Targets, TypeOK, StoreTypeOK, Doc,
        Proc, Jobs, Begin, Goto, Done, Finally, Idle, Exists, Pending
<1>1. CASE UNCHANGED vars
  BY <1>1
<1>2. ASSUME NEW s \in Session, SessionSettles(s) PROVE OnlyPaid'
  BY <1>2 DEF SessionSettles
<1>3. ASSUME NEW s \in Session, WebhookNotPaid(s) PROVE OnlyPaid'
  BY <1>3
      DEF WebhookNotPaid, MarkCanceledIfPending, MarkExpiredIfPending,
          MarkTerminalIfPending, MarkFailed
<1>4. ASSUME NEW t \in Tx, DeadlinePasses(t) PROVE OnlyPaid'
  BY <1>4 DEF DeadlinePasses
<1>5. ASSUME NEW t \in Tx, CreateCheckout(t) PROVE OnlyPaid'
  BY <1>5 DEF CreateCheckout, CreateTransaction
<1>6. ASSUME NEW r \in Requests, NEW t \in Tx, CreateIntent(r, t)
      PROVE  OnlyPaid'
  BY <1>6 DEF CreateIntent, CreateTransaction
<1>7. ASSUME NEW r \in Requests, NEW t \in Tx, SelectProvider(r, t)
      PROVE  OnlyPaid'
  BY <1>7 DEF SelectProvider
<1>8. ASSUME NEW r \in Requests, NEW t \in Tx, Cancel(r, t) PROVE OnlyPaid'
  BY <1>8 DEF Cancel
<1>9. ASSUME NEW r \in Requests, NEW t \in Tx, Unselect(r, t) PROVE OnlyPaid'
  BY <1>9 DEF Unselect
<1>10. ASSUME NEW r \in Requests, NEW t \in Tx, Sync(r, t) PROVE OnlyPaid'
  BY <1>10 DEF Sync
<1>11. ASSUME NEW r \in Requests, NEW s \in Session, WebhookSuccess(r, s)
      PROVE  OnlyPaid'
  BY <1>11 DEF WebhookSuccess, AtomicClaimFulfilling, Paid
<1>12. ASSUME NEW r \in Requests, CreateSession(r) PROVE OnlyPaid'
  BY <1>12 DEF CreateSession
<1>13. ASSUME NEW r \in Requests, DeleteRow(r) PROVE OnlyPaid'
  BY <1>13 DEF DeleteRow, DeleteTransaction
<1>14. ASSUME NEW r \in Requests, OpenSelected(r) PROVE OnlyPaid'
  BY <1>14 DEF OpenSelected, Returns
<1>15. ASSUME NEW r \in Requests, Attach(r) PROVE OnlyPaid'
  BY <1>15 DEF Attach, AttachProviderTransaction
<1>16. ASSUME NEW r \in Requests, CancelAtProvider(r) PROVE OnlyPaid'
  BY <1>16 DEF CancelAtProvider
<1>17. ASSUME NEW r \in Requests, UnselectAtProvider(r) PROVE OnlyPaid'
  BY <1>17 DEF UnselectAtProvider
<1>18. ASSUME NEW r \in Requests, Clear(r) PROVE OnlyPaid'
  BY <1>18 DEF Clear, ClearProviderTransactionIfPending
<1>19. ASSUME NEW r \in Requests, SyncQuery(r) PROVE OnlyPaid'
  BY <1>19
      DEF SyncQuery, SyncsAttached, OwnSessions, ProcSessions, OpenedFor, Paid
<1>20. ASSUME NEW r \in Requests, UpdateId(r) PROVE OnlyPaid'
  BY <1>20 DEF UpdateId, UpdateProviderTransactionID
<1>21. ASSUME NEW j \in Jobs, ListStuck(j) PROVE OnlyPaid'
  BY <1>21 DEF ListStuck, Lists, Items, FindStuckFulfilling
<1>22. ASSUME NEW j \in Jobs, ListExpired(j) PROVE OnlyPaid'
  BY <1>22 DEF ListExpired, Lists, Items
<1>23. ASSUME NEW j \in Jobs, ListPending(j) PROVE OnlyPaid'
  BY <1>23 DEF ListPending, Lists, Items
<1>24. ASSUME NEW j \in Jobs, Take(j) PROVE OnlyPaid'
  BY <1>24, SMTT(60) DEF Take, TodoItem
<1>25. ASSUME NEW j \in Jobs, Expire(j) PROVE OnlyPaid'
  BY <1>25 DEF Expire
<1>26. ASSUME NEW j \in Jobs, CancelExpired(j) PROVE OnlyPaid'
  BY <1>26 DEF CancelExpired
<1>27. ASSUME NEW j \in Jobs, Poll(j) PROVE OnlyPaid'
  BY <1>27 DEF Poll, OwnSessions, ProcSessions, OpenedFor, Paid
<1>28. ASSUME NEW p \in Proc, Claim(p) PROVE OnlyPaid'
  BY <1>28 DEF Claim, AtomicClaimFulfilling
<1>29. ASSUME NEW p \in Proc, FulfillUserItem(p) PROVE OnlyPaid'
  BY <1>29 DEF FulfillUserItem
<1>30. ASSUME NEW p \in Proc, FulfillFails(p) PROVE OnlyPaid'
  BY <1>30 DEF FulfillFails
<1>31. ASSUME NEW p \in Proc, Commit(p) PROVE OnlyPaid'
  BY <1>31 DEF Commit, CommitFulfilled
<1>32. ASSUME NEW p \in Proc, Reset(p) PROVE OnlyPaid'
  BY <1>32 DEF Reset, ResetToPending
<1>33. ASSUME NEW p \in Proc, Retry(p) PROVE OnlyPaid'
  BY <1>33 DEF Retry, IncrementRetries
<1>34. ASSUME NEW p \in Proc, Fail(p) PROVE OnlyPaid'
  BY <1>34 DEF Fail, MarkFailed
<1>35. ASSUME NEW p \in Proc, MarkCanceled(p) PROVE OnlyPaid'
  BY <1>35 DEF MarkCanceled, MarkCanceledIfPending, MarkTerminalIfPending
<1>36. ASSUME NEW p \in Proc, MarkExpired(p) PROVE OnlyPaid'
  BY <1>36 DEF MarkExpired, MarkExpiredIfPending, MarkTerminalIfPending
<1>37. ASSUME NEW p \in Proc, Abort(p) PROVE OnlyPaid'
  BY <1>37 DEF Abort
<1> QED
  BY <1>1, <1>2, <1>3, <1>4, <1>5, <1>6, <1>7, <1>8, <1>9, <1>10,
     <1>11, <1>12, <1>13, <1>14, <1>15, <1>16, <1>17, <1>18, <1>19, <1>20,
     <1>21, <1>22, <1>23, <1>24, <1>25, <1>26, <1>27, <1>28, <1>29, <1>30,
     <1>31, <1>32, <1>33, <1>34, <1>35, <1>36, <1>37
     DEF Next, Environment, RequestStarts, RequestStep, JobStep, CommonStep

-----------------------------------------------------------------------------
\* Retries, and rows that stay closed

\* With one loop of the stuck-row job, every step keeps its copies fresh.
LEMMA RetriesNext ==
  ASSUME \A k, l \in Stuckers : k = l
  PROVE  TypeOK /\ Targets /\ Roles /\ FreshRetries /\ [Next]_vars => FreshRetries'
<1> SUFFICES ASSUME TypeOK, Targets, Roles, FreshRetries, [Next]_vars
             PROVE  FreshRetries'
  OBVIOUS
<1> USE StoreAssumption, LifecycleAssumption
    DEF FreshRetries, RetryLimit, Targets, Roles, TypeOK, StoreTypeOK, Doc,
        TodoItem, Proc, Jobs, Begin, Goto, Done, Finally, Idle, Exists, Pending
<1>1. CASE UNCHANGED vars
  BY <1>1
<1>2. ASSUME NEW s \in Session, SessionSettles(s) PROVE FreshRetries'
  BY <1>2 DEF SessionSettles
<1>3. ASSUME NEW s \in Session, WebhookNotPaid(s) PROVE FreshRetries'
  <2>1. \A u \in Tx : docs'[u].retries = docs[u].retries
    BY <1>3
        DEF WebhookNotPaid, MarkCanceledIfPending, MarkExpiredIfPending,
            MarkTerminalIfPending, MarkFailed
  <2> QED BY <1>3, <2>1 DEF WebhookNotPaid
<1>4. ASSUME NEW t \in Tx, DeadlinePasses(t) PROVE FreshRetries'
  BY <1>4 DEF DeadlinePasses
<1>5. ASSUME NEW t \in Tx, CreateCheckout(t) PROVE FreshRetries'
  <2>1. \A u \in Tx : docs'[u].retries = docs[u].retries
    BY <1>5 DEF CreateCheckout, CreateTransaction
  <2> QED BY <1>5, <2>1 DEF CreateCheckout
<1>6. ASSUME NEW r \in Requests, NEW t \in Tx, CreateIntent(r, t)
      PROVE  FreshRetries'
  BY <1>6 DEF CreateIntent, CreateTransaction
<1>7. ASSUME NEW r \in Requests, NEW t \in Tx, SelectProvider(r, t)
      PROVE  FreshRetries'
  BY <1>7 DEF SelectProvider
<1>8. ASSUME NEW r \in Requests, NEW t \in Tx, Cancel(r, t) PROVE FreshRetries'
  BY <1>8 DEF Cancel
<1>9. ASSUME NEW r \in Requests, NEW t \in Tx, Unselect(r, t)
      PROVE  FreshRetries'
  BY <1>9 DEF Unselect
<1>10. ASSUME NEW r \in Requests, NEW t \in Tx, Sync(r, t) PROVE FreshRetries'
  BY <1>10 DEF Sync
<1>11. ASSUME NEW r \in Requests, NEW s \in Session, WebhookSuccess(r, s)
      PROVE  FreshRetries'
  BY <1>11 DEF WebhookSuccess, AtomicClaimFulfilling
<1>12. ASSUME NEW r \in Requests, CreateSession(r) PROVE FreshRetries'
  BY <1>12 DEF CreateSession
<1>13. ASSUME NEW r \in Requests, DeleteRow(r) PROVE FreshRetries'
  BY <1>13 DEF DeleteRow, DeleteTransaction
<1>14. ASSUME NEW r \in Requests, OpenSelected(r) PROVE FreshRetries'
  BY <1>14 DEF OpenSelected, Returns
<1>15. ASSUME NEW r \in Requests, Attach(r) PROVE FreshRetries'
  BY <1>15 DEF Attach, AttachProviderTransaction
<1>16. ASSUME NEW r \in Requests, CancelAtProvider(r) PROVE FreshRetries'
  BY <1>16 DEF CancelAtProvider
<1>17. ASSUME NEW r \in Requests, UnselectAtProvider(r) PROVE FreshRetries'
  BY <1>17 DEF UnselectAtProvider
<1>18. ASSUME NEW r \in Requests, Clear(r) PROVE FreshRetries'
  <2>1. \A u \in Tx : docs'[u].retries = docs[u].retries
    BY <1>18 DEF Clear, ClearProviderTransactionIfPending
  <2> QED BY <1>18, <2>1 DEF Clear
<1>19. ASSUME NEW r \in Requests, SyncQuery(r) PROVE FreshRetries'
  BY <1>19 DEF SyncQuery
<1>20. ASSUME NEW r \in Requests, UpdateId(r) PROVE FreshRetries'
  BY <1>20 DEF UpdateId, UpdateProviderTransactionID
<1>21. ASSUME NEW j \in Jobs, ListStuck(j) PROVE FreshRetries'
  BY <1>21 DEF ListStuck, Lists, Items, FindStuckFulfilling
<1>22. ASSUME NEW j \in Jobs, ListExpired(j) PROVE FreshRetries'
  BY <1>22 DEF ListExpired, Lists, Items
<1>23. ASSUME NEW j \in Jobs, ListPending(j) PROVE FreshRetries'
  BY <1>23 DEF ListPending, Lists, Items
<1>24. ASSUME NEW j \in Jobs, Take(j) PROVE FreshRetries'
  BY <1>24 DEF Take
<1>25. ASSUME NEW j \in Jobs, Expire(j) PROVE FreshRetries'
  BY <1>25 DEF Expire
<1>26. ASSUME NEW j \in Jobs, CancelExpired(j) PROVE FreshRetries'
  BY <1>26 DEF CancelExpired
<1>27. ASSUME NEW j \in Jobs, Poll(j) PROVE FreshRetries'
  BY <1>27, SMTT(60) DEF Poll
<1>28. ASSUME NEW p \in Proc, Claim(p) PROVE FreshRetries'
  <2>1. \A u \in Tx : docs'[u].retries = docs[u].retries
    BY <1>28 DEF Claim, AtomicClaimFulfilling
  <2> QED BY <1>28, <2>1 DEF Claim
<1>29. ASSUME NEW p \in Proc, FulfillUserItem(p) PROVE FreshRetries'
  BY <1>29 DEF FulfillUserItem
<1>30. ASSUME NEW p \in Proc, FulfillFails(p) PROVE FreshRetries'
  <2>1. CASE p \in Stuckers /\ pc[p] = "recover"
    BY <1>30, <2>1 DEF FulfillFails
  <2>2. CASE p \in Stuckers /\ pc[p] = "fulfill"
    BY <1>30, <2>2 DEF FulfillFails
  <2>3. CASE p \notin Stuckers
    BY <1>30, <2>3 DEF FulfillFails
  <2> QED BY <1>30, <2>1, <2>2, <2>3 DEF FulfillFails
<1>31. ASSUME NEW p \in Proc, Commit(p) PROVE FreshRetries'
  BY <1>31 DEF Commit, CommitFulfilled
<1>32. ASSUME NEW p \in Proc, Reset(p) PROVE FreshRetries'
  BY <1>32 DEF Reset, ResetToPending
<1>33. ASSUME NEW p \in Proc, Retry(p) PROVE FreshRetries'
  BY <1>33, SMTT(60) DEF Retry, IncrementRetries
<1>34. ASSUME NEW p \in Proc, Fail(p) PROVE FreshRetries'
  BY <1>34, SMTT(60) DEF Fail, MarkFailed
<1>35. ASSUME NEW p \in Proc, MarkCanceled(p) PROVE FreshRetries'
  BY <1>35 DEF MarkCanceled, MarkCanceledIfPending, MarkTerminalIfPending
<1>36. ASSUME NEW p \in Proc, MarkExpired(p) PROVE FreshRetries'
  BY <1>36 DEF MarkExpired, MarkExpiredIfPending, MarkTerminalIfPending
<1>37. ASSUME NEW p \in Proc, Abort(p) PROVE FreshRetries'
  BY <1>37 DEF Abort
<1> QED
  BY <1>1, <1>2, <1>3, <1>4, <1>5, <1>6, <1>7, <1>8, <1>9, <1>10,
     <1>11, <1>12, <1>13, <1>14, <1>15, <1>16, <1>17, <1>18, <1>19, <1>20,
     <1>21, <1>22, <1>23, <1>24, <1>25, <1>26, <1>27, <1>28, <1>29, <1>30,
     <1>31, <1>32, <1>33, <1>34, <1>35, <1>36, <1>37
     DEF Next, Environment, RequestStarts, RequestStep, JobStep, CommonStep

\* No step takes a canceled or expired row back into the game.
LEMMA ClosedNext ==
  TypeOK /\ Targets /\ Roles /\ NoHolder /\ [Next]_vars => ClosedStep
<1> SUFFICES ASSUME TypeOK, Targets, Roles, NoHolder, [Next]_vars
             PROVE  ClosedStep
  OBVIOUS
<1> USE StoreAssumption, LifecycleAssumption
    DEF ClosedStep, TypeOK, StoreTypeOK, Doc, Finally, Exists, Pending
<1>1. CASE UNCHANGED vars
  BY <1>1
<1>2. ASSUME NEW s \in Session, SessionSettles(s) PROVE ClosedStep
  BY <1>2 DEF SessionSettles
<1>3. ASSUME NEW s \in Session, WebhookNotPaid(s) PROVE ClosedStep
  BY <1>3
      DEF WebhookNotPaid, MarkCanceledIfPending, MarkExpiredIfPending,
          MarkTerminalIfPending, MarkFailed
<1>4. ASSUME NEW t \in Tx, DeadlinePasses(t) PROVE ClosedStep
  BY <1>4 DEF DeadlinePasses
<1>5. ASSUME NEW t \in Tx, CreateCheckout(t) PROVE ClosedStep
  BY <1>5 DEF CreateCheckout, CreateTransaction
<1>6. ASSUME NEW r \in Requests, NEW t \in Tx, CreateIntent(r, t)
      PROVE  ClosedStep
  BY <1>6 DEF CreateIntent, CreateTransaction
<1>7. ASSUME NEW r \in Requests, NEW t \in Tx, SelectProvider(r, t)
      PROVE  ClosedStep
  BY <1>7 DEF SelectProvider
<1>8. ASSUME NEW r \in Requests, NEW t \in Tx, Cancel(r, t) PROVE ClosedStep
  BY <1>8 DEF Cancel
<1>9. ASSUME NEW r \in Requests, NEW t \in Tx, Unselect(r, t) PROVE ClosedStep
  BY <1>9 DEF Unselect
<1>10. ASSUME NEW r \in Requests, NEW t \in Tx, Sync(r, t) PROVE ClosedStep
  BY <1>10 DEF Sync
<1>11. ASSUME NEW r \in Requests, NEW s \in Session, WebhookSuccess(r, s)
      PROVE  ClosedStep
  BY <1>11 DEF WebhookSuccess, AtomicClaimFulfilling
<1>12. ASSUME NEW r \in Requests, CreateSession(r) PROVE ClosedStep
  BY <1>12 DEF CreateSession
<1>13. ASSUME NEW r \in Requests, DeleteRow(r) PROVE ClosedStep
  BY <1>13 DEF DeleteRow, DeleteTransaction
<1>14. ASSUME NEW r \in Requests, OpenSelected(r) PROVE ClosedStep
  BY <1>14 DEF OpenSelected, Returns
<1>15. ASSUME NEW r \in Requests, Attach(r) PROVE ClosedStep
  BY <1>15 DEF Attach, AttachProviderTransaction
<1>16. ASSUME NEW r \in Requests, CancelAtProvider(r) PROVE ClosedStep
  BY <1>16 DEF CancelAtProvider
<1>17. ASSUME NEW r \in Requests, UnselectAtProvider(r) PROVE ClosedStep
  BY <1>17 DEF UnselectAtProvider
<1>18. ASSUME NEW r \in Requests, Clear(r) PROVE ClosedStep
  BY <1>18 DEF Clear, ClearProviderTransactionIfPending
<1>19. ASSUME NEW r \in Requests, SyncQuery(r) PROVE ClosedStep
  BY <1>19 DEF SyncQuery
<1>20. ASSUME NEW r \in Requests, UpdateId(r) PROVE ClosedStep
  BY <1>20 DEF UpdateId, UpdateProviderTransactionID
<1>21. ASSUME NEW j \in Jobs, ListStuck(j) PROVE ClosedStep
  BY <1>21 DEF ListStuck, Lists, Items, FindStuckFulfilling
<1>22. ASSUME NEW j \in Jobs, ListExpired(j) PROVE ClosedStep
  BY <1>22 DEF ListExpired, Lists, Items
<1>23. ASSUME NEW j \in Jobs, ListPending(j) PROVE ClosedStep
  BY <1>23 DEF ListPending, Lists, Items
<1>24. ASSUME NEW j \in Jobs, Take(j) PROVE ClosedStep
  BY <1>24 DEF Take
<1>25. ASSUME NEW j \in Jobs, Expire(j) PROVE ClosedStep
  BY <1>25 DEF Expire
<1>26. ASSUME NEW j \in Jobs, CancelExpired(j) PROVE ClosedStep
  BY <1>26 DEF CancelExpired
<1>27. ASSUME NEW j \in Jobs, Poll(j) PROVE ClosedStep
  BY <1>27 DEF Poll
<1>28. ASSUME NEW p \in Proc, Claim(p) PROVE ClosedStep
  BY <1>28 DEF Claim, AtomicClaimFulfilling
<1>29. ASSUME NEW p \in Proc, FulfillUserItem(p) PROVE ClosedStep
  BY <1>29 DEF FulfillUserItem
<1>30. ASSUME NEW p \in Proc, FulfillFails(p) PROVE ClosedStep
  BY <1>30 DEF FulfillFails
<1>31. ASSUME NEW p \in Proc, Commit(p) PROVE ClosedStep
  BY <1>31 DEF Commit, CommitFulfilled
<1>32. ASSUME NEW p \in Proc, Reset(p) PROVE ClosedStep
  BY <1>32
      DEF Reset, ResetToPending, NoHolder, Holds, Unclaimable, Roles, Targets,
          Proc
<1>33. ASSUME NEW p \in Proc, Retry(p) PROVE ClosedStep
  BY <1>33 DEF Retry, IncrementRetries
<1>34. ASSUME NEW p \in Proc, Fail(p) PROVE ClosedStep
  BY <1>34 DEF Fail, MarkFailed
<1>35. ASSUME NEW p \in Proc, MarkCanceled(p) PROVE ClosedStep
  BY <1>35 DEF MarkCanceled, MarkCanceledIfPending, MarkTerminalIfPending
<1>36. ASSUME NEW p \in Proc, MarkExpired(p) PROVE ClosedStep
  BY <1>36 DEF MarkExpired, MarkExpiredIfPending, MarkTerminalIfPending
<1>37. ASSUME NEW p \in Proc, Abort(p) PROVE ClosedStep
  BY <1>37 DEF Abort
<1> QED
  BY <1>1, <1>2, <1>3, <1>4, <1>5, <1>6, <1>7, <1>8, <1>9, <1>10,
     <1>11, <1>12, <1>13, <1>14, <1>15, <1>16, <1>17, <1>18, <1>19, <1>20,
     <1>21, <1>22, <1>23, <1>24, <1>25, <1>26, <1>27, <1>28, <1>29, <1>30,
     <1>31, <1>32, <1>33, <1>34, <1>35, <1>36, <1>37
     DEF Next, Environment, RequestStarts, RequestStep, JobStep, CommonStep

-----------------------------------------------------------------------------
\* The theorems

\* The invariant holds when the service starts with an empty collection.
LEMMA InitIInv == Init => IInv
<1> SUFFICES ASSUME Init PROVE IInv
  OBVIOUS
<1> USE StoreAssumption, LifecycleAssumption, NoRowType
    DEF Init, StoreInit, ProviderInit, ProcInit, Proc, Jobs
<1>1. TypeOK
  BY DEF TypeOK, StoreTypeOK, SessionState, Steps
<1>2. Targets /\ Roles /\ SyncsAttached
  BY DEF Targets, Roles, SyncsAttached
<1>3. OneHolder /\ NoHolder
  BY DEF OneHolder, NoHolder, Holds
<1>4. OwnSessions
  BY DEF OwnSessions, RowSessions, ProcSessions, ListedSessions, OpenedFor, NoRow
<1>5. OnlyPaid /\ GrantBeforeCommit
  BY DEF OnlyPaid, NoUnpaidGrant, PaidSteps, GrantBeforeCommit,
         FulfilledIsGranted, NoRow
<1> QED
  BY <1>1, <1>2, <1>3, <1>4, <1>5 DEF IInv

\* The invariant is inductive.
LEMMA NextIInv == IInv /\ [Next]_vars => IInv'
  BY TypeNext, RolesNext, HolderNext, SyncsNext, GrantNext,
     RowSessionsNext, ProcSessionsNext, ListedSessionsNext, PaidNext
     DEF IInv, OwnSessions

\* IInv holds in every reachable state.
THEOREM InductiveInvariant == Spec => []IInv
  BY InitIInv, NextIInv, PTL DEF Spec

\* The variables keep their types, for every size of the system.
THEOREM TypeCorrect == Spec => []TypeOK
<1>1. IInv => TypeOK
  BY DEF IInv
<1> QED
  BY <1>1, InductiveInvariant, PTL

\* webhook.go, "prevents double-grants": two handlers never hold the claim of
\* one row, whatever crashes, fails or arrives twice.
THEOREM ClaimMutexHolds == Spec => []ClaimMutex
<1>1. IInv => ClaimMutex
  BY DEF IInv, ClaimMutex, OneHolder, NoHolder, Unclaimable, Pending
<1> QED
  BY <1>1, InductiveInvariant, PTL

\* Nothing is fulfilled or granted for a transaction of which no session was
\* paid, in any interleaving of the webhooks, the cancels and the jobs.
THEOREM NoUnpaidGrantHolds == Spec => []NoUnpaidGrant
<1>1. IInv => NoUnpaidGrant
  BY DEF IInv, OnlyPaid
<1> QED
  BY <1>1, InductiveInvariant, PTL

\* A row that says FULFILLED was granted by AGS.
THEOREM FulfilledIsGrantedHolds == Spec => []FulfilledIsGranted
<1>1. IInv => FulfilledIsGranted
  BY DEF IInv, GrantBeforeCommit
<1> QED
  BY <1>1, InductiveInvariant, PTL

\* A canceled or expired row is never pending, claimed or fulfilled again,
\* although ResetToPending would reopen it.
THEOREM ClosedStaysClosedHolds == Spec => ClosedStaysClosed
<1>1. IInv /\ [Next]_vars => [ClosedStep]_docs
  BY ClosedNext DEF IInv
<1> QED
  BY <1>1, InductiveInvariant, PTL DEF Spec, ClosedStaysClosed

\* With a single instance of the service, the copy its stuck-row job works on
\* has the retries of the row, although other rows were processed in between.
THEOREM FreshRetriesHold ==
  ASSUME \A k, l \in Stuckers : k = l
  PROVE  Spec => []FreshRetries
<1>1. Init => FreshRetries
  BY LifecycleAssumption
     DEF Init, StoreInit, ProcInit, FreshRetries, RetryLimit, NoRow, Proc, Jobs
<1>2. IInv /\ FreshRetries /\ [Next]_vars => FreshRetries'
  BY RetriesNext DEF IInv
<1> QED
  BY <1>1, <1>2, InductiveInvariant, PTL DEF Spec

\* Then MAX_RETRIES bounds the retries of every row although the job counts on
\* the copies it has listed.
THEOREM RetryLimitHolds ==
  ASSUME \A k, l \in Stuckers : k = l
  PROVE  Spec => []RetryLimit
<1>1. FreshRetries => RetryLimit
  BY DEF FreshRetries
<1> QED
  BY <1>1, FreshRetriesHold, PTL

-----------------------------------------------------------------------------
\* The contract

\* What the contract sees of the rows, and of the money.
SameRows == \A u \in Tx : /\ docs'[u].status = docs[u].status
                          /\ docs'[u].refund = docs[u].refund
SamePaid == \A u \in Tx : Paid(u)' <=> Paid(u)

Implements == Contract!Next \/ UNCHANGED Contract!vars

\* The changes of a status that the contract allows.
Allowed(t, new) ==
    \/ docs[t].status = "ABSENT" /\ new = "PENDING"
    \/ docs[t].status = "PENDING" /\ Paid(t) /\ new = "FULFILLING"
    \/ docs[t].status = "FULFILLING" /\ t \in granted /\ new = "FULFILLED"
    \/ docs[t].status \in {"FULFILLING", "FULFILLED", "FAILED"} /\ Paid(t) /\ new = "PENDING"
    \/ docs[t].status = "PENDING" /\ new \in {"CANCELED", "EXPIRED"}
    \/ Exists(t) /\ new \in {"FAILED", "GONE"}

-----------------------------------------------------------------------------
\* Steps by kind

\* A step the contract does not see is a stutter.
LEMMA Unseen ==
  ASSUME SameRows, SamePaid, UNCHANGED granted
  PROVE  Implements
<1>1. [u \in Tx |-> docs[u].status]' = [u \in Tx |-> docs[u].status]
  BY DEF SameRows
<1>2. [u \in Tx |-> docs[u].refund]' = [u \in Tx |-> docs[u].refund]
  BY DEF SameRows
<1>3. {u \in Tx : Paid(u)}' = {u \in Tx : Paid(u)}
  BY DEF SamePaid
<1> QED
  BY <1>1, <1>2, <1>3 DEF Implements, Contract!vars

\* An allowed change of one row is a step of the contract.
LEMMA RowStep ==
  ASSUME NEW t \in Tx, NEW new, Allowed(t, new),
         \A u \in Tx : docs'[u].status = IF u = t THEN new ELSE docs[u].status,
         \A u \in Tx : docs'[u].refund = docs[u].refund,
         SamePaid, UNCHANGED granted
  PROVE  Implements
<1> DEFINE status == [u \in Tx |-> docs[u].status]
<1>1. status' = [status EXCEPT ![t] = new]
  OBVIOUS
<1>2. [u \in Tx |-> docs[u].refund]' = [u \in Tx |-> docs[u].refund]
  OBVIOUS
<1>3. {u \in Tx : Paid(u)}' = {u \in Tx : Paid(u)}
  BY DEF SamePaid
<1>4. Contract!Becomes(t, new)
  BY <1>1, <1>2, <1>3 DEF Contract!Becomes, Contract!money, Contract!back
<1>5. status[t] = docs[t].status
  OBVIOUS
<1> HIDE DEF status
<1>6. \/ Contract!Insert(t) \/ Contract!Claim(t) \/ Contract!Deliver(t)
      \/ Contract!Reopen(t) \/ Contract!Close(t) \/ Contract!Fail(t)
      \/ Contract!Delete(t)
  BY <1>4, <1>5
     DEF Allowed, Exists, Contract!Insert, Contract!Claim, Contract!Deliver,
         Contract!Reopen, Contract!Close, Contract!Fail, Contract!Delete,
         Contract!Existing, status
<1> QED
  BY <1>6 DEF Implements, Contract!Next

\* The provider is paid for one transaction.
LEMMA PayStep ==
  ASSUME NEW t \in Tx, Paid(t)',
         \A u \in Tx \ {t} : Paid(u)' <=> Paid(u),
         SameRows, UNCHANGED granted
  PROVE  Implements
<1>1. [u \in Tx |-> docs[u].status]' = [u \in Tx |-> docs[u].status]
  BY DEF SameRows
<1>2. [u \in Tx |-> docs[u].refund]' = [u \in Tx |-> docs[u].refund]
  BY DEF SameRows
<1>3. {u \in Tx : Paid(u)}' = {u \in Tx : Paid(u)} \cup {t}
  OBVIOUS
<1>4. Contract!Pay(t)
  BY <1>1, <1>2, <1>3 DEF Contract!Pay, Contract!back
<1> QED
  BY <1>4 DEF Implements, Contract!Next

\* AGS grants the item of one paid transaction, or does not.
LEMMA GrantStep ==
  ASSUME NEW t \in Tx, Paid(t), SameRows, SamePaid,
         granted' \in {granted, granted \cup {t}}
  PROVE  Implements
<1>1. CASE granted' = granted
  BY <1>1, Unseen
<1>2. CASE granted' = granted \cup {t}
  <2>1. [u \in Tx |-> docs[u].status]' = [u \in Tx |-> docs[u].status]
    BY DEF SameRows
  <2>2. [u \in Tx |-> docs[u].refund]' = [u \in Tx |-> docs[u].refund]
    BY DEF SameRows
  <2>3. {u \in Tx : Paid(u)}' = {u \in Tx : Paid(u)}
    BY DEF SamePaid
  <2>4. Contract!Grant(t)
    BY <1>2, <2>1, <2>2, <2>3 DEF Contract!Grant, Contract!back
  <2> QED
    BY <2>4 DEF Implements, Contract!Next
<1> QED
  BY <1>1, <1>2

\* Nothing is paid by opening a session, nor by canceling one.
LEMMA ProviderSamePaid ==
  ASSUME TypeOK
  PROVE  /\ UNCHANGED provider => SamePaid
         /\ \A s \in Session, t \in Tx : Opens(s, t) => SamePaid
         /\ \A s, a : CancelAnswer(s, a) => SamePaid
<1>1. UNCHANGED provider => SamePaid
  BY DEF SamePaid, Paid
<1>2. ASSUME NEW s \in Session, NEW t \in Tx, Opens(s, t) PROVE SamePaid
  BY <1>2 DEF Opens, SamePaid, Paid, TypeOK
<1>3. ASSUME NEW s, NEW a, CancelAnswer(s, a) PROVE SamePaid
  BY <1>3 DEF CancelAnswer, SamePaid, Paid, TypeOK
<1> QED
  BY <1>1, <1>2, <1>3

-----------------------------------------------------------------------------
\* Updates of a row that the contract allows whatever the row says

\* A new row, a deleted row, a failed row, a closed row.
LEMMA UpdateStep ==
  ASSUME TypeOK, NEW t \in Tx, SamePaid, UNCHANGED granted,
         \/ CreateTransaction(t) \/ DeleteTransaction(t) \/ MarkFailed(t)
         \/ MarkCanceledIfPending(t) \/ MarkExpiredIfPending(t)
         \/ UNCHANGED docs
  PROVE  Implements
<1> USE DEF TypeOK, StoreTypeOK, Doc
<1>1. CASE UNCHANGED docs
  BY <1>1, Unseen DEF SameRows
<1>2. CASE CreateTransaction(t)
  <2>1. Allowed(t, "PENDING")
    BY <1>2 DEF CreateTransaction, Allowed
  <2> QED
    BY <1>2, <2>1, RowStep DEF CreateTransaction
<1>3. CASE DeleteTransaction(t) /\ Exists(t)
  <2>1. Allowed(t, "GONE")
    BY <1>3 DEF Allowed
  <2> QED
    BY <1>3, <2>1, RowStep DEF DeleteTransaction
<1>4. CASE MarkFailed(t) /\ Exists(t)
  <2>1. Allowed(t, "FAILED")
    BY <1>4 DEF Allowed
  <2> QED
    BY <1>4, <2>1, RowStep DEF MarkFailed
<1>5. CASE MarkCanceledIfPending(t) /\ Pending(t)
  <2>1. Allowed(t, "CANCELED")
    BY <1>5 DEF Allowed, Pending
  <2> QED
    BY <1>5, <2>1, RowStep DEF MarkCanceledIfPending, MarkTerminalIfPending
<1>6. CASE MarkExpiredIfPending(t) /\ Pending(t)
  <2>1. Allowed(t, "EXPIRED")
    BY <1>6 DEF Allowed, Pending
  <2> QED
    BY <1>6, <2>1, RowStep DEF MarkExpiredIfPending, MarkTerminalIfPending
<1> QED
  BY <1>1, <1>2, <1>3, <1>4, <1>5, <1>6
     DEF DeleteTransaction, MarkFailed, MarkCanceledIfPending,
         MarkExpiredIfPending, MarkTerminalIfPending

\* A claim of a paid row.
LEMMA ClaimStepImplements ==
  ASSUME TypeOK, NEW t \in Tx, NEW s, Paid(t),
         AtomicClaimFulfilling(t, s), SamePaid, UNCHANGED granted
  PROVE  Implements
<1> USE DEF TypeOK, StoreTypeOK, Doc
<1>1. Allowed(t, "FULFILLING")
  BY DEF AtomicClaimFulfilling, Pending, Allowed
<1> QED
  BY <1>1, RowStep DEF AtomicClaimFulfilling

\* A commit of a granted row; another row is left alone.
LEMMA CommitStepImplements ==
  ASSUME TypeOK, NEW t \in Tx, t \in granted,
         CommitFulfilled(t), SamePaid, UNCHANGED granted
  PROVE  Implements
<1> USE DEF TypeOK, StoreTypeOK, Doc
<1>1. CASE docs[t].status = "FULFILLING"
  <2>1. Allowed(t, "FULFILLED")
    BY <1>1 DEF Allowed
  <2> QED
    BY <1>1, <2>1, RowStep DEF CommitFulfilled
<1>2. CASE docs[t].status # "FULFILLING"
  BY <1>2, Unseen DEF CommitFulfilled, SameRows
<1> QED
  BY <1>1, <1>2

\* A reset by a handler that holds the row: it is paid and not closed.
LEMMA ResetStepImplements ==
  ASSUME IInv, NEW p \in Proc, Reset(p)
  PROVE  Implements
<1> USE DEF IInv, TypeOK, StoreTypeOK, Doc
<1>1. PICK t \in Tx : t = target[p]
  BY DEF Reset, Finally, Targets
<1>2. Holds(p, t)
  BY <1>1, LifecycleAssumption DEF Reset, Finally, Holds, Roles, Proc, Jobs
<1>3. Paid(t)
  BY <1>1 DEF Reset, Finally, OnlyPaid, PaidSteps
<1>4. SamePaid /\ UNCHANGED granted
  BY ProviderSamePaid DEF Reset, Finally
<1>5. CASE Exists(t)
  <2>1. docs[t].status \in {"FULFILLING", "FULFILLED", "FAILED"}
    BY <1>2, <1>5 DEF NoHolder, Unclaimable, Exists, TxStatus
  <2>2. Allowed(t, "PENDING")
    BY <1>3, <2>1 DEF Allowed
  <2> QED
    BY <1>1, <1>4, <1>5, <2>2, RowStep DEF Reset, Finally, ResetToPending
<1>6. CASE ~Exists(t)
  BY <1>1, <1>4, <1>6, Unseen DEF Reset, Finally, ResetToPending, SameRows
<1> QED
  BY <1>5, <1>6

-----------------------------------------------------------------------------
\* Every action

LEMMA ContractNext == IInv /\ [Next]_vars => Implements
<1> SUFFICES ASSUME IInv, [Next]_vars PROVE Implements
  OBVIOUS
<1>t. TypeOK
  BY DEF IInv
<1>u. \A p \in Proc : pc[p] # "idle" => target[p] \in Tx
  BY DEF IInv, Targets
<1>w. \A s \in Session : sstate[s] # "UNUSED" => stx[s] \in Tx
  BY DEF IInv, Targets
<1> USE <1>t DEF SameRows, Finally, Proc, Jobs
<1>1. CASE UNCHANGED vars
  BY <1>1, Unseen, ProviderSamePaid
<1>2. ASSUME NEW s \in Session, SessionSettles(s) PROVE Implements
  <2>1. PICK t \in Tx : t = stx[s]
    BY <1>2, <1>w DEF SessionSettles
  <2>2. \A u \in Tx \ {t} : Paid(u)' <=> Paid(u)
    BY <1>2, <2>1 DEF SessionSettles, Paid, TypeOK
  <2>3. Paid(t) => Paid(t)'
    BY <1>2 DEF SessionSettles, Paid, TypeOK
  <2>4. CASE Paid(t)'
    BY <1>2, <2>2, <2>4, PayStep DEF SessionSettles
  <2>5. CASE ~Paid(t)'
    <3>1. SamePaid
      BY <2>2, <2>3, <2>5 DEF SamePaid
    <3> QED
      BY <1>2, <3>1, Unseen DEF SessionSettles
  <2> QED
    BY <2>4, <2>5
<1>3. ASSUME NEW s \in Session, WebhookNotPaid(s) PROVE Implements
  BY <1>3, <1>w, UpdateStep, ProviderSamePaid DEF WebhookNotPaid
<1>4. ASSUME NEW t \in Tx, DeadlinePasses(t) PROVE Implements
  BY <1>4, Unseen, ProviderSamePaid DEF DeadlinePasses
<1>5. ASSUME NEW t \in Tx, CreateCheckout(t) PROVE Implements
  BY <1>5, UpdateStep, ProviderSamePaid DEF CreateCheckout
<1>6. ASSUME NEW r \in Requests, NEW t \in Tx, CreateIntent(r, t)
      PROVE  Implements
  BY <1>6, UpdateStep, ProviderSamePaid DEF CreateIntent
<1>7. ASSUME NEW r \in Requests, NEW t \in Tx, SelectProvider(r, t) PROVE Implements
  BY <1>7, Unseen, ProviderSamePaid DEF SelectProvider
<1>8. ASSUME NEW r \in Requests, NEW t \in Tx, Cancel(r, t) PROVE Implements
  BY <1>8, Unseen, ProviderSamePaid DEF Cancel
<1>9. ASSUME NEW r \in Requests, NEW t \in Tx, Unselect(r, t) PROVE Implements
  BY <1>9, Unseen, ProviderSamePaid DEF Unselect
<1>10. ASSUME NEW r \in Requests, NEW t \in Tx, Sync(r, t) PROVE Implements
  BY <1>10, Unseen, ProviderSamePaid DEF Sync
<1>11. ASSUME NEW r \in Requests, NEW s \in Session, WebhookSuccess(r, s)
      PROVE  Implements
  <2>1. stx[s] \in Tx /\ Paid(stx[s])
    BY <1>11, <1>w DEF WebhookSuccess, Paid
  <2>2. SamePaid /\ UNCHANGED granted
    BY <1>11, ProviderSamePaid DEF WebhookSuccess
  <2>3. AtomicClaimFulfilling(stx[s], s)
    BY <1>11 DEF WebhookSuccess
  <2> QED
    BY <2>1, <2>2, <2>3, ClaimStepImplements
<1>12. ASSUME NEW r \in Requests, CreateSession(r) PROVE Implements
  <2>1. target[r] \in Tx
    BY <1>12, <1>u DEF CreateSession
  <2>2. SamePaid
    BY <1>12, <2>1, ProviderSamePaid DEF CreateSession
  <2> QED
    BY <1>12, <2>2, Unseen DEF CreateSession
<1>13. ASSUME NEW r \in Requests, DeleteRow(r) PROVE Implements
  BY <1>13, <1>u, UpdateStep, ProviderSamePaid DEF DeleteRow
<1>14. ASSUME NEW r \in Requests, OpenSelected(r) PROVE Implements
  <2>1. target[r] \in Tx
    BY <1>14, <1>u DEF OpenSelected, Returns
  <2>2. SamePaid
    BY <1>14, <2>1, ProviderSamePaid DEF OpenSelected, Returns
  <2> QED
    BY <1>14, <2>2, Unseen DEF OpenSelected, Returns
<1>15. ASSUME NEW r \in Requests, Attach(r) PROVE Implements
  BY <1>15, <1>u, Unseen, ProviderSamePaid
     DEF Attach, AttachProviderTransaction, TypeOK, StoreTypeOK, Doc
<1>16. ASSUME NEW r \in Requests, CancelAtProvider(r) PROVE Implements
  <2>1. SamePaid
    BY <1>16, ProviderSamePaid DEF CancelAtProvider
  <2> QED
    BY <1>16, <2>1, Unseen DEF CancelAtProvider
<1>17. ASSUME NEW r \in Requests, UnselectAtProvider(r) PROVE Implements
  <2>1. SamePaid
    BY <1>17, ProviderSamePaid DEF UnselectAtProvider
  <2> QED
    BY <1>17, <2>1, Unseen DEF UnselectAtProvider
<1>18. ASSUME NEW r \in Requests, Clear(r) PROVE Implements
  BY <1>18, <1>u, Unseen, ProviderSamePaid
     DEF Clear, ClearProviderTransactionIfPending, TypeOK, StoreTypeOK, Doc
<1>19. ASSUME NEW r \in Requests, SyncQuery(r) PROVE Implements
  BY <1>19, Unseen, ProviderSamePaid DEF SyncQuery
<1>20. ASSUME NEW r \in Requests, UpdateId(r) PROVE Implements
  BY <1>20, <1>u, Unseen, ProviderSamePaid
     DEF UpdateId, UpdateProviderTransactionID, TypeOK, StoreTypeOK, Doc
<1>21. ASSUME NEW j \in Jobs, ListStuck(j) PROVE Implements
  BY <1>21, Unseen, ProviderSamePaid DEF ListStuck, Lists
<1>22. ASSUME NEW j \in Jobs, ListExpired(j) PROVE Implements
  BY <1>22, Unseen, ProviderSamePaid DEF ListExpired, Lists
<1>23. ASSUME NEW j \in Jobs, ListPending(j) PROVE Implements
  BY <1>23, Unseen, ProviderSamePaid DEF ListPending, Lists
<1>24. ASSUME NEW j \in Jobs, Take(j) PROVE Implements
  BY <1>24, Unseen, ProviderSamePaid DEF Take
<1>25. ASSUME NEW j \in Jobs, Expire(j) PROVE Implements
  BY <1>25, Unseen, ProviderSamePaid DEF Expire
<1>26. ASSUME NEW j \in Jobs, CancelExpired(j) PROVE Implements
  <2>1. SamePaid
    BY <1>26, ProviderSamePaid DEF CancelExpired
  <2> QED
    BY <1>26, <2>1, Unseen DEF CancelExpired
<1>27. ASSUME NEW j \in Jobs, Poll(j) PROVE Implements
  BY <1>27, Unseen, ProviderSamePaid DEF Poll
<1>28. ASSUME NEW p \in Proc, Claim(p) PROVE Implements
  <2>1. target[p] \in Tx /\ Paid(target[p])
    BY <1>28, <1>u DEF Claim, IInv, OnlyPaid, PaidSteps
  <2>2. SamePaid /\ UNCHANGED granted
    BY <1>28, ProviderSamePaid DEF Claim
  <2>3. CASE AtomicClaimFulfilling(target[p], snap[p].providerTxID)
    BY <2>1, <2>2, <2>3, ClaimStepImplements
  <2>4. CASE UNCHANGED docs
    BY <2>2, <2>4, Unseen
  <2> QED
    BY <1>28, <2>3, <2>4 DEF Claim
<1>29. ASSUME NEW p \in Proc, FulfillUserItem(p) PROVE Implements
  <2>1. target[p] \in Tx /\ Paid(target[p])
    BY <1>29, <1>u DEF FulfillUserItem, IInv, OnlyPaid, PaidSteps
  <2> QED
    BY <1>29, <2>1, GrantStep, ProviderSamePaid DEF FulfillUserItem
<1>30. ASSUME NEW p \in Proc, FulfillFails(p) PROVE Implements
  <2>1. target[p] \in Tx /\ Paid(target[p])
    BY <1>30, <1>u DEF FulfillFails, IInv, OnlyPaid, PaidSteps
  <2> QED
    BY <1>30, <2>1, GrantStep, ProviderSamePaid DEF FulfillFails
<1>31. ASSUME NEW p \in Proc, Commit(p) PROVE Implements
  <2>1. target[p] \in Tx /\ target[p] \in granted
    BY <1>31, <1>u DEF Commit, IInv, GrantBeforeCommit
  <2> QED
    BY <1>31, <2>1, CommitStepImplements, ProviderSamePaid DEF Commit
<1>32. ASSUME NEW p \in Proc, Reset(p) PROVE Implements
  BY <1>32, ResetStepImplements
<1>33. ASSUME NEW p \in Proc, Retry(p) PROVE Implements
  BY <1>33, <1>u, Unseen, ProviderSamePaid
     DEF Retry, IncrementRetries, TypeOK, StoreTypeOK, Doc
<1>34. ASSUME NEW p \in Proc, Fail(p) PROVE Implements
  BY <1>34, <1>u, UpdateStep, ProviderSamePaid DEF Fail
<1>35. ASSUME NEW p \in Proc, MarkCanceled(p) PROVE Implements
  BY <1>35, <1>u, UpdateStep, ProviderSamePaid DEF MarkCanceled
<1>36. ASSUME NEW p \in Proc, MarkExpired(p) PROVE Implements
  BY <1>36, <1>u, UpdateStep, ProviderSamePaid DEF MarkExpired
<1>37. ASSUME NEW p \in Proc, Abort(p) PROVE Implements
  BY <1>37, Unseen, ProviderSamePaid DEF Abort
<1> QED
  BY <1>1, <1>2, <1>3, <1>4, <1>5, <1>6, <1>7, <1>8, <1>9, <1>10,
     <1>11, <1>12, <1>13, <1>14, <1>15, <1>16, <1>17, <1>18, <1>19, <1>20,
     <1>21, <1>22, <1>23, <1>24, <1>25, <1>26, <1>27, <1>28, <1>29, <1>30,
     <1>31, <1>32, <1>33, <1>34, <1>35, <1>36, <1>37
     DEF Next, Environment, RequestStarts, RequestStep, JobStep, CommonStep

\* An empty collection is one of the contract's.
LEMMA ContractInit == Init => Contract!Init
<1> SUFFICES ASSUME Init PROVE Contract!Init
  OBVIOUS
<1>1. \A u \in Tx : ~Paid(u)
  BY DEF Init, ProviderInit, Paid
<1>2. {u \in Tx : Paid(u)} = {}
  BY <1>1
<1>3. granted = {}
  BY DEF Init, ProcInit
<1>4. \A u \in Tx : docs[u].status = "ABSENT" /\ docs[u].refund = "NONE"
  BY DEF Init, StoreInit, NoRow
<1> QED
  BY <1>2, <1>3, <1>4 DEF Contract!Init

\* Whatever the handlers, the jobs, the crashes and the late answers do, every
\* row changes only as the contract allows.
THEOREM KeepsContractHolds == Spec => KeepsContract
<1>1. IInv /\ [Next]_vars => [Contract!Next]_(Contract!vars)
  BY ContractNext DEF Implements
<1> QED
  BY <1>1, ContractInit, InductiveInvariant, PTL
     DEF Spec, KeepsContract, Contract!Spec

=============================================================================
