------------------------------ MODULE Checkout ------------------------------
(***************************************************************************)
(* The hosted checkout of one player: orders posted to the checkout and to *)
(* the direct intent, the pages of the in-memory session store, and what   *)
(* the tabs open on those pages do - select a provider, cancel, cancel the *)
(* selected provider - interleaved at every store operation and every call *)
(* to a provider.  Pages are bound to a row and run out; a restart of the  *)
(* service loses all of them and every request, and keeps the rows.        *)
(*                                                                         *)
(* External, from how the code uses it: the provider's payment sessions.   *)
(* What the webhooks, the scheduler and the other calls do to the rows is  *)
(* in PaymentLifecycle; here it is what PaymentContract lets them do.      *)
(***************************************************************************)
EXTENDS TxStore, FiniteSets

CONSTANTS
    Requests,  \* goroutines serving HTTP and gRPC requests
    Order,     \* values of client_order_id
    Page,      \* ids of checkout sessions (fresh UUIDs)
    MaxPending, \* MaxConcurrentIntentPerUser of the configuration
    MaxEvents  \* bound on errors, restarts, pages that run out, and rows that
               \* are claimed, closed or given an old id from elsewhere

ASSUME CheckoutAssumption ==
    /\ MaxPending \in Nat
    /\ MaxEvents \in Nat
    /\ None \notin Order
    /\ IsFiniteSet(Tx)
    /\ IsFiniteSet(Requests) /\ Requests # {}

VARIABLES
    order,   \* client_order_id of each row
    claimed, \* rows that were claimed for fulfillment at least once
    pages,   \* the session store
    owner,   \* provider side: the row a payment session was opened for
    url,     \* the session the payment_url of each row leads to
    sent,    \* payment sessions whose URL the hosted checkout gave to a player
    givenUp, \* payment sessions that were canceled to select another provider
    overwritten, \* history: payment sessions whose id a sync replaced in the row
             \* by that of a session it had read before
    events,  \* errors, restarts and outside events so far
    pc, want, direct, target, session \* where each request is, and its data

rows    == <<docs, order, claimed>>
request == <<pc, want, direct, target, session>>
handed  == <<url, sent, givenUp, overwritten>>
links   == <<owner, handed>>
vars == <<docs, order, claimed, pages, owner, url, sent, givenUp, overwritten,
          events, pc, want, direct, target, session>>

Steps == {"idle", "insert", "find", "newPage", "openIntent", "deleteRow",
          "openSelected", "attach", "compare", "markFailed",
          "cancelProvider", "markCanceled", "markExpired", "unselect", "clear"}

PageType == [state : {"VALID", "EXPIRED", "GONE"}, tx : Tx, order : Order]
NoPage == [state |-> "UNUSED"]

TypeOK ==
    /\ StoreTypeOK
    /\ order \in [Tx -> Order \cup {None}]
    /\ claimed \subseteq Tx
    /\ pages \in [Page -> PageType \cup {NoPage}]
    /\ owner \in [Session -> Tx \cup {None}]
    /\ url \in [Tx -> Session \cup {None}]
    /\ sent \subseteq Session
    /\ givenUp \subseteq Session
    /\ overwritten \subseteq Session \cup {None}
    /\ events \in 0..MaxEvents
    /\ pc \in [Requests -> Steps]
    /\ want \in [Requests -> Order \cup {None}]
    /\ direct \in [Requests -> BOOLEAN]
    /\ target \in [Requests -> Tx \cup {None}]
    /\ session \in [Requests -> Session \cup {None}]

Event == events < MaxEvents /\ events' = events + 1

Idle(r) == pc[r] = "idle"

AllIdle ==
    /\ pc' = [r \in Requests |-> "idle"]
    /\ want' = [r \in Requests |-> None]
    /\ direct' = [r \in Requests |-> FALSE]
    /\ target' = [r \in Requests |-> None]
    /\ session' = [r \in Requests |-> None]

Init ==
    /\ StoreInit
    /\ order = [t \in Tx |-> None]
    /\ claimed = {}
    /\ pages = [p \in Page |-> NoPage]
    /\ owner = [s \in Session |-> None]
    /\ url = [t \in Tx |-> None]
    /\ sent = {}
    /\ givenUp = {}
    /\ overwritten = {}
    /\ events = 0
    /\ pc = [r \in Requests |-> "idle"]
    /\ want = [r \in Requests |-> None]
    /\ direct = [r \in Requests |-> FALSE]
    /\ target = [r \in Requests |-> None]
    /\ session = [r \in Requests |-> None]

Goto(r, step) ==
    /\ pc' = [pc EXCEPT ![r] = step]
    /\ UNCHANGED <<want, direct, target, session>>

\* Work on the row of t, of which s is read or returned.
On(r, t, s, step) ==
    /\ pc' = [pc EXCEPT ![r] = step]
    /\ target' = [target EXCEPT ![r] = t]
    /\ session' = [session EXCEPT ![r] = s]
    /\ UNCHANGED <<want, direct>>

Done(r) ==
    /\ pc' = [pc EXCEPT ![r] = "idle"]
    /\ want' = [want EXCEPT ![r] = None]
    /\ direct' = [direct EXCEPT ![r] = FALSE]
    /\ target' = [target EXCEPT ![r] = None]
    /\ session' = [session EXCEPT ![r] = None]

-----------------------------------------------------------------------------
\* Posting an order

\* Mutant: rows that have a provider do not count.
CountPendingByUser_Unselected ==
    Cardinality({t \in Tx : Pending(t) /\ docs[t].providerTxID = None})

CountPendingByUser == Cardinality({t \in Tx : Pending(t)})

\* The limit is checked before the order id is looked at; a request that is
\* refused changes nothing.
Post(r, o, d) ==
    /\ Idle(r)
    /\ CountPendingByUser < MaxPending
    /\ pc' = [pc EXCEPT ![r] = "insert"]
    /\ want' = [want EXCEPT ![r] = o]
    /\ direct' = [direct EXCEPT ![r] = d]
    /\ UNCHANGED <<rows, pages, links, target, session, events>>

RowsOf(o) == {t \in Tx : Exists(t) /\ order[t] = o}

\* Mutant: no unique index.
Insert_Twice(r) ==
    /\ pc[r] = "insert"
    /\ \E t \in Tx :
          /\ CreateTransaction(t)
          /\ order' = [order EXCEPT ![t] = want[r]]
          /\ On(r, t, None, IF direct[r] THEN "openIntent" ELSE "newPage")
    /\ UNCHANGED <<claimed, pages, links, events>>

Insert(r) ==
    /\ pc[r] = "insert"
    /\ \/ /\ RowsOf(want[r]) = {}
          /\ \E t \in Tx :
                /\ CreateTransaction(t)
                /\ order' = [order EXCEPT ![t] = want[r]]
                /\ On(r, t, None, IF direct[r] THEN "openIntent" ELSE "newPage")
       \/ /\ RowsOf(want[r]) # {}
          /\ Goto(r, "find")
          /\ UNCHANGED <<docs, order>>
    /\ UNCHANGED <<claimed, pages, links, events>>

\* Mutant: the row that is not found any more is not noticed.
Find_Nil(r) ==
    /\ pc[r] = "find"
    /\ \/ ~direct[r] /\ \E t \in RowsOf(want[r]) : On(r, t, None, "newPage")
       \/ ~direct[r] /\ RowsOf(want[r]) = {} /\ On(r, None, None, "newPage")
       \/ direct[r] /\ Done(r)
    /\ UNCHANGED <<rows, pages, links, events>>

\* A direct intent answers with the row it finds; the row may be gone again.
Find(r) ==
    /\ pc[r] = "find"
    /\ \/ ~direct[r] /\ \E t \in RowsOf(want[r]) : On(r, t, None, "newPage")
       \/ /\ direct[r] \/ RowsOf(want[r]) = {}
          /\ Done(r)
    /\ UNCHANGED <<rows, pages, links, events>>

NewPage(r) ==
    /\ pc[r] = "newPage"
    /\ \E p \in Page :
          /\ pages[p] = NoPage
          /\ pages' = [pages EXCEPT ![p] =
                         [state |-> "VALID", tx |-> target[r], order |-> want[r]]]
    /\ Done(r)
    /\ UNCHANGED <<rows, links, events>>

-----------------------------------------------------------------------------
\* The provider

\* It opens a session for t, or answers with one it opened for t before.
Returns(s, t) ==
    /\ owner[s] \in {None, t}
    /\ owner' = [owner EXCEPT ![s] = t]

\* The direct intent hands the session's URL out and attaches nothing.
OpenIntent(r) ==
    /\ pc[r] = "openIntent"
    /\ \/ \E s \in Session : Returns(s, target[r]) /\ Done(r) /\ UNCHANGED events
       \/ /\ UNCHANGED owner \/ \E s \in Session : Returns(s, target[r])
          /\ Event
          /\ Goto(r, "deleteRow")
    /\ UNCHANGED <<rows, pages, handed>>

DeleteRow(r) ==
    /\ pc[r] = "deleteRow"
    /\ DeleteTransaction(target[r])
    /\ Done(r)
    /\ UNCHANGED <<order, claimed, pages, links, events>>

-----------------------------------------------------------------------------
\* A page

\* The page of a row that names a provider's session links to the payment_url
\* of the row, if it has one.
View(p) ==
    LET t == pages[p].tx IN
    /\ pages[p] # NoPage /\ pages[p].state \in {"VALID", "EXPIRED"}
    /\ Pending(t)
    /\ docs[t].providerTxID # None /\ url[t] # None
    /\ sent' = sent \cup {url[t]}
    /\ UNCHANGED <<rows, pages, owner, url, givenUp, overwritten, request, events>>

Select(r, p) ==
    /\ Idle(r)
    /\ pages[p] # NoPage /\ pages[p].state = "VALID"
    /\ Pending(pages[p].tx)
    /\ docs[pages[p].tx].providerTxID = None
    /\ On(r, pages[p].tx, None, "openSelected")
    /\ UNCHANGED <<rows, pages, links, events>>

OpenSelected(r) ==
    /\ pc[r] = "openSelected"
    /\ \/ /\ \E s \in Session :
                Returns(s, target[r]) /\ On(r, target[r], s, "attach")
          /\ UNCHANGED events
       \/ /\ UNCHANGED owner \/ \E s \in Session : Returns(s, target[r])
          /\ Event
          /\ Goto(r, "markFailed")
    /\ UNCHANGED <<rows, pages, handed>>

\* Mutant: the player is sent to the provider whether or not the row took it.
Attach_Redirects(r) ==
    LET t == target[r]
        taken == Pending(t) /\ docs[t].providerTxID = None IN
    /\ pc[r] = "attach"
    /\ AttachProviderTransaction(t, session[r])
    /\ url' = IF taken THEN [url EXCEPT ![t] = session[r]] ELSE url
    /\ sent' = sent \cup {session[r]}
    /\ Done(r)
    /\ UNCHANGED <<order, claimed, pages, owner, givenUp, overwritten, events>>

\* The player is redirected to the session the row took.
Attach(r) ==
    LET t == target[r] IN
    /\ pc[r] = "attach"
    /\ \/ /\ Pending(t) /\ docs[t].providerTxID = None
          /\ AttachProviderTransaction(t, session[r])
          /\ url' = [url EXCEPT ![t] = session[r]]
          /\ sent' = sent \cup {session[r]}
          /\ givenUp' = givenUp \ {session[r]}
          /\ overwritten' = overwritten \ {session[r]}
          /\ Done(r)
       \/ /\ ~Pending(t) \/ docs[t].providerTxID # None
          /\ Goto(r, "compare")
          /\ UNCHANGED <<docs, url, sent, givenUp, overwritten>>
    /\ UNCHANGED <<order, claimed, pages, owner, events>>

\* Another tab was first; with the same session, both players are sent there -
\* unless a sync has written another id of it, which is not the one compared.
Compare(r) ==
    /\ pc[r] = "compare"
    /\ \/ docs[target[r]].providerTxID = session[r] /\ sent' = sent \cup {session[r]}
       \/ UNCHANGED sent
    /\ Done(r)
    /\ UNCHANGED <<rows, pages, owner, url, givenUp, overwritten, events>>

\* Cancel and cancel-selected-provider also work on a page that has expired.
Cancel(r, p) ==
    LET t == pages[p].tx IN
    /\ Idle(r)
    /\ pages[p] # NoPage /\ pages[p].state \in {"VALID", "EXPIRED"}
    /\ Pending(t)
    /\ \/ docs[t].providerTxID = None /\ On(r, t, None, "markCanceled")
       \/ docs[t].providerTxID # None
          /\ On(r, t, docs[t].providerTxID, "cancelProvider")
    /\ UNCHANGED <<rows, pages, links, events>>

\* The provider says: canceled, expired, or anything else.
CancelAtProvider(r) ==
    /\ pc[r] = "cancelProvider"
    /\ Goto(r, "markCanceled") \/ Goto(r, "markExpired") \/ Done(r)
    /\ UNCHANGED <<rows, pages, links, events>>

Unselect(r, p) ==
    LET t == pages[p].tx IN
    /\ Idle(r)
    /\ pages[p] # NoPage /\ pages[p].state \in {"VALID", "EXPIRED"}
    /\ Pending(t)
    /\ docs[t].providerTxID # None
    /\ On(r, t, docs[t].providerTxID, "unselect")
    /\ UNCHANGED <<rows, pages, links, events>>

UnselectAtProvider(r) ==
    /\ pc[r] = "unselect"
    /\ Goto(r, "clear") \/ Done(r)
    /\ UNCHANGED <<rows, pages, links, events>>

\* Mutant: whatever the row names by now is cleared.
Clear_Any(r) ==
    LET t == target[r] IN
    /\ pc[r] = "clear"
    /\ Pending(t)
    /\ ClearProviderTransactionIfPending(t, docs[t].providerTxID)
    /\ url' = [url EXCEPT ![t] = None]
    /\ givenUp' = givenUp \cup {session[r]}
    /\ Done(r)
    /\ UNCHANGED <<order, claimed, pages, owner, sent, overwritten, events>>

\* Only the session that was canceled is cleared, and not even that when a sync
\* has written another id of it in the meantime.
Clear(r) ==
    LET t == target[r] IN
    /\ pc[r] = "clear"
    /\ \/ /\ Pending(t) /\ docs[t].providerTxID = session[r]
          /\ ClearProviderTransactionIfPending(t, session[r])
          /\ url' = [url EXCEPT ![t] = None]
          /\ givenUp' = givenUp \cup {session[r]}
       \/ UNCHANGED <<docs, url, givenUp>>
    /\ Done(r)
    /\ UNCHANGED <<order, claimed, pages, owner, sent, overwritten, events>>

\* The last store operation of a request.
Ends(r, step, op) ==
    /\ pc[r] = step
    /\ op
    /\ Done(r)
    /\ UNCHANGED <<order, claimed, pages, links, events>>

Fails(r)    == Ends(r, "markFailed", MarkFailed(target[r]))
Cancels(r)  == Ends(r, "markCanceled", MarkCanceledIfPending(target[r]))
Expires(r)  == Ends(r, "markExpired", MarkExpiredIfPending(target[r]))

-----------------------------------------------------------------------------
\* What happens to rows, pages and requests from elsewhere

\* A webhook, a sync or the poller claims the row for a session of it.
RowClaimed(t) ==
    /\ \E s \in Session : owner[s] = t /\ AtomicClaimFulfilling(t, s)
    /\ claimed' = claimed \cup {t}
    /\ Event
    /\ UNCHANGED <<order, pages, links, request>>

\* Then it is granted, or a failed grant puts it back, or it fails.
RowSettles(t) ==
    /\ t \in claimed
    /\ \/ CommitFulfilled(t)
       \/ docs[t].status \in {"FULFILLING", "FULFILLED", "FAILED"} /\ ResetToPending(t)
       \/ MarkFailed(t)
    /\ UNCHANGED <<order, claimed, pages, links, request, events>>

\* It fails, is canceled or expires at the provider or by the scheduler.
RowCloses(t) ==
    /\ Pending(t)
    /\ MarkFailed(t) \/ MarkCanceledIfPending(t) \/ MarkExpiredIfPending(t)
    /\ Event
    /\ UNCHANGED <<order, claimed, pages, links, request>>

\* A sync writes an id of the session s that the row of t named when it was
\* read, whatever the row names by now: maybeUpdateProviderTxID has no other
\* filter than the row.  (Every session a row was given is in sent; one that a
\* claim wrote belongs to a row that is claimed.)
SyncWritesId(t, s) ==
    /\ owner[s] = t /\ s \in sent
    /\ Exists(t) /\ docs[t].providerTxID # s
    /\ UpdateProviderTransactionID(t, s)
    /\ overwritten' = (overwritten \cup {docs[t].providerTxID}) \ {s}
    /\ Event
    /\ UNCHANGED <<order, claimed, pages, owner, url, sent, givenUp, request>>

\* After 30 minutes a page no longer selects, a day later it is swept.
PageRunsOut(p) ==
    /\ pages[p] # NoPage
    /\ \/ pages[p].state = "VALID" /\ pages' = [pages EXCEPT ![p].state = "EXPIRED"]
       \/ pages[p].state = "EXPIRED" /\ pages' = [pages EXCEPT ![p].state = "GONE"]
    /\ Event
    /\ UNCHANGED <<rows, links, request>>

\* A store call fails, or the client is gone: the request ends where it is.
Abort(r) ==
    /\ ~Idle(r)
    /\ Done(r)
    /\ Event
    /\ UNCHANGED <<rows, pages, links>>

Restart ==
    /\ pages' = [p \in Page |-> IF pages[p] = NoPage THEN NoPage
                                ELSE [pages[p] EXCEPT !.state = "GONE"]]
    /\ AllIdle
    /\ Event
    /\ UNCHANGED <<rows, links>>

-----------------------------------------------------------------------------

Starts(r) ==
    \/ \E o \in Order, d \in BOOLEAN : Post(r, o, d)
    \/ \E p \in Page : Select(r, p) \/ Cancel(r, p) \/ Unselect(r, p)

Step(r) ==
    \/ Insert(r) \/ Find(r) \/ NewPage(r) \/ OpenIntent(r) \/ DeleteRow(r)
    \/ OpenSelected(r) \/ Attach(r) \/ Compare(r)
    \/ CancelAtProvider(r) \/ UnselectAtProvider(r) \/ Clear(r)
    \/ Fails(r) \/ Cancels(r) \/ Expires(r) \/ Abort(r)

Elsewhere ==
    \/ \E t \in Tx : RowClaimed(t) \/ RowSettles(t) \/ RowCloses(t)
    \/ \E t \in Tx, s \in Session : SyncWritesId(t, s)
    \/ \E p \in Page : View(p) \/ PageRunsOut(p)
    \/ Restart

Next == (\E r \in Requests : Starts(r) \/ Step(r)) \/ Elsewhere

Spec == Init /\ [][Next]_vars

-----------------------------------------------------------------------------
\* Properties

\* Rows that never left PENDING.
Waiting == {t \in Tx : Pending(t) /\ t \notin claimed}

\* "Rate limit: max PENDING transactions per user": the rows are counted before
\* one is inserted, so each further request that runs at the same time may
\* exceed the limit by one - and no more, whatever is deleted, canceled, lost
\* by a restart or posted again.  (A row that a failed grant puts back comes on
\* top.)
PendingBound == Cardinality(Waiting) <= MaxPending + Cardinality(Requests) - 1

\* A payment session whose URL the hosted checkout gave to a player is the one
\* the row names - so that polling, canceling and expiring the row reach it -
\* until somebody canceled it to select another provider, or it was paid: two
\* tabs, a stale tab's cancel, a page that shows a cleared row and a provider
\* that repeats an old session included.  One thing breaks it: a sync that had
\* read the row before the session was attached replaces it (overwritten), and
\* what happens to the row afterwards breaks it for no other session.
SentIsAttached ==
    \A s \in sent \ (givenUp \cup overwritten) : \A t \in Tx \ claimed :
        owner[s] = t /\ Pending(t) => docs[t].providerTxID = s

\* Pages that were asked for with one client_order_id lead to one payment,
\* although posts race, pages and requests are lost by a restart and the limit
\* is checked first; unless the payment was deleted by a failed direct intent.
OnePaymentPerOrder ==
    \A p, q \in Page :
        pages[p] # NoPage /\ pages[q] # NoPage /\ pages[p].order = pages[q].order =>
            \/ pages[p].tx = pages[q].tx
            \/ ~Exists(pages[p].tx) \/ ~Exists(pages[q].tx)
=============================================================================
