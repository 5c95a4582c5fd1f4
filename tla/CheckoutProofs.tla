--------------------------- MODULE CheckoutProofs ---------------------------
(***************************************************************************)
(* The properties of Checkout hold for every number of rows, orders,       *)
(* pages, sessions and requests, and for every limit.  The inductive       *)
(* invariant CInv adds to the properties what ties a request, a page and a *)
(* session to a row, and counts the requests about to insert.  Each action *)
(* either writes rows calmly, as most do, or is one of the six that open,  *)
(* attach or clear a session, insert a row, claim it or write an old id.    *)
(***************************************************************************)
EXTENDS Checkout, StoreProofs, FiniteSetTheorems

-----------------------------------------------------------------------------
\* The invariant

Used(t) == t \in Tx /\ docs[t].status # "ABSENT"

\* The steps in which a request works on a row.
OnRow == Steps \ {"idle", "insert", "find"}

\* What the request r holds exists, and belongs together.
Sane(r) ==
    /\ pc[r] \in {"insert", "find"} => want[r] \in Order
    /\ pc[r] \in OnRow => Used(target[r])
    /\ pc[r] = "newPage" => want[r] \in Order /\ want[r] = order[target[r]]
    /\ pc[r] \in {"attach", "compare"} =>
          session[r] \in Session /\ owner[session[r]] = target[r]
    /\ pc[r] \in {"unselect", "clear"} => session[r] \in Session

SaneRequests == \A r \in Requests : Sane(r)

\* A page shows a row, under the order it was inserted with.
SanePage(p) == pages[p] # NoPage =>
                  Used(pages[p].tx) /\ pages[p].order = order[pages[p].tx]

SanePages == \A p \in Page : SanePage(p)

\* client_order_id is unique.
OrdersUnique ==
    \A t, u \in Tx : Exists(t) /\ Exists(u) /\ order[t] = order[u] => t = u

\* A session is opened for a row, and only such a session is attached or sent.
SessionsOwned ==
    /\ \A s \in Session : owner[s] # None => Used(owner[s])
    /\ \A t \in Tx : docs[t].providerTxID # None => owner[docs[t].providerTxID] = t
    /\ \A t \in Tx : url[t] # None => owner[url[t]] = t
    /\ \A s \in sent : owner[s] # None

\* The URL of a row leads to the session it names; a claim and the write of a
\* stale sync change the id alone.
UrlNamed ==
    \A t \in Tx \ claimed :
        url[t] # None /\ url[t] \notin overwritten => url[t] = docs[t].providerTxID

Inserting == {r \in Requests : pc[r] = "insert"}

\* Each request about to insert has counted fewer rows than the limit.
Room == Cardinality(Waiting) + Cardinality(Inserting)
           <= MaxPending + Cardinality(Requests) - 1

Linked == SanePages /\ OrdersUnique /\ SessionsOwned /\ UrlNamed /\ SentIsAttached

CInv == TypeOK /\ SaneRequests /\ Linked /\ Room

-----------------------------------------------------------------------------
\* Kinds of writes

\* The rows keep their sessions, none appears or is put back to wait.
Calm ==
    /\ StoreTypeOK'
    /\ \A t \in Tx : /\ docs'[t].providerTxID = docs[t].providerTxID
                     /\ docs[t].status # "ABSENT" => docs'[t].status # "ABSENT"
                     /\ Exists(t)' => Exists(t)
                     /\ Pending(t)' /\ t \notin claimed => Pending(t)

\* An update of the status that is not PENDING is calm.
LEMMA StatusCalm ==
  ASSUME StoreTypeOK, NEW t \in Tx,
         NEW status \in TxStatus \ {"ABSENT", "PENDING"}, Exists(t),
         docs' = [docs EXCEPT ![t].status = status]
  PROVE  Calm
<1>1. StoreTypeOK'
  BY StatusType
<1>2. ASSUME NEW u \in Tx
      PROVE  /\ docs'[u].providerTxID = docs[u].providerTxID
             /\ docs'[u].status = IF u = t THEN status ELSE docs[u].status
  BY DEF StoreTypeOK, Doc
<1> QED
  BY <1>1, <1>2 DEF Calm, Exists, Pending

\* Writing nothing is calm.
LEMMA NothingCalm ==
  ASSUME StoreTypeOK, docs' = docs
  PROVE  Calm
  BY DEF Calm, StoreTypeOK, Exists, Pending

\* The operations that close, delete or commit a row are calm.
LEMMA MarksCalm ==
  ASSUME StoreTypeOK, NEW t \in Tx,
         \/ MarkFailed(t) \/ MarkCanceledIfPending(t) \/ MarkExpiredIfPending(t)
         \/ DeleteTransaction(t) \/ CommitFulfilled(t)
  PROVE  Calm
<1>1. CASE MarkFailed(t)
  BY <1>1, StatusCalm, NothingCalm DEF MarkFailed, TxStatus
<1>2. CASE MarkCanceledIfPending(t)
  BY <1>2, StatusCalm, NothingCalm
     DEF MarkCanceledIfPending, MarkTerminalIfPending, TxStatus, Pending, Exists
<1>3. CASE MarkExpiredIfPending(t)
  BY <1>3, StatusCalm, NothingCalm
     DEF MarkExpiredIfPending, MarkTerminalIfPending, TxStatus, Pending, Exists
<1>4. CASE DeleteTransaction(t)
  BY <1>4, StatusCalm, NothingCalm DEF DeleteTransaction, TxStatus
<1>5. CASE CommitFulfilled(t)
  BY <1>5, StatusCalm, NothingCalm DEF CommitFulfilled, TxStatus, Exists
<1> QED
  BY <1>1, <1>2, <1>3, <1>4, <1>5

\* A row that was claimed may be put back.
LEMMA ResetCalm ==
  ASSUME StoreTypeOK, NEW t \in claimed, t \in Tx, Exists(t), ResetToPending(t)
  PROVE  Calm
<1>1. StoreTypeOK'
  BY ResetToPendingType
<1>2. ASSUME NEW u \in Tx
      PROVE  /\ docs'[u].providerTxID = docs[u].providerTxID
             /\ docs'[u].status = IF u = t THEN "PENDING" ELSE docs[u].status
  BY DEF StoreTypeOK, Doc, ResetToPending
<1> QED
  BY <1>1, <1>2 DEF Calm, Exists, Pending

-----------------------------------------------------------------------------
\* Kinds of steps: what each needs of a step to preserve a part of CInv

\* Rows stay, with their order, and sessions stay with their row.
Stable ==
    /\ \A t \in Tx : Used(t) => Used(t)' /\ order'[t] = order[t]
    /\ \A s \in Session : owner[s] # None => owner'[s] = owner[s]

\* A step in which each request keeps what it holds, ends, or is sane.
LEMMA RequestsSane ==
  ASSUME TypeOK, SaneRequests, Stable,
         \A r \in Requests :
            \/ /\ pc'[r] = pc[r] /\ want'[r] = want[r]
               /\ target'[r] = target[r] /\ session'[r] = session[r]
            \/ pc'[r] = "idle"
            \/ Sane(r)'
  PROVE  SaneRequests'
<1> SUFFICES ASSUME NEW r \in Requests PROVE Sane(r)'
  BY DEF SaneRequests
<1>1. CASE /\ pc'[r] = pc[r] /\ want'[r] = want[r]
           /\ target'[r] = target[r] /\ session'[r] = session[r]
  <2>1. Sane(r)
    BY DEF SaneRequests
  <2>2. pc[r] \in OnRow => /\ target[r] \in Tx /\ docs'[target[r]].status # "ABSENT"
                          /\ order'[target[r]] = order[target[r]]
    BY <2>1 DEF Sane, Stable, Used
  <2>3. pc[r] \in {"attach", "compare"} => owner'[session[r]] = target[r]
    <3>1. ASSUME pc[r] \in {"attach", "compare"}
          PROVE  owner'[session[r]] = target[r]
      <4>1. session[r] \in Session /\ owner[session[r]] = target[r]
        BY <2>1, <3>1 DEF Sane
      <4>2. target[r] \in Tx
        BY <2>1, <3>1 DEF Sane, OnRow, Steps, Used
      <4>3. target[r] # None
        BY <4>2, StoreAssumption
      <4> QED
        BY <4>1, <4>3 DEF Stable
    <3> QED
      BY <3>1
  <2>4. pc[r] = "newPage" => pc[r] \in OnRow
    BY DEF OnRow, Steps
  <2> QED
    BY <1>1, <2>1, <2>2, <2>3, <2>4 DEF Sane, Used
<1>2. CASE pc'[r] = "idle"
  BY <1>2 DEF Sane, OnRow
<1>3. CASE Sane(r)'
  BY <1>3
<1> QED
  BY <1>1, <1>2, <1>3

\* A step that gives no row a new session and opens none.
LEMMA CalmLinked ==
  ASSUME CInv, Calm, UNCHANGED <<order, owner, url, givenUp, overwritten>>,
         claimed \subseteq claimed',
         \A s \in sent' : \/ s \in sent
                          \/ \E t \in Tx : s \in {docs[t].providerTxID, url[t]},
         sent' \subseteq Session,
         \A p \in Page : pages'[p] # NoPage =>
            \/ /\ pages[p] # NoPage
               /\ pages'[p].tx = pages[p].tx /\ pages'[p].order = pages[p].order
            \/ Used(pages'[p].tx) /\ pages'[p].order = order[pages'[p].tx]
  PROVE  Linked' /\ Stable
<1> USE DEF CInv, Linked
<1>1. Stable
  BY DEF Stable, Calm, Used
<1>2. SanePages'
  <2> SUFFICES ASSUME NEW p \in Page, pages'[p] # NoPage
               PROVE  /\ pages'[p].tx \in Tx /\ docs'[pages'[p].tx].status # "ABSENT"
                      /\ pages'[p].order = order'[pages'[p].tx]
    BY DEF SanePages, SanePage, Used
  <2>1. Used(pages'[p].tx) /\ pages'[p].order = order[pages'[p].tx]
    BY DEF SanePages, SanePage
  <2> QED
    BY <2>1, <1>1 DEF Stable, Used
<1>3. OrdersUnique'
  BY DEF OrdersUnique, Calm
<1>4. SessionsOwned'
  <2>1. \A s \in Session : owner[s] # None => Used(owner[s])'
    BY <1>1 DEF SessionsOwned, Stable, Used
  <2>2. \A t \in Tx : docs'[t].providerTxID # None => owner'[docs'[t].providerTxID] = t
    BY DEF SessionsOwned, Calm
  <2>3. ASSUME NEW s \in sent' PROVE owner'[s] # None
    <3>1. CASE s \in sent
      BY <3>1 DEF SessionsOwned
    <3>2. CASE \E t \in Tx : s \in {docs[t].providerTxID, url[t]}
      BY <3>2, StoreAssumption DEF SessionsOwned
    <3> QED
      BY <3>1, <3>2
  <2> QED
    BY <2>1, <2>2, <2>3 DEF SessionsOwned
<1>5. SentIsAttached'
  <2> SUFFICES ASSUME NEW s \in sent', s \notin givenUp, NEW t \in Tx, t \notin claimed',
                      s \notin overwritten, owner[s] = t, Pending(t)'
               PROVE  docs[t].providerTxID = s
    BY DEF SentIsAttached, Calm
  <2>1. Pending(t) /\ t \notin claimed
    BY DEF Calm
  <2>2. CASE s \in sent
    BY <2>1, <2>2 DEF SentIsAttached
  <2>3. CASE \E u \in Tx : s \in {docs[u].providerTxID, url[u]}
    BY <2>1, <2>3, StoreAssumption DEF SessionsOwned, UrlNamed
  <2> QED
    BY <2>2, <2>3
<1>6. UrlNamed'
  BY DEF UrlNamed, Calm
<1> QED
  BY <1>1, <1>2, <1>3, <1>4, <1>5, <1>6

\* A step that neither makes a row wait nor lets a request insert.
LEMMA RoomKept ==
  ASSUME TypeOK, Room, Waiting' \subseteq Waiting, Inserting' \subseteq Inserting
  PROVE  Room'
<1>1. IsFiniteSet(Tx) /\ IsFiniteSet(Requests) /\ MaxPending \in Nat
  BY CheckoutAssumption
<1>2. IsFiniteSet(Waiting) /\ IsFiniteSet(Inserting)
  BY <1>1, FS_Subset DEF Waiting, Inserting
<1>3. /\ IsFiniteSet(Waiting') /\ Cardinality(Waiting') <= Cardinality(Waiting)
      /\ IsFiniteSet(Inserting') /\ Cardinality(Inserting') <= Cardinality(Inserting)
  BY <1>2, FS_Subset
<1>4. /\ Cardinality(Waiting) \in Nat /\ Cardinality(Inserting) \in Nat
      /\ Cardinality(Waiting') \in Nat /\ Cardinality(Inserting') \in Nat
      /\ Cardinality(Requests) \in Nat
  BY <1>1, <1>2, <1>3, FS_CardinalityType
<1> QED
  BY <1>1, <1>3, <1>4 DEF Room

\* In a calm step no row begins to wait.
LEMMA CalmWaiting ==
  ASSUME TypeOK, Calm, claimed \subseteq claimed'
  PROVE  Waiting' \subseteq Waiting
  BY DEF Calm, Waiting

-----------------------------------------------------------------------------
\* Kinds of steps: the whole invariant

\* What a calm step leaves alone or may add.
CalmRest ==
    /\ Calm
    /\ UNCHANGED <<order, claimed, owner, url, givenUp, overwritten>>
    /\ sent' \subseteq Session
    /\ \A s \in sent' : \/ s \in sent
                        \/ \E t \in Tx : s \in {docs[t].providerTxID, url[t]}
    /\ pages' \in [Page -> PageType \cup {NoPage}]
    /\ \A p \in Page : pages'[p] # NoPage =>
          \/ /\ pages[p] # NoPage
             /\ pages'[p].tx = pages[p].tx /\ pages'[p].order = pages[p].order
          \/ Used(pages'[p].tx) /\ pages'[p].order = order[pages'[p].tx]
    /\ events' \in 0..MaxEvents

\* Requests keep what they hold, end or are sane, and none begins to insert.
Moves ==
    /\ pc' \in [Requests -> Steps]
    /\ want' \in [Requests -> Order \cup {None}]
    /\ direct' \in [Requests -> BOOLEAN]
    /\ target' \in [Requests -> Tx \cup {None}]
    /\ session' \in [Requests -> Session \cup {None}]
    /\ Inserting' \subseteq Inserting
    /\ \A r \in Requests :
          \/ /\ pc'[r] = pc[r] /\ want'[r] = want[r]
             /\ target'[r] = target[r] /\ session'[r] = session[r]
          \/ pc'[r] = "idle"
          \/ Sane(r)'

\* A request that ends moves.
LEMMA DoneMoves ==
  ASSUME TypeOK, NEW r \in Requests, Done(r)
  PROVE  Moves
<1> USE DEF Done
<1>1. /\ pc' \in [Requests -> Steps] /\ want' \in [Requests -> Order \cup {None}]
      /\ direct' \in [Requests -> BOOLEAN] /\ target' \in [Requests -> Tx \cup {None}]
      /\ session' \in [Requests -> Session \cup {None}]
  BY DEF TypeOK, Steps
<1>2. pc'[r] = "idle" /\ \A q \in Requests \ {r} :
         /\ pc'[q] = pc[q] /\ want'[q] = want[q]
         /\ target'[q] = target[q] /\ session'[q] = session[q]
  BY DEF TypeOK
<1>3. Inserting' \subseteq Inserting
  BY <1>2 DEF Inserting
<1> QED
  BY <1>1, <1>2, <1>3 DEF Moves

\* A request that is sane on a row afterwards moves.
LEMMA OnMoves ==
  ASSUME TypeOK, NEW r \in Requests, NEW t \in Tx \cup {None},
         NEW s \in Session \cup {None}, NEW step \in Steps \ {"insert"},
         On(r, t, s, step), Sane(r)'
  PROVE  Moves
<1> USE DEF On
<1>1. /\ pc' \in [Requests -> Steps] /\ want' \in [Requests -> Order \cup {None}]
      /\ direct' \in [Requests -> BOOLEAN] /\ target' \in [Requests -> Tx \cup {None}]
      /\ session' \in [Requests -> Session \cup {None}]
  BY DEF TypeOK
<1>2. \A q \in Requests \ {r} :
         /\ pc'[q] = pc[q] /\ want'[q] = want[q]
         /\ target'[q] = target[q] /\ session'[q] = session[q]
  BY DEF TypeOK
<1>3. Inserting' \subseteq Inserting
  BY <1>2 DEF Inserting, TypeOK
<1> QED
  BY <1>1, <1>2, <1>3 DEF Moves

\* A request that does something else with what it holds moves.
LEMMA GotoMoves ==
  ASSUME TypeOK, NEW r \in Requests, NEW step \in Steps \ {"insert"},
         Goto(r, step), Sane(r)'
  PROVE  Moves
<1>1. target[r] \in Tx \cup {None} /\ session[r] \in Session \cup {None}
  BY DEF TypeOK
<1>2. On(r, target[r], session[r], step)
  BY DEF On, Goto, TypeOK
<1> QED
  BY <1>1, <1>2, OnMoves

\* So do requests of which none does anything.
LEMMA NoneMoves ==
  ASSUME TypeOK, UNCHANGED request
  PROVE  Moves
<1>1. Inserting' = Inserting
  BY DEF Inserting, request
<1> QED
  BY <1>1 DEF Moves, request, TypeOK

\* A calm step preserves the invariant.
LEMMA CalmStep ==
  ASSUME CInv, CalmRest, Moves
  PROVE  CInv'
<1> USE DEF CInv, CalmRest, Moves
<1>1. TypeOK'
  BY DEF TypeOK, Calm
<1>2. Linked' /\ Stable
  BY CalmLinked
<1>3. SaneRequests'
  BY <1>2, RequestsSane
<1>4. Room'
  BY CalmWaiting, RoomKept
<1> QED
  BY <1>1, <1>2, <1>3, <1>4

\* So does another step that leaves the rows linked and lets none wait.
LEMMA LinkedStep ==
  ASSUME CInv, Moves, Linked', Stable, Waiting' \subseteq Waiting, StoreTypeOK',
         UNCHANGED <<order, pages>>, claimed' \subseteq Tx,
         owner' \in [Session -> Tx \cup {None}],
         url' \in [Tx -> Session \cup {None}], overwritten' \subseteq Session \cup {None},
         sent' \subseteq Session, givenUp' \subseteq Session, events' \in 0..MaxEvents
  PROVE  CInv'
<1> USE DEF CInv, Moves
<1>1. TypeOK'
  BY DEF TypeOK
<1>2. SaneRequests'
  BY RequestsSane
<1>3. Room'
  BY RoomKept
<1> QED
  BY <1>1, <1>2, <1>3

\* Nothing but the requests and the events changes.
LEMMA RestKept ==
  ASSUME CInv, UNCHANGED <<rows, pages, links>>, events' \in 0..MaxEvents
  PROVE  CalmRest
<1>1. Calm
  BY NothingCalm DEF CInv, TypeOK, rows
<1> QED
  BY <1>1 DEF CalmRest, CInv, TypeOK, rows, links, handed

\* An event, or none, is one that is counted.
LEMMA EventCounted ==
  ASSUME TypeOK, Event \/ UNCHANGED events
  PROVE  events' \in 0..MaxEvents
  BY CheckoutAssumption DEF Event, TypeOK

-----------------------------------------------------------------------------
\* The steps that are not calm

\* A request that counted less than the limit may insert: those that wait and
\* those about to insert, it included, still have room.
LEMMA PostStep ==
  ASSUME CInv, NEW r \in Requests, NEW o \in Order, NEW d \in BOOLEAN, Post(r, o, d)
  PROVE  CInv'
<1> USE DEF CInv, Post
<1>1. TypeOK'
  BY DEF TypeOK, StoreTypeOK, Steps, rows, links, handed
<1>2. CalmRest
  BY <1>1, RestKept DEF TypeOK
<1>3. Linked' /\ Stable
  BY <1>2, CalmLinked DEF CalmRest
<1>4. Sane(r)'
  BY <1>1 DEF Sane, OnRow, TypeOK
<1>5. \A q \in Requests \ {r} :
         /\ pc'[q] = pc[q] /\ want'[q] = want[q]
         /\ target'[q] = target[q] /\ session'[q] = session[q]
  BY DEF TypeOK
<1>6. SaneRequests'
  BY <1>3, <1>4, <1>5, RequestsSane
<1>7. Room'
  <2> DEFINE open == {t \in Tx : Pending(t)}
  <2>1. /\ IsFiniteSet(open) /\ Waiting' \subseteq open
        /\ IsFiniteSet(Requests) /\ Inserting' \subseteq Requests
    BY CheckoutAssumption, FS_Subset DEF Waiting, Inserting, Pending, rows
  <2>2. /\ IsFiniteSet(Waiting') /\ Cardinality(Waiting') <= Cardinality(open)
        /\ IsFiniteSet(Inserting') /\ Cardinality(Inserting') <= Cardinality(Requests)
    BY <2>1, FS_Subset
  <2>3. /\ Cardinality(Waiting') \in Nat /\ Cardinality(Inserting') \in Nat
        /\ Cardinality(open) \in Nat /\ Cardinality(Requests) \in Nat
    BY <2>1, <2>2, FS_CardinalityType
  <2>4. Cardinality(open) < MaxPending
    BY DEF CountPendingByUser
  <2> HIDE DEF open
  <2> QED
    BY <2>2, <2>3, <2>4, CheckoutAssumption DEF Room
<1> QED
  BY <1>1, <1>3, <1>6, <1>7

\* A request that inserts a row gives up the room it held.
LEMMA InsertStep ==
  ASSUME CInv, NEW r \in Requests, NEW t \in Tx, pc[r] = "insert",
         RowsOf(want[r]) = {}, CreateTransaction(t),
         order' = [order EXCEPT ![t] = want[r]],
         NEW step \in {"openIntent", "newPage"}, On(r, t, None, step),
         UNCHANGED <<claimed, pages, links, events>>
  PROVE  CInv'
<1> USE DEF CInv, Linked
<1>1. StoreTypeOK' /\ docs[t].status = "ABSENT" /\ ~Used(t)
  BY CreateTransactionType DEF TypeOK, CreateTransaction, Used
<1>2. \A u \in Tx : /\ docs'[u].providerTxID = docs[u].providerTxID
                    /\ docs'[u].status = IF u = t THEN "PENDING" ELSE docs[u].status
                    /\ order'[u] = IF u = t THEN want[r] ELSE order[u]
  BY DEF CreateTransaction, TypeOK, StoreTypeOK, Doc
<1>3. want[r] \in Order
  BY DEF SaneRequests, Sane
<1>4. Stable
  BY <1>1, <1>2 DEF Stable, Used, links, handed
<1>5. Sane(r)'
  BY <1>2, <1>3 DEF Sane, On, Used, TypeOK
<1>6. Moves
  BY <1>5, OnMoves DEF TypeOK, Steps
<1>7. TypeOK'
  <2>1. order' \in [Tx -> Order \cup {None}]
    BY <1>3 DEF TypeOK
  <2> QED
    BY <1>1, <1>6, <2>1 DEF TypeOK, Moves, links, handed
<1>8. SaneRequests'
  BY <1>4, <1>6, RequestsSane DEF Moves
<1>9. SanePages'
  BY <1>1, <1>2 DEF SanePages, SanePage, Used
<1>10. OrdersUnique'
  <2> SUFFICES ASSUME NEW u \in Tx, NEW v \in Tx, Exists(u)', Exists(v)',
                      order'[u] = order'[v]
               PROVE  u = v
    BY DEF OrdersUnique
  <2>1. \A w \in Tx \ {t} : Exists(w)' => Exists(w) /\ order'[w] = order[w]
                                              /\ order[w] # want[r]
    BY <1>2 DEF Exists, RowsOf
  <2> QED
    BY <1>2, <2>1 DEF OrdersUnique
<1>11. SessionsOwned'
  BY <1>2, <1>4 DEF SessionsOwned, Stable, Used, links, handed
<1>12. SentIsAttached'
  <2> SUFFICES ASSUME NEW s \in sent, s \notin givenUp, NEW u \in Tx, u \notin claimed,
                      s \notin overwritten, owner[s] = u, Pending(u)'
               PROVE  docs'[u].providerTxID = s
    BY DEF SentIsAttached, links, handed
  <2>1. s \in Session /\ u # None
    BY StoreAssumption DEF TypeOK
  <2>2. u # t
    BY <1>1, <2>1 DEF SessionsOwned
  <2> QED
    BY <1>2, <2>2 DEF SentIsAttached, Pending
<1>13. Room'
  <2>1. /\ IsFiniteSet(Waiting) /\ IsFiniteSet(Inserting)
        /\ Cardinality(Waiting) \in Nat /\ Cardinality(Inserting) \in Nat
        /\ Cardinality(Requests) \in Nat
    BY CheckoutAssumption, FS_Subset, FS_CardinalityType DEF Waiting, Inserting
  <2>2. Waiting' \subseteq Waiting \cup {t} /\ Inserting' = Inserting \ {r}
    BY <1>2 DEF Waiting, Pending, Inserting, On, TypeOK
  <2>3. /\ IsFiniteSet(Waiting \cup {t})
        /\ Cardinality(Waiting \cup {t}) <= Cardinality(Waiting) + 1
    <3>1. /\ IsFiniteSet(Waiting \cup {t})
          /\ Cardinality(Waiting \cup {t}) =
                IF t \in Waiting THEN Cardinality(Waiting) ELSE Cardinality(Waiting) + 1
      BY <2>1, FS_AddElement, Zenon
    <3> QED
      BY <2>1, <3>1
  <2>4. /\ IsFiniteSet(Waiting') /\ Cardinality(Waiting') <= Cardinality(Waiting) + 1
        /\ Cardinality(Waiting') \in Nat
    <3>1. /\ IsFiniteSet(Waiting')
          /\ Cardinality(Waiting') <= Cardinality(Waiting \cup {t})
      BY <2>2, <2>3, FS_Subset
    <3>2. Cardinality(Waiting') \in Nat /\ Cardinality(Waiting \cup {t}) \in Nat
      BY <2>3, <3>1, FS_CardinalityType
    <3> QED
      BY <2>1, <2>3, <3>1, <3>2
  <2>5. Cardinality(Inserting') = Cardinality(Inserting) - 1
    <3>1. Cardinality(Inserting \ {r}) =
             IF r \in Inserting THEN Cardinality(Inserting) - 1
                                ELSE Cardinality(Inserting)
      BY <2>1, FS_RemoveElement, Zenon
    <3>2. r \in Inserting
      BY DEF Inserting
    <3> QED
      BY <2>2, <3>1, <3>2
  <2> QED
    BY <2>1, <2>4, <2>5, CheckoutAssumption DEF Room
<1>14. UrlNamed'
  BY <1>2 DEF UrlNamed, links, handed
<1> QED
  BY <1>7, <1>8, <1>9, <1>10, <1>11, <1>12, <1>13, <1>14

\* A session the provider answers with is the row's own.
LEMMA OpenStep ==
  ASSUME CInv, NEW r \in Requests, Used(target[r]), NEW s \in Session,
         Returns(s, target[r]), UNCHANGED <<rows, pages, handed>>,
         events' \in 0..MaxEvents, Moves
  PROVE  CInv'
<1> USE DEF CInv, Linked, Returns
<1>1. /\ \A u \in Session \ {s} : owner'[u] = owner[u]
      /\ owner'[s] = target[r] /\ owner[s] \in {None, target[r]}
      /\ owner' \in [Session -> Tx \cup {None}]
  BY DEF TypeOK, Used
<1>2. Stable
  BY <1>1 DEF Stable, Used, rows
<1>3. SanePages' /\ OrdersUnique'
  BY DEF SanePages, SanePage, Used, OrdersUnique, Exists, rows
<1>4. SessionsOwned'
  <2>1. \A u \in Session : owner'[u] # None => Used(owner'[u])
    BY <1>1 DEF SessionsOwned
  <2>2. ASSUME NEW t \in Tx, docs[t].providerTxID # None
        PROVE  owner'[docs[t].providerTxID] = t
    <3>1. docs[t].providerTxID \in Session /\ owner[docs[t].providerTxID] = t /\ t # None
      BY <2>2, StoreAssumption DEF SessionsOwned, TypeOK, StoreTypeOK, Doc
    <3> QED
      BY <1>2, <3>1 DEF Stable
  <2>3. \A u \in sent : owner'[u] # None
    BY <1>2 DEF SessionsOwned, Stable, TypeOK
  <2>4. ASSUME NEW t \in Tx, url[t] # None
        PROVE  owner'[url[t]] = t
    <3>1. url[t] \in Session /\ owner[url[t]] = t /\ t # None
      BY <2>4, StoreAssumption DEF SessionsOwned, TypeOK
    <3> QED
      BY <1>2, <3>1 DEF Stable
  <2> QED
    BY <2>1, <2>2, <2>3, <2>4 DEF SessionsOwned, Used, rows, handed
<1>5. SentIsAttached'
  <2> SUFFICES ASSUME NEW u \in sent, u \notin givenUp, NEW t \in Tx, t \notin claimed,
                      u \notin overwritten, owner'[u] = t, Pending(t)
               PROVE  docs[t].providerTxID = u
    BY DEF SentIsAttached, Pending, rows, handed
  <2>1. owner[u] = owner'[u]
    BY <1>1 DEF SessionsOwned, TypeOK
  <2> QED
    BY <2>1 DEF SentIsAttached
<1>6. Waiting' = Waiting /\ StoreTypeOK'
  BY DEF Waiting, Pending, TypeOK, StoreTypeOK, rows
<1>7. UrlNamed'
  BY DEF UrlNamed, rows, handed
<1> QED
  BY <1>1, <1>2, <1>3, <1>4, <1>5, <1>6, <1>7, LinkedStep DEF TypeOK, rows, handed

\* A session that the row takes is the row's own, and the only one it has.
LEMMA AttachStep ==
  ASSUME CInv, NEW r \in Requests, pc[r] = "attach",
         Pending(target[r]), docs[target[r]].providerTxID = None,
         AttachProviderTransaction(target[r], session[r]),
         url' = [url EXCEPT ![target[r]] = session[r]],
         sent' = sent \cup {session[r]}, givenUp' = givenUp \ {session[r]},
         overwritten' = overwritten \ {session[r]}, Done(r),
         UNCHANGED <<order, claimed, pages, owner, events>>
  PROVE  CInv'
<1> DEFINE t == target[r]
           s == session[r]
<1> USE DEF CInv, Linked
<1>1. s \in Session /\ owner[s] = t /\ Used(t)
  BY DEF SaneRequests, Sane, OnRow, Steps
<1>2. StoreTypeOK'
  BY <1>1, AttachType DEF TypeOK
<1>3. \A u \in Tx : /\ docs'[u].status = docs[u].status
                    /\ docs'[u].providerTxID = IF u = t THEN s ELSE docs[u].providerTxID
  BY <1>1 DEF AttachProviderTransaction, TypeOK, StoreTypeOK, Doc
<1>u. \A u \in Tx : url'[u] = IF u = t THEN s ELSE url[u]
  BY DEF TypeOK
<1>v. url' \in [Tx -> Session \cup {None}]
  BY <1>1 DEF TypeOK
<1> HIDE DEF t, s
<1>4. Stable
  BY <1>3 DEF Stable, Used
<1>5. SanePages' /\ OrdersUnique'
  BY <1>3 DEF SanePages, SanePage, Used, OrdersUnique, Exists
<1>6. SessionsOwned'
  <2>1. t # None
    BY <1>1, StoreAssumption DEF Used
  <2> QED
    BY <1>1, <1>3, <1>u, <2>1 DEF SessionsOwned, Used, s
<1>7. SentIsAttached'
  <2> SUFFICES ASSUME NEW q \in sent \cup {s}, q \notin givenUp \ {s},
                      q \notin overwritten \ {s},
                      NEW u \in Tx, u \notin claimed, owner[q] = u, Pending(u)
               PROVE  docs'[u].providerTxID = q
    BY <1>3 DEF SentIsAttached, Pending, s
  <2>1. CASE q = s
    BY <1>1, <1>3, <2>1
  <2>2. CASE q # s
    <3>1. q \in sent \ (givenUp \cup overwritten) /\ q # None
      BY <2>2, StoreAssumption DEF TypeOK
    <3>2. docs[u].providerTxID = q
      BY <3>1 DEF SentIsAttached
    <3>3. u # t
      BY <3>1, <3>2 DEF t
    <3> QED
      BY <1>3, <3>2, <3>3
  <2> QED
    BY <2>1, <2>2
<1>8. Moves
  BY DoneMoves
<1>9. Waiting' \subseteq Waiting
  BY <1>3 DEF Waiting, Pending
<1>10. UrlNamed'
  <2> SUFFICES ASSUME NEW u \in Tx, u \notin claimed, u # t, url[u] # None,
                      url[u] \notin overwritten \ {s}
               PROVE  url[u] = docs[u].providerTxID
    BY <1>3, <1>u DEF UrlNamed, s
  <2>1. url[u] # s
    BY <1>1, StoreAssumption DEF SessionsOwned
  <2> QED
    BY <2>1 DEF UrlNamed
<1> QED
  BY <1>1, <1>2, <1>v, <1>4, <1>5, <1>6, <1>7, <1>8, <1>9, <1>10, LinkedStep
     DEF TypeOK, s

\* A session that is cleared from its row is given up.
LEMMA ClearStep ==
  ASSUME CInv, NEW r \in Requests, pc[r] = "clear",
         Pending(target[r]), docs[target[r]].providerTxID = session[r],
         ClearProviderTransactionIfPending(target[r], session[r]),
         url' = [url EXCEPT ![target[r]] = None],
         givenUp' = givenUp \cup {session[r]}, Done(r),
         UNCHANGED <<order, claimed, pages, owner, sent, overwritten, events>>
  PROVE  CInv'
<1> DEFINE t == target[r]
           s == session[r]
<1> USE DEF CInv, Linked
<1>1. s \in Session /\ Used(t)
  BY DEF SaneRequests, Sane, OnRow, Steps
<1>2. StoreTypeOK'
  BY ClearType DEF TypeOK
<1>3. \A u \in Tx : /\ docs'[u].status = docs[u].status
                    /\ docs'[u].providerTxID = IF u = t THEN None
                                               ELSE docs[u].providerTxID
                    /\ url'[u] = IF u = t THEN None ELSE url[u]
  BY <1>1 DEF ClearProviderTransactionIfPending, TypeOK, StoreTypeOK, Doc, Used
<1>4. docs[t].providerTxID = s /\ givenUp' = givenUp \cup {s}
  OBVIOUS
<1>5. Moves
  BY DoneMoves
<1>6. url' \in [Tx -> Session \cup {None}]
  BY DEF TypeOK
<1> HIDE DEF t, s
<1>7. Stable
  BY <1>3 DEF Stable, Used
<1>8. SanePages' /\ OrdersUnique'
  BY <1>3 DEF SanePages, SanePage, Used, OrdersUnique, Exists
<1>9. SessionsOwned' /\ UrlNamed'
  BY <1>3 DEF SessionsOwned, Used, UrlNamed
<1>10. SentIsAttached'
  <2> SUFFICES ASSUME NEW q \in sent, q \notin givenUp', NEW u \in Tx, u \notin claimed,
                      q \notin overwritten, owner[q] = u, Pending(u)
               PROVE  docs'[u].providerTxID = q
    BY <1>3 DEF SentIsAttached, Pending
  <2>1. docs[u].providerTxID = q
    BY <1>4 DEF SentIsAttached
  <2>2. u # t
    BY <1>4, <2>1
  <2> QED
    BY <1>3, <2>1, <2>2
<1>11. Waiting' \subseteq Waiting
  BY <1>3 DEF Waiting, Pending
<1>12. givenUp' \subseteq Session
  BY <1>1, <1>4 DEF TypeOK
<1> QED
  BY <1>2, <1>5, <1>6, <1>7, <1>8, <1>9, <1>10, <1>11, <1>12, LinkedStep DEF TypeOK

\* The id that a stale sync writes is one of a session of the row.
LEMMA SyncStep ==
  ASSUME CInv, NEW t \in Tx, NEW s \in Session, SyncWritesId(t, s)
  PROVE  CInv'
<1> USE DEF CInv, Linked
<1>1. /\ owner[s] = t /\ Exists(t) /\ UpdateProviderTransactionID(t, s)
      /\ overwritten' = (overwritten \cup {docs[t].providerTxID}) \ {s}
      /\ events' \in 0..MaxEvents
      /\ UNCHANGED <<order, claimed, pages, owner, url, sent, givenUp, request>>
  BY EventCounted DEF SyncWritesId
<1>2. StoreTypeOK' /\ docs[t].providerTxID \in Session \cup {None}
  BY <1>1, UpdateProviderType DEF TypeOK, StoreTypeOK, Doc
<1>3. \A u \in Tx : /\ docs'[u].status = docs[u].status
                    /\ docs'[u].providerTxID = IF u = t THEN s ELSE docs[u].providerTxID
  BY <1>1 DEF UpdateProviderTransactionID, TypeOK, StoreTypeOK, Doc
<1>4. Stable
  BY <1>1, <1>3 DEF Stable, Used
<1>5. SanePages' /\ OrdersUnique'
  BY <1>1, <1>3 DEF SanePages, SanePage, Used, OrdersUnique, Exists
<1>6. SessionsOwned'
  BY <1>1, <1>3 DEF SessionsOwned, Used
<1>7. ASSUME NEW q, q \notin overwritten', q # s
      PROVE  q \notin overwritten /\ q # docs[t].providerTxID
  BY <1>1, <1>7
<1>8. UrlNamed'
  <2> SUFFICES ASSUME NEW u \in Tx, u \notin claimed, url[u] # None,
                      url[u] \notin overwritten'
               PROVE  url[u] = docs'[u].providerTxID
    BY <1>1 DEF UrlNamed
  <2>1. CASE url[u] = s
    BY <1>1, <1>3, <2>1 DEF SessionsOwned
  <2>2. CASE url[u] # s
    BY <1>3, <1>7, <2>2 DEF UrlNamed
  <2> QED
    BY <2>1, <2>2
<1>9. SentIsAttached'
  <2> SUFFICES ASSUME NEW q \in sent, q \notin givenUp, q \notin overwritten',
                      NEW u \in Tx, u \notin claimed, owner[q] = u, Pending(u)
               PROVE  docs'[u].providerTxID = q
    BY <1>1, <1>3 DEF SentIsAttached, Pending
  <2>1. CASE q = s
    BY <1>1, <1>3, <2>1
  <2>2. CASE q # s
    BY <1>3, <1>7, <2>2 DEF SentIsAttached
  <2> QED
    BY <2>1, <2>2
<1>10. Waiting' \subseteq Waiting
  BY <1>1, <1>3 DEF Waiting, Pending
<1>11. Moves
  BY <1>1, NoneMoves
<1> QED
  BY <1>1, <1>2, <1>4, <1>5, <1>6, <1>8, <1>9, <1>10, <1>11, LinkedStep DEF TypeOK

\* A row that is claimed takes a session of its own, and no longer waits.
LEMMA ClaimStep ==
  ASSUME CInv, NEW t \in Tx, RowClaimed(t)
  PROVE  CInv'
<1> USE DEF CInv, Linked
<1>1. PICK s \in Session : owner[s] = t /\ AtomicClaimFulfilling(t, s)
  BY DEF RowClaimed
<1>2. /\ claimed' = claimed \cup {t} /\ events' \in 0..MaxEvents
      /\ UNCHANGED <<order, pages, links, request>>
  BY EventCounted DEF RowClaimed
<1>3. StoreTypeOK' /\ Pending(t)
  BY <1>1, AtomicClaimFulfillingType DEF TypeOK, AtomicClaimFulfilling
<1>4. \A u \in Tx : /\ docs'[u].status = IF u = t THEN "FULFILLING" ELSE docs[u].status
                    /\ docs'[u].providerTxID = IF u = t THEN s ELSE docs[u].providerTxID
  BY <1>1 DEF AtomicClaimFulfilling, TypeOK, StoreTypeOK, Doc
<1>5. Stable
  BY <1>2, <1>4 DEF Stable, Used, links, handed
<1>6. SanePages' /\ OrdersUnique'
  BY <1>2, <1>3, <1>4 DEF SanePages, SanePage, Used, OrdersUnique, Exists, Pending
<1>7. SessionsOwned'
  BY <1>1, <1>2, <1>4 DEF SessionsOwned, Used, links, handed
<1>8. SentIsAttached'
  <2> SUFFICES ASSUME NEW q \in sent, q \notin givenUp, NEW u \in Tx, u \notin claimed',
                      q \notin overwritten, owner[q] = u, Pending(u)'
               PROVE  docs'[u].providerTxID = q
    BY <1>2 DEF SentIsAttached, links, handed
  <2>1. u # t /\ u \notin claimed
    BY <1>2
  <2> QED
    BY <1>4, <2>1 DEF SentIsAttached, Pending
<1>9. Waiting' \subseteq Waiting
  BY <1>2, <1>4 DEF Waiting, Pending
<1>10. Moves
  BY <1>2, NoneMoves
<1>11. UrlNamed'
  BY <1>2, <1>4 DEF UrlNamed, links, handed
<1> QED
  BY <1>2, <1>3, <1>5, <1>6, <1>7, <1>8, <1>9, <1>10, <1>11, LinkedStep DEF TypeOK, links, handed

-----------------------------------------------------------------------------
\* The invariant holds

\* It holds of a checkout without rows.
LEMMA InitCInv == Init => CInv
<1> SUFFICES ASSUME Init PROVE CInv
  OBVIOUS
<1> USE DEF Init, StoreInit
<1>1. \A t \in Tx : docs[t] = NoRow
  OBVIOUS
<1>2. \A t \in Tx : ~Pending(t) /\ ~Exists(t) /\ docs[t].providerTxID = None
  BY <1>1 DEF Pending, Exists, NoRow
<1>3. TypeOK
  <2>1. StoreTypeOK
    BY NoRowType DEF StoreTypeOK
  <2>2. MaxEvents \in Nat
    BY CheckoutAssumption
  <2> QED
    BY <2>1, <2>2 DEF TypeOK, Steps
<1>4. SaneRequests
  BY DEF SaneRequests, Sane, OnRow
<1>5. Linked
  BY <1>2 DEF Linked, SanePages, SanePage, OrdersUnique, SessionsOwned, UrlNamed,
                SentIsAttached
<1>6. Room
  <2>1. Waiting = {} /\ Inserting = {}
    BY <1>2 DEF Waiting, Inserting
  <2>2. Cardinality(Requests) \in Nat /\ Cardinality(Requests) # 0
    BY CheckoutAssumption, FS_CardinalityType, FS_EmptySet
  <2>3. Cardinality(Waiting) = 0 /\ Cardinality(Inserting) = 0
    BY <2>1, FS_EmptySet
  <2> QED
    BY <2>2, <2>3, CheckoutAssumption DEF Room
<1> QED
  BY <1>3, <1>4, <1>5, <1>6 DEF CInv

\* A request that ends and leaves everything else as it is.
LEMMA GivesUp ==
  ASSUME CInv, NEW r \in Requests, Done(r), UNCHANGED <<rows, pages, links>>,
         events' \in 0..MaxEvents
  PROVE  CInv'
  BY RestKept, DoneMoves, CalmStep DEF CInv

\* What a request does on a page that shows a row keeps the invariant.
LEMMA StartsNext ==
  ASSUME CInv, NEW r \in Requests, Starts(r)
  PROVE  CInv'
<1>1. CASE \E o \in Order, d \in BOOLEAN : Post(r, o, d)
  BY <1>1, PostStep
<1>2. ASSUME NEW p \in Page, Select(r, p) \/ Cancel(r, p) \/ Unselect(r, p)
      PROVE  CInv'
  <2> DEFINE t == pages[p].tx
  <2>1. pages[p] # NoPage /\ UNCHANGED <<rows, pages, links, events>>
    BY <1>2 DEF Select, Cancel, Unselect
  <2>2. Used(t)
    BY <2>1 DEF CInv, Linked, SanePages, SanePage
  <2>3. docs[t].providerTxID \in Session \cup {None}
    BY <2>2 DEF CInv, TypeOK, StoreTypeOK, Doc, Used
  <2>4. PICK s \in Session \cup {None},
             step \in {"openSelected", "markCanceled", "cancelProvider", "unselect"} :
           On(r, t, s, step) /\ (step = "unselect" => s # None)
    BY <1>2, <2>3 DEF Select, Cancel, Unselect
  <2> HIDE DEF t
  <2>5. Sane(r)'
    BY <2>1, <2>2, <2>4 DEF Sane, On, Used, CInv, TypeOK, rows
  <2>6. Moves
    BY <2>2, <2>4, <2>5, OnMoves DEF Steps, CInv, Used
  <2> QED
    BY <2>1, <2>6, RestKept, CalmStep DEF CInv, TypeOK
<1> QED
  BY <1>1, <1>2 DEF Starts

\* What a request at work does keeps the invariant.
LEMMA StepNext ==
  ASSUME CInv, NEW r \in Requests, Step(r)
  PROVE  CInv'
<1>a. TypeOK /\ StoreTypeOK /\ Sane(r)
  BY DEF CInv, SaneRequests, TypeOK
<1>b. events \in 0..MaxEvents /\ (Event \/ UNCHANGED events => events' \in 0..MaxEvents)
  BY <1>a, EventCounted DEF TypeOK
<1>1. CASE Insert(r)
  <2>1. CASE /\ RowsOf(want[r]) = {}
             /\ \E t \in Tx :
                   /\ CreateTransaction(t)
                   /\ order' = [order EXCEPT ![t] = want[r]]
                   /\ On(r, t, None, IF direct[r] THEN "openIntent" ELSE "newPage")
    BY <1>1, <2>1, InsertStep DEF Insert
  <2>2. CASE Goto(r, "find") /\ UNCHANGED <<docs, order>>
    <3>1. Sane(r)'
      BY <1>1, <1>a, <2>2 DEF Insert, Sane, Goto, OnRow, TypeOK
    <3> QED
      BY <1>1, <1>a, <1>b, <2>2, <3>1, GotoMoves, RestKept, CalmStep
         DEF Insert, Steps, rows
  <2> QED
    BY <1>1, <2>1, <2>2 DEF Insert
<1>2. CASE Find(r)
  <2>1. ASSUME NEW t \in RowsOf(want[r]), On(r, t, None, "newPage")
        PROVE  CInv'
    <3>1. t \in Tx /\ Used(t) /\ order[t] = want[r]
      BY DEF RowsOf, Exists, Used
    <3>2. Sane(r)'
      BY <1>2, <1>a, <2>1, <3>1 DEF Find, Sane, On, Used, TypeOK, rows
    <3> QED
      BY <1>2, <1>a, <1>b, <2>1, <3>1, <3>2, OnMoves, RestKept, CalmStep DEF Find, Steps
  <2>2. CASE Done(r)
    BY <1>2, <1>b, <2>2, GivesUp DEF Find
  <2> QED
    BY <1>2, <2>1, <2>2 DEF Find
<1>3. CASE NewPage(r)
  <2>1. PICK p \in Page :
          pages' = [pages EXCEPT ![p] =
                      [state |-> "VALID", tx |-> target[r], order |-> want[r]]]
    BY <1>3 DEF NewPage
  <2>2. Used(target[r]) /\ want[r] \in Order /\ want[r] = order[target[r]]
    BY <1>3, <1>a DEF NewPage, Sane, OnRow, Steps
  <2>3. pages' \in [Page -> PageType \cup {NoPage}]
    BY <1>a, <2>1, <2>2 DEF TypeOK, PageType, Used
  <2>4. \A q \in Page : \/ pages'[q] = pages[q]
                        \/ pages'[q].tx = target[r] /\ pages'[q].order = want[r]
    BY <1>a, <2>1 DEF TypeOK
  <2>5. CalmRest
    BY <1>3, <1>a, <1>b, <2>2, <2>3, <2>4, NothingCalm
       DEF NewPage, CalmRest, TypeOK, rows, links, handed
  <2> QED
    BY <1>3, <1>a, <2>5, DoneMoves, CalmStep DEF NewPage
<1>4. CASE OpenIntent(r) \/ OpenSelected(r)
  <2> DEFINE t == target[r]
  <2>1. Used(t) /\ t \in Tx
    BY <1>4, <1>a DEF OpenIntent, OpenSelected, Sane, OnRow, Steps, Used
  <2>2. UNCHANGED <<rows, pages, handed>> /\ events' \in 0..MaxEvents
    BY <1>4, <1>b DEF OpenIntent, OpenSelected
  <2>3. Moves
    <3>1. CASE Done(r)
      BY <1>a, <3>1, DoneMoves
    <3>2. ASSUME NEW step \in {"deleteRow", "markFailed"}, Goto(r, step)
          PROVE  Moves
      <4>1. Sane(r)'
        BY <1>a, <2>1, <2>2, <3>2 DEF Sane, Goto, Used, TypeOK, rows
      <4> QED
        BY <1>a, <3>2, <4>1, GotoMoves DEF Steps
    <3>3. ASSUME NEW s \in Session, Returns(s, t), On(r, t, s, "attach")
          PROVE  Moves
      <4>1. Sane(r)'
        BY <1>a, <2>1, <2>2, <3>3 DEF Sane, On, Returns, Used, TypeOK, rows
      <4> QED
        BY <1>a, <2>1, <3>3, <4>1, OnMoves DEF Steps
    <3> QED
      BY <1>4, <3>1, <3>2, <3>3 DEF OpenIntent, OpenSelected
  <2>4. CASE UNCHANGED owner
    BY <2>2, <2>3, <2>4, RestKept, CalmStep DEF links, handed
  <2>5. CASE \E s \in Session : Returns(s, t)
    BY <2>1, <2>2, <2>3, <2>5, OpenStep
  <2> QED
    BY <1>4, <2>4, <2>5 DEF OpenIntent, OpenSelected
<1>5. CASE DeleteRow(r)
  <2>1. target[r] \in Tx
    BY <1>5, <1>a DEF DeleteRow, Sane, OnRow, Steps, Used
  <2>2. CalmRest
    BY <1>5, <1>a, <2>1, MarksCalm DEF DeleteRow, CalmRest, TypeOK, links, handed
  <2> QED
    BY <1>5, <1>a, <2>2, DoneMoves, CalmStep DEF DeleteRow
<1>6. CASE Attach(r)
  <2>1. CASE Goto(r, "compare") /\ UNCHANGED <<docs, url, sent, givenUp, overwritten>>
    <3>1. Sane(r)'
      BY <1>6, <1>a, <2>1 DEF Attach, Sane, Goto, OnRow, Steps, Used, TypeOK
    <3> QED
      BY <1>6, <1>a, <1>b, <2>1, <3>1, GotoMoves, RestKept, CalmStep
         DEF Attach, Steps, rows, links, handed
  <2> QED
    BY <1>6, <2>1, AttachStep DEF Attach
<1>7. CASE Compare(r)
  <2>1. target[r] \in Tx /\ session[r] \in Session
    BY <1>7, <1>a DEF Compare, Sane, OnRow, Steps, Used
  <2>2. CalmRest
    BY <1>7, <1>a, <2>1, NothingCalm DEF Compare, CalmRest, TypeOK, rows
  <2> QED
    BY <1>7, <1>a, <2>2, DoneMoves, CalmStep DEF Compare
<1>8. CASE CancelAtProvider(r) \/ UnselectAtProvider(r)
  <2>1. UNCHANGED <<rows, pages, links, events>>
    BY <1>8 DEF CancelAtProvider, UnselectAtProvider
  <2>2. CASE Done(r)
    BY <1>b, <2>1, <2>2, GivesUp
  <2>3. ASSUME NEW step \in {"markCanceled", "markExpired", "clear"}, Goto(r, step),
               step = "clear" => pc[r] = "unselect"
        PROVE  CInv'
    <3>1. Used(target[r])
      BY <1>8, <1>a DEF CancelAtProvider, UnselectAtProvider, Sane, OnRow, Steps
    <3>2. Sane(r)'
      BY <1>a, <2>1, <2>3, <3>1 DEF Sane, Goto, Used, TypeOK, rows
    <3> QED
      BY <1>a, <1>b, <2>1, <2>3, <3>2, GotoMoves, RestKept, CalmStep DEF Steps
  <2> QED
    BY <1>8, <2>2, <2>3 DEF CancelAtProvider, UnselectAtProvider
<1>9. CASE Clear(r)
  <2>1. CASE UNCHANGED <<docs, url, givenUp>>
    BY <1>9, <1>b, <2>1, GivesUp DEF Clear, rows, links, handed
  <2> QED
    BY <1>9, <2>1, ClearStep DEF Clear
<1>10. CASE Fails(r) \/ Cancels(r) \/ Expires(r)
  <2>1. target[r] \in Tx
    BY <1>10, <1>a DEF Fails, Cancels, Expires, Ends, Sane, OnRow, Steps, Used
  <2>2. \/ MarkFailed(target[r]) \/ MarkCanceledIfPending(target[r])
        \/ MarkExpiredIfPending(target[r])
    BY <1>10 DEF Fails, Cancels, Expires, Ends
  <2>3. Done(r) /\ UNCHANGED <<order, claimed, pages, links, events>>
    BY <1>10 DEF Fails, Cancels, Expires, Ends
  <2>4. CalmRest
    BY <1>a, <2>1, <2>2, <2>3, MarksCalm DEF CalmRest, TypeOK, links, handed
  <2> QED
    BY <1>a, <2>3, <2>4, DoneMoves, CalmStep
<1>11. CASE Abort(r)
  BY <1>11, <1>b, GivesUp DEF Abort
<1> QED
  BY <1>1, <1>2, <1>3, <1>4, <1>5, <1>6, <1>7, <1>8, <1>9, <1>10, <1>11 DEF Step

\* What happens from elsewhere keeps the invariant.
LEMMA ElsewhereNext ==
  ASSUME CInv, Elsewhere
  PROVE  CInv'
<1>a. TypeOK /\ StoreTypeOK
  BY DEF CInv, TypeOK
<1>b. events \in 0..MaxEvents /\ (Event \/ UNCHANGED events => events' \in 0..MaxEvents)
  BY <1>a, EventCounted DEF TypeOK
<1>1. ASSUME NEW t \in Tx, RowClaimed(t) PROVE CInv'
  BY <1>1, ClaimStep
<1>2. ASSUME NEW t \in Tx, RowSettles(t) \/ RowCloses(t) PROVE CInv'
  <2>1. Calm
    BY <1>2, <1>a, MarksCalm, ResetCalm DEF RowSettles, RowCloses, Exists
  <2>2. UNCHANGED <<order, claimed, pages, links, request>> /\ events' \in 0..MaxEvents
    BY <1>2, <1>b DEF RowSettles, RowCloses
  <2>3. CalmRest
    BY <1>a, <2>1, <2>2 DEF CalmRest, TypeOK, links, handed
  <2> QED
    BY <1>a, <2>2, <2>3, NoneMoves, CalmStep
<1>3. ASSUME NEW p \in Page, View(p) PROVE CInv'
  <2>1. Used(pages[p].tx)
    BY <1>3 DEF View, CInv, Linked, SanePages, SanePage
  <2>2. url[pages[p].tx] \in Session /\ pages[p].tx \in Tx
    BY <1>3, <1>a, <2>1 DEF View, TypeOK, Used
  <2>3. CalmRest
    BY <1>3, <1>a, <1>b, <2>2, NothingCalm DEF View, CalmRest, TypeOK, rows
  <2> QED
    BY <1>3, <1>a, <2>3, NoneMoves, CalmStep DEF View
<1>4. ASSUME NEW p \in Page, PageRunsOut(p) PROVE CInv'
  <2>1. PICK state \in {"EXPIRED", "GONE"} : pages' = [pages EXCEPT ![p].state = state]
    BY <1>4 DEF PageRunsOut
  <2>2. pages[p] # NoPage /\ pages[p] \in PageType
    BY <1>4, <1>a DEF PageRunsOut, TypeOK
  <2>3. pages' \in [Page -> PageType \cup {NoPage}]
    BY <1>a, <2>1, <2>2 DEF TypeOK, PageType
  <2>4. \A q \in Page : pages'[q] = pages[q] \/
          (q = p /\ pages'[q].tx = pages[q].tx /\ pages'[q].order = pages[q].order)
    BY <1>a, <2>1, <2>2 DEF TypeOK, PageType
  <2>5. CalmRest
    BY <1>4, <1>a, <1>b, <2>2, <2>3, <2>4, NothingCalm
       DEF PageRunsOut, CalmRest, TypeOK, rows, links, handed
  <2> QED
    BY <1>4, <1>a, <2>5, NoneMoves, CalmStep DEF PageRunsOut
<1>5. CASE Restart
  <2>1. \A q \in Page : pages[q] # NoPage =>
           /\ pages'[q] \in PageType
           /\ pages'[q].tx = pages[q].tx /\ pages'[q].order = pages[q].order
    BY <1>5, <1>a DEF Restart, TypeOK, PageType
  <2>2. \A q \in Page : pages[q] = NoPage => pages'[q] = NoPage
    BY <1>5 DEF Restart
  <2>3. pages' \in [Page -> PageType \cup {NoPage}]
    BY <1>5, <2>1, <2>2 DEF Restart
  <2>4. CalmRest
    BY <1>5, <1>a, <1>b, <2>1, <2>2, <2>3, NothingCalm
       DEF Restart, CalmRest, TypeOK, rows, links, handed
  <2>5. Moves
    BY <1>5 DEF Restart, AllIdle, Moves, Inserting, Steps
  <2> QED
    BY <1>5, <2>4, <2>5, CalmStep
<1>6. ASSUME NEW t \in Tx, NEW s \in Session, SyncWritesId(t, s) PROVE CInv'
  BY <1>6, SyncStep
<1> QED
  BY <1>1, <1>2, <1>3, <1>4, <1>5, <1>6 DEF Elsewhere

\* Every step keeps the invariant.
LEMMA NextCInv == CInv /\ [Next]_vars => CInv'
<1>1. ASSUME CInv, UNCHANGED vars PROVE CInv'
  <2>1. UNCHANGED <<rows, pages, links, request, events>>
    BY <1>1 DEF vars, rows, links, handed, request
  <2>2. CalmRest
    BY <1>1, <2>1, RestKept DEF CInv, TypeOK
  <2> QED
    BY <1>1, <2>1, <2>2, NoneMoves, CalmStep DEF CInv
<1>2. ASSUME CInv, Next PROVE CInv'
  BY <1>2, StartsNext, StepNext, ElsewhereNext DEF Next
<1> QED
  BY <1>1, <1>2

LEMMA SpecCInv == Spec => []CInv
  BY InitCInv, NextCInv, PTL DEF Spec

-----------------------------------------------------------------------------
\* The properties

\* The state of the checkout is well-typed: no request goes on with a row it
\* did not find, no page is made for one.
THEOREM CheckoutTypes == Spec => []TypeOK
<1>1. CInv => TypeOK
  BY DEF CInv
<1> QED
  BY <1>1, SpecCInv, PTL

\* At most one row per request that runs at the same time exceeds the limit of
\* a player's pending rows.
THEOREM PendingIsBounded == Spec => []PendingBound
<1>1. CInv => PendingBound
  <2> SUFFICES ASSUME CInv PROVE PendingBound
    OBVIOUS
  <2>1. IsFiniteSet(Waiting) /\ IsFiniteSet(Inserting)
    BY CheckoutAssumption, FS_Subset DEF Waiting, Inserting
  <2>2. /\ Cardinality(Waiting) \in Nat /\ Cardinality(Inserting) \in Nat
        /\ Cardinality(Requests) \in Nat
    BY <2>1, FS_CardinalityType, CheckoutAssumption
  <2> QED
    BY <2>2, CheckoutAssumption DEF CInv, Room, PendingBound
<1> QED
  BY <1>1, SpecCInv, PTL

\* A session a player was sent to is the one the row names, until it is given
\* up or paid, or a stale sync has written another id over it.
THEOREM SentStaysAttached == Spec => []SentIsAttached
<1>1. CInv => SentIsAttached
  BY DEF CInv, Linked
<1> QED
  BY <1>1, SpecCInv, PTL

\* The pages of one order lead to one payment.
THEOREM OrderIsPaidOnce == Spec => []OnePaymentPerOrder
<1>1. CInv => OnePaymentPerOrder
  <2> SUFFICES ASSUME CInv, NEW p \in Page, NEW q \in Page,
                      pages[p] # NoPage, pages[q] # NoPage,
                      pages[p].order = pages[q].order,
                      Exists(pages[p].tx), Exists(pages[q].tx)
               PROVE  pages[p].tx = pages[q].tx
    BY DEF OnePaymentPerOrder
  <2>1. /\ pages[p].tx \in Tx /\ pages[p].order = order[pages[p].tx]
        /\ pages[q].tx \in Tx /\ pages[q].order = order[pages[q].tx]
    BY DEF CInv, Linked, SanePages, SanePage, Used
  <2> QED
    BY <2>1 DEF CInv, Linked, OrdersUnique
<1> QED
  BY <1>1, SpecCInv, PTL

=============================================================================
