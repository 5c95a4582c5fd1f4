------------------------------ MODULE Listing ------------------------------
(***************************************************************************)
(* Listing transactions page by page: an admin who lists, an admin who     *)
(* syncs what a filter finds, and a player who syncs the own payments, one *)
(* pass over the pages at a time, on the DocumentDB store or on the one in *)
(* memory.  Rows are inserted, deleted and change their status between two *)
(* pages - not least because each row of a page is synced.                 *)
(***************************************************************************)
EXTENDS Integers, FiniteSets

CONSTANTS
    Kinds,        \* which stores: a subset of {"docdb", "memory"}
    InitialRows,  \* number of rows in the beginning
    LastID,       \* ids are 1..LastID, compared as the strings are (fresh UUIDs:
                  \* their order is not the order of creation)
    Sizes,        \* page sizes a client asks for
    DefaultSize, MaxSize,             \* of the stores, and of the admin's sync
    PublicDefaultSize, PublicMaxSize, \* of the player's sync (configuration)
    MaxEvents     \* bound on what happens to rows between pages

ASSUME ListingAssumption ==
    /\ Kinds \subseteq {"docdb", "memory"}
    /\ LastID \in Nat /\ InitialRows \in 0..LastID /\ MaxEvents \in Nat /\ Sizes \subseteq Int
    /\ DefaultSize \in Nat \ {0} /\ MaxSize \in Nat /\ DefaultSize <= MaxSize
    /\ PublicDefaultSize \in Nat \ {0} /\ PublicMaxSize \in Nat \ {0}

IDs == 1..LastID
NoCursor == 0

Calls == {"ListTransactions", "SyncTransactions", "SyncMyTransactions"}

VARIABLES
    kind,    \* the store in use
    rows,    \* ids of the rows
    created, \* created_at of every row that ever was, as its rank; 0 for other ids
    clock,   \* created_at of the newest row
    match,   \* the rows that match the filter of the pass
    call, asked, cursor, \* the pass: whose, page size asked for, cursor to send
    page,    \* rows of the current page that were not synced yet
    cooling, \* the cooldown of the player's sync is active
    pass,    \* "idle", "paging", "done"
    seen,    \* how often the pass has shown a row (0, 1 or more)
    always,  \* rows that were there and matched ever since the pass began
    lost,    \* the row of a cursor of the pass was deleted
    ordered, \* the ids were in the order of creation ever since the pass began
    events

client == <<call, asked, cursor, page, pass, seen>>
vars == <<kind, rows, created, clock, match, call, asked, cursor, page, cooling, pass,
          seen, always, lost, ordered, events>>

\* created_at decides the order of any two rows.
Distinct(times) ==
    \A i, j \in IDs : times[i] = times[j] /\ times[i] > 0 => i = j

TypeOK ==
    /\ kind \in Kinds
    /\ rows \subseteq {i \in IDs : created[i] > 0}
    /\ created \in [IDs -> 0..clock] /\ Distinct(created)
    /\ clock \in Nat
    /\ match \subseteq rows
    /\ call \in Calls
    /\ asked \in Sizes \cup {0}
    /\ cursor = NoCursor \/ cursor \in {i \in IDs : created[i] > 0}
    /\ page \subseteq {i \in IDs : seen[i] > 0} /\ (call = "ListTransactions" => page = {})
    /\ cooling \in BOOLEAN
    /\ pass \in {"idle", "paging", "done"}
    /\ seen \in [IDs -> 0..2]
    /\ always \subseteq match
    /\ lost \in BOOLEAN /\ ordered \in BOOLEAN
    /\ events \in 0..MaxEvents

\* Any rows, created in any order; no pass is running.
Init ==
    /\ kind \in Kinds
    /\ clock = InitialRows
    /\ created \in {f \in [IDs -> 0..clock] :
                       Distinct(f) /\ \A time \in 1..clock : \E i \in IDs : f[i] = time}
    /\ rows = {i \in IDs : created[i] > 0}
    /\ match \in SUBSET rows
    /\ call = "ListTransactions"
    /\ asked = 0
    /\ cursor = NoCursor
    /\ page = {}
    /\ cooling = FALSE
    /\ pass = "idle"
    /\ seen = [i \in IDs |-> 0]
    /\ always = {}
    /\ lost = FALSE
    /\ ordered = FALSE
    /\ events = 0

-----------------------------------------------------------------------------
\* ListTransactions of the stores

Clamped(size) == IF size <= 0 \/ size > MaxSize THEN DefaultSize ELSE size

\* DocumentDB filters by id and sorts by created_at.
\* Mutant: the row of the cursor is not left out.
Below_Equal(c) == {i \in match : c = NoCursor \/ i <= c}

Below(c) == {i \in match : c = NoCursor \/ i < c}

\* The store in memory skips rows, newest first, up to and with that of the
\* cursor, then filters; when that row is gone, nothing is left.
\* Mutants: it filters first; it does not skip the row of the cursor.
Behind_Filtered(c) ==
    {i \in match : c = NoCursor \/ (c \in match /\ created[i] < created[c])}
Behind_Again(c) ==
    {i \in match : c = NoCursor \/ (c \in rows /\ created[i] <= created[c])}

Behind(c) ==
    {i \in match : c = NoCursor \/ (c \in rows /\ created[i] < created[c])}

\* The first n of the found rows, newest first, and the last of these.
Newer(found, i) == {j \in found : created[j] > created[i]}

First(found, n) == {i \in found : Cardinality(Newer(found, i)) < n}

Oldest(found) == CHOOSE i \in found : \A j \in found : created[i] <= created[j]

\* The page and the cursor of the next one, if there are more rows.
ListTransactions(size, c) ==
    LET found == IF kind = "docdb" THEN Below(c) ELSE Behind(c)
        first == First(found, Clamped(size))
    IN  [rows |-> first,
         next |-> IF Cardinality(found) > Clamped(size) THEN Oldest(first) ELSE NoCursor]

-----------------------------------------------------------------------------
\* The services

\* What the services ask the store for.
PageSize ==
    CASE call = "ListTransactions" -> asked
      [] call = "SyncTransactions" ->
            IF asked <= 0 THEN DefaultSize ELSE IF asked > MaxSize THEN MaxSize ELSE asked
      [] call = "SyncMyTransactions" ->
            LET size == IF asked <= 0 THEN PublicDefaultSize ELSE asked
            IN  IF size > PublicMaxSize THEN PublicMaxSize ELSE size

\* The rows of a page that are synced.  Mutant: those of a listing are, too.
Synced_Listed(found) == found

Synced(found) == IF call = "ListTransactions" THEN {} ELSE found

\* The ids are in the order of creation.
InOrder(found) == \A i, j \in found : created[i] < created[j] => i < j

\* The client begins a pass on the first page.
Start(c, size) ==
    /\ pass = "idle"
    /\ call' = c /\ asked' = size
    /\ cursor' = NoCursor /\ page' = {} /\ pass' = "paging"
    /\ seen' = [i \in IDs |-> 0]
    /\ always' = match
    /\ lost' = FALSE
    /\ ordered' = InOrder(rows)
    /\ UNCHANGED <<kind, rows, created, clock, match, cooling, events>>

\* It has what it wanted.
Finish ==
    /\ pass = "done" /\ page = {}
    /\ call' = "ListTransactions" /\ asked' = 0
    /\ pass' = "idle"
    /\ seen' = [i \in IDs |-> 0]
    /\ always' = {}
    /\ lost' = FALSE /\ ordered' = FALSE
    /\ UNCHANGED <<kind, rows, created, clock, match, cursor, page, cooling, events>>

\* One call.  The player's is refused while the cooldown is active, and starts
\* it before it lists anything.
NextPage ==
    LET list == ListTransactions(PageSize, cursor) IN
    /\ pass = "paging" /\ page = {}
    /\ call = "SyncMyTransactions" => ~cooling
    /\ cooling' = (call = "SyncMyTransactions" \/ cooling)
    /\ page' = Synced(list.rows)
    /\ seen' = [i \in IDs |-> IF i \in list.rows /\ seen[i] < 2
                              THEN seen[i] + 1 ELSE seen[i]]
    /\ cursor' = list.next
    /\ pass' = IF list.next = NoCursor THEN "done" ELSE "paging"
    /\ UNCHANGED <<kind, rows, created, clock, match, call, asked, always, lost, ordered,
                   events>>

\* The rows of a page are synced one after the other; each may leave the filter
\* (what a sync does to a row is in PaymentLifecycle and Refund).
SyncRow ==
    \E i \in page :
        /\ Newer(page, i) = {}
        /\ page' = page \ {i}
        /\ \/ UNCHANGED <<match, always>>
           \/ match' = match \ {i} /\ always' = always \ {i}
        /\ UNCHANGED <<kind, rows, created, clock, call, asked, cursor, cooling, pass, seen,
                       lost, ordered, events>>

CoolsDown ==
    /\ cooling
    /\ cooling' = FALSE
    /\ UNCHANGED <<kind, rows, created, clock, match, client, always, lost, ordered,
                   events>>

-----------------------------------------------------------------------------
\* What happens between two calls

Event == events < MaxEvents /\ events' = events + 1

RowInserted(i) ==
    /\ created[i] = 0
    /\ rows' = rows \cup {i}
    /\ clock' = clock + 1
    /\ created' = [created EXCEPT ![i] = clock + 1]
    /\ match' = match \cup {i} \/ match' = match
    /\ ordered' = (ordered /\ \A j \in rows : i > j)
    /\ Event
    /\ UNCHANGED <<kind, client, cooling, always, lost>>

RowDeleted(i) ==
    /\ i \in rows
    /\ rows' = rows \ {i}
    /\ match' = match \ {i}
    /\ always' = always \ {i}
    /\ lost' = (lost \/ i = cursor)
    /\ Event
    /\ UNCHANGED <<kind, created, clock, client, cooling, ordered>>

RowChanges(i) ==
    /\ i \in rows
    /\ match' = IF i \in match THEN match \ {i} ELSE match \cup {i}
    /\ always' = always \ {i}
    /\ Event
    /\ UNCHANGED <<kind, rows, created, clock, client, cooling, lost, ordered>>

\* The player syncs from elsewhere.
OtherSync ==
    /\ ~cooling
    /\ cooling' = TRUE
    /\ Event
    /\ UNCHANGED <<kind, rows, created, clock, match, client, always, lost, ordered>>

Next ==
    \/ \E c \in Calls, size \in Sizes : Start(c, size)
    \/ Finish \/ NextPage \/ SyncRow \/ CoolsDown \/ OtherSync
    \/ \E i \in IDs : RowInserted(i) \/ RowDeleted(i) \/ RowChanges(i)

\* A client that began goes on; a cooldown ends.
Fairness == WF_vars(NextPage) /\ WF_vars(SyncRow) /\ WF_vars(CoolsDown)

Spec == Init /\ [][Next]_vars /\ Fairness

-----------------------------------------------------------------------------
\* Properties

\* A pass over the pages ends: no cursor leads back to its own page, whatever
\* is inserted, deleted or synced meanwhile.
PassEnds == (pass = "paging") ~> (pass = "done")

\* The next cursor of a pass is strictly behind the last one - which is why it
\* ends: in memory it is older, on DocumentDB its id is smaller.
CursorMovesOn ==
    [][NextPage /\ cursor # NoCursor =>
        cursor' = NoCursor \/ (IF kind = "memory" THEN created[cursor'] < created[cursor]
                                                  ELSE cursor' < cursor)]_vars

\* A pass shows every row that was there all the time, although syncing a page
\* changes what matches the filter: in memory unless the row of a cursor is
\* deleted, on DocumentDB if the ids happen to be in order.
PassComplete ==
    pass = "done" /\ (IF kind = "memory" THEN ~lost ELSE ordered)
        => \A i \in always : seen[i] > 0

\* It shows no row twice, so that none is synced twice: in memory always, on
\* DocumentDB if the ids happen to be in order.
ShownOnce ==
    (kind = "memory" \/ ordered) => \A i \in IDs : seen[i] < 2

\* What "Cursor-based pagination" promises of either store.
EveryRowListed == pass = "done" /\ ~lost => \A i \in always : seen[i] > 0
=============================================================================
