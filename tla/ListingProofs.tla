--------------------------- MODULE ListingProofs ---------------------------
(***************************************************************************)
(* The safety properties of Listing hold for every number of rows, every   *)
(* page size, both stores, and however many rows are inserted, deleted or  *)
(* changed between two pages: each step preserves the inductive invariant  *)
(* LInv, and the next cursor of a pass is strictly behind the last one.    *)
(***************************************************************************)
EXTENDS Listing, FiniteSetTheorems, TLAPS

\* Row i is still to come: it is behind the cursor in the order of the pages.
Left(i) ==
    cursor = NoCursor \/ (IF kind = "memory" THEN created[i] < created[cursor] ELSE i < cursor)

\* The pages come in an order that the cursor stands for.
Steady == kind = "memory" \/ ordered

\* The pass can still show everything.
Intact == IF kind = "memory" THEN ~lost ELSE ordered

\* A cursor belongs to a pass that runs; what was shown was there; ordered is
\* what it says.
Coherent ==
    /\ pass # "paging" => cursor = NoCursor
    /\ pass = "idle" => \A i \in IDs : seen[i] = 0
    /\ \A i \in IDs : seen[i] > 0 => created[i] > 0
    /\ ordered => InOrder(rows)
    /\ ~lost => cursor = NoCursor \/ cursor \in rows

\* What was shown is no longer to come, and was shown once.
NoneAgain ==
    Steady => \A i \in IDs :
        seen[i] < 2 /\ (pass = "paging" /\ seen[i] > 0 => cursor # NoCursor /\ ~Left(i))

\* What was there all the time was shown or is still to come.
NoneSkipped ==
    Intact /\ pass # "idle" =>
        \A i \in always : seen[i] > 0 \/ (pass = "paging" /\ Left(i))

LInv == TypeOK /\ Coherent /\ NoneAgain /\ NoneSkipped

-----------------------------------------------------------------------------
\* A page of rows

\* A finite set that is not empty has an element with the least value.
LEMMA HasLeast ==
  ASSUME NEW S, IsFiniteSet(S), S # {}, NEW f, \A i \in S : f[i] \in Int
  PROVE  \E i \in S : \A j \in S : f[i] <= f[j]
<1> DEFINE less(i) == {j \in S : f[j] < f[i]}
           all == {less(i) : i \in S}
           order == StrictSubsetOrdering(S)
<1>1. all \subseteq SUBSET S /\ all # {}
  OBVIOUS
<1>2. IsWellFoundedOn(order, SUBSET S)
  BY FS_FiniteSubsetsOfFinite, FS_StrictSubsetOrderingWellFounded
<1>3. \E T \in all : \A U \in all : ~(<<U, T>> \in order)
  <2> HIDE DEF all, order
  <2> QED
    BY <1>1, <1>2, WFMin
<1>4. PICK i \in S : \A j \in S : ~(<<less(j), less(i)>> \in order)
  BY <1>3
<1>5. ASSUME NEW j \in S, ~(f[i] <= f[j]) PROVE FALSE
  <2>1. less(j) \in SUBSET S /\ less(i) \in SUBSET S /\ less(j) \subseteq less(i)
    BY <1>5
  <2>2. j \in less(i) /\ j \notin less(j)
    BY <1>5
  <2> QED
    BY <1>4, <2>1, <2>2 DEF StrictSubsetOrdering
<1> QED
  BY <1>5

\* Rows are finitely many.
LEMMA FiniteRows ==
  ASSUME NEW found \in SUBSET IDs
  PROVE  IsFiniteSet(found) /\ Cardinality(found) \in Nat
<1>1. IsFiniteSet(IDs)
  BY FS_Interval, ListingAssumption DEF IDs
<1> QED
  BY <1>1, FS_Subset, FS_CardinalityType

\* Of found rows, the first n are newer than the others, all of them if there
\* are no more than n, and at least one if there is one.
LEMMA FirstRows ==
  ASSUME NEW found \in SUBSET IDs, NEW n \in Nat \ {0}, \A i \in found : created[i] \in Nat
  PROVE  /\ First(found, n) \subseteq found
         /\ \A i \in First(found, n), j \in found \ First(found, n) : created[j] < created[i]
         /\ Cardinality(found) <= n => First(found, n) = found
         /\ found # {} => First(found, n) # {}
<1> DEFINE first == First(found, n)
<1>1. \A i \in found : Newer(found, i) \in SUBSET found /\ i \notin Newer(found, i)
  BY DEF Newer
<1>2. \A i \in found : IsFiniteSet(Newer(found, i)) /\ Cardinality(Newer(found, i)) \in Nat
  BY <1>1, FiniteRows
<1>3. ASSUME NEW i \in first, NEW j \in found \ first PROVE created[j] < created[i]
  <2>1. i \in found /\ Cardinality(Newer(found, i)) < n
    BY DEF First
  <2>2. ~(Cardinality(Newer(found, j)) < n)
    BY DEF First
  <2>3. CASE created[j] >= created[i]
    <3>1. Newer(found, j) \in SUBSET Newer(found, i)
      BY <2>1, <2>3 DEF Newer
    <3>2. Cardinality(Newer(found, j)) <= Cardinality(Newer(found, i))
      BY <1>2, <2>1, <3>1, FS_Subset
    <3> QED
      BY <1>2, <2>1, <2>2, <3>2
  <2> QED
    BY <2>1, <2>3
<1>4. ASSUME Cardinality(found) <= n, NEW i \in found PROVE i \in first
  <2>1. Cardinality(Newer(found, i)) <= Cardinality(found)
        /\ Cardinality(Newer(found, i)) # Cardinality(found)
    BY <1>1, FiniteRows, FS_Subset
  <2>2. Cardinality(Newer(found, i)) < n
    BY <1>2, <1>4, <2>1, FiniteRows
  <2> QED
    BY <2>2 DEF First
<1>5. ASSUME found # {} PROVE first # {}
  <2> DEFINE age == [i \in found |-> 0 - created[i]]
  <2>1. \A i \in found : age[i] \in Int
    OBVIOUS
  <2>2. PICK i \in found : \A j \in found : age[i] <= age[j]
    <3> HIDE DEF age
    <3> QED
      BY <1>5, <2>1, FiniteRows, HasLeast
  <2>3. Newer(found, i) = {}
    BY <2>2 DEF Newer
  <2> QED
    BY <2>3, FS_EmptySet DEF First
<1>6. first \subseteq found
  BY DEF First
<1> QED
  BY <1>3, <1>4, <1>5, <1>6

\* The oldest row is one.
LEMMA OldestRow ==
  ASSUME NEW found \in SUBSET IDs, found # {}, \A i \in found : created[i] \in Nat
  PROVE  Oldest(found) \in found /\ \A j \in found : created[Oldest(found)] <= created[j]
<1>1. \E i \in found : \A j \in found : created[i] <= created[j]
  BY FiniteRows, HasLeast
<1> QED
  BY <1>1 DEF Oldest

\* What the store finds behind the cursor.
Found == IF kind = "docdb" THEN Below(cursor) ELSE Behind(cursor)

LEMMA FoundRows ==
  ASSUME TypeOK
  PROVE  /\ Found \subseteq {i \in match : Left(i)}
         /\ kind = "docdb" \/ cursor = NoCursor \/ cursor \in rows
                => Found = {i \in match : Left(i)}
         /\ Found \in SUBSET IDs
         /\ \A i \in Found : created[i] \in Nat
<1>1. /\ kind \in {"docdb", "memory"} /\ match \subseteq IDs
      /\ \A i \in IDs : created[i] \in Nat
  BY ListingAssumption DEF TypeOK
<1>2. CASE kind = "docdb"
  BY <1>1, <1>2 DEF Found, Below, Left
<1>3. CASE kind = "memory"
  BY <1>1, <1>3 DEF Found, Behind, Left
<1> QED
  BY <1>1, <1>2, <1>3

\* A page shows all that is found, or the newest rows of it, down to that of
\* the next cursor.
LEMMA OnePage ==
  ASSUME TypeOK, NEW list, list = ListTransactions(PageSize, cursor)
  PROVE  /\ list.rows \subseteq Found
         /\ list.next = NoCursor => list.rows = Found
         /\ list.next # NoCursor =>
              /\ list.next \in list.rows
              /\ \A i \in list.rows : created[list.next] <= created[i]
              /\ \A i \in Found \ list.rows : created[i] < created[list.next]
<1> DEFINE n == Clamped(PageSize)
<1>1. n \in Nat \ {0}
  <2>1. PageSize \in Int
    BY ListingAssumption DEF TypeOK, PageSize, Calls
  <2> QED
    BY <2>1, ListingAssumption DEF Clamped
<1>2. list = [rows |-> First(Found, n),
              next |-> IF Cardinality(Found) > n THEN Oldest(First(Found, n)) ELSE NoCursor]
  BY DEF ListTransactions, Found
<1>3. Found \in SUBSET IDs /\ \A i \in Found : created[i] \in Nat
  BY FoundRows
<1> HIDE DEF n
<1>4. /\ First(Found, n) \subseteq Found
      /\ \A i \in First(Found, n), j \in Found \ First(Found, n) : created[j] < created[i]
      /\ Cardinality(Found) <= n => First(Found, n) = Found
      /\ Found # {} => First(Found, n) # {}
  BY <1>1, <1>3, FirstRows
<1>5. Cardinality(Found) \in Nat /\ (Cardinality(Found) = 0 <=> Found = {})
  BY <1>3, FiniteRows, FS_EmptySet
<1>6. CASE Cardinality(Found) > n
  <2>1. First(Found, n) # {} /\ First(Found, n) \in SUBSET IDs
    BY <1>1, <1>3, <1>4, <1>5, <1>6
  <2>2. Oldest(First(Found, n)) \in First(Found, n)
        /\ \A j \in First(Found, n) : created[Oldest(First(Found, n))] <= created[j]
    BY <1>3, <1>4, <2>1, OldestRow
  <2>3. NoCursor \notin IDs
    BY ListingAssumption DEF NoCursor, IDs
  <2> QED
    BY <1>2, <1>4, <1>6, <2>1, <2>2, <2>3
<1>7. CASE Cardinality(Found) <= n
  BY <1>1, <1>2, <1>4, <1>5, <1>7
<1> QED
  BY <1>1, <1>5, <1>6, <1>7

-----------------------------------------------------------------------------
\* Each step preserves the invariant

LEMMA ListingInit == Init => LInv
<1> SUFFICES ASSUME Init PROVE LInv
  OBVIOUS
<1>1. clock \in Nat /\ created \in [IDs -> 0..clock] /\ Distinct(created)
      /\ rows = {i \in IDs : created[i] > 0} /\ match \subseteq rows
  BY ListingAssumption DEF Init
<1>2. TypeOK
  <2>1. events \in 0..MaxEvents /\ seen \in [IDs -> 0..2]
    BY ListingAssumption DEF Init
  <2> QED
    BY <1>1, <2>1 DEF Init, TypeOK, Calls
<1>3. Coherent /\ NoneAgain /\ NoneSkipped
  BY DEF Init, Coherent, NoneAgain, NoneSkipped
<1> QED
  BY <1>2, <1>3 DEF LInv

LEMMA StartStep ==
  ASSUME LInv, NEW c \in Calls, NEW size \in Sizes, Start(c, size)
  PROVE  LInv'
<1>1. TypeOK'
  <2>1. seen' \in [IDs -> 0..2] /\ page' = {} /\ cursor' = NoCursor
    BY DEF Start
  <2>2. ordered' \in BOOLEAN /\ lost' \in BOOLEAN
    BY ZenonT(30) DEF Start, InOrder
  <2>3. call' \in Calls /\ asked' \in Sizes \cup {0} /\ pass' = "paging" /\ always' = match
    BY DEF Start
  <2>4. UNCHANGED <<kind, rows, created, clock, match, cooling, events>>
    BY DEF Start
  <2> QED
    BY <2>1, <2>2, <2>3, <2>4 DEF LInv, TypeOK
<1>2. Coherent'
  BY DEF LInv, Coherent, Start, InOrder
<1>3. NoneAgain' /\ NoneSkipped'
  BY DEF LInv, NoneAgain, NoneSkipped, Left, Start
<1> QED
  BY <1>1, <1>2, <1>3 DEF LInv

LEMMA FinishStep ==
  ASSUME LInv, Finish
  PROVE  LInv'
<1>1. TypeOK'
  <2>1. seen' \in [IDs -> 0..2] /\ page' = {} /\ call' \in Calls
    BY DEF Finish, Calls
  <2> QED
    BY <2>1 DEF LInv, TypeOK, Finish
<1>2. Coherent'
  BY DEF LInv, Coherent, Finish, InOrder
<1>3. NoneAgain' /\ NoneSkipped'
  BY DEF LInv, NoneAgain, NoneSkipped, Finish
<1> QED
  BY <1>1, <1>2, <1>3 DEF LInv

LEMMA NextPageStep ==
  ASSUME LInv, NextPage
  PROVE  LInv'
<1> DEFINE list == ListTransactions(PageSize, cursor)
<1>1. PICK p : p = list
  OBVIOUS
<1>2. /\ pass = "paging" /\ page = {}
      /\ cooling' = (call = "SyncMyTransactions" \/ cooling)
      /\ page' = Synced(p.rows)
      /\ seen' = [i \in IDs |-> IF i \in p.rows /\ seen[i] < 2
                                THEN seen[i] + 1 ELSE seen[i]]
      /\ cursor' = p.next
      /\ pass' = IF p.next = NoCursor THEN "done" ELSE "paging"
      /\ UNCHANGED <<kind, rows, created, clock, match, call, asked, always, lost, ordered,
                     events>>
  BY <1>1 DEF NextPage
<1>3. /\ p.rows \subseteq Found
      /\ p.next = NoCursor => p.rows = Found
      /\ p.next # NoCursor =>
           /\ p.next \in p.rows
           /\ \A i \in p.rows : created[p.next] <= created[i]
           /\ \A i \in Found \ p.rows : created[i] < created[p.next]
  BY <1>1, OnePage DEF LInv
<1>4. /\ Found \subseteq {i \in match : Left(i)}
      /\ kind = "docdb" \/ cursor = NoCursor \/ cursor \in rows
             => Found = {i \in match : Left(i)}
      /\ Found \in SUBSET IDs
      /\ \A i \in Found : created[i] \in Nat
  BY FoundRows DEF LInv
<1>5. TypeOK /\ Coherent /\ NoneAgain /\ NoneSkipped
  BY DEF LInv
<1>6. /\ match \subseteq rows /\ rows \subseteq IDs /\ always \subseteq match
      /\ seen \in [IDs -> 0..2] /\ created \in [IDs -> Nat] /\ Distinct(created)
      /\ \A i \in rows : created[i] > 0
      /\ kind \in {"docdb", "memory"}
  BY <1>5, ListingAssumption DEF TypeOK
<1>7. seen' \in [IDs -> 0..2] /\ \A i \in IDs : seen'[i] > 0 <=> seen[i] > 0 \/ i \in p.rows
  BY <1>2, <1>6
<1>8. TypeOK'
  <2>1. p.rows \subseteq {i \in IDs : seen'[i] > 0}
    BY <1>3, <1>4, <1>7
  <2>2. page' \subseteq {i \in IDs : seen'[i] > 0} /\ (call = "ListTransactions" => page' = {})
    BY <1>2, <2>1 DEF Synced
  <2>3. cursor' = NoCursor \/ cursor' \in {i \in IDs : created[i] > 0}
    BY <1>2, <1>3, <1>4, <1>6
  <2> QED
    BY <1>2, <1>5, <1>7, <2>2, <2>3 DEF TypeOK
<1>9. Coherent'
  <2>1. \A i \in IDs : seen'[i] > 0 => created[i] > 0
    BY <1>3, <1>4, <1>5, <1>6, <1>7 DEF Coherent
  <2>2. cursor' = NoCursor \/ cursor' \in rows
    BY <1>2, <1>3, <1>4, <1>6
  <2>3. ordered' => InOrder(rows)'
    BY <1>2, <1>5 DEF Coherent, InOrder
  <2> QED
    BY <1>2, <2>1, <2>2, <2>3 DEF Coherent
\* Behind the next cursor is what is found and not on the page.
<1>10. ASSUME Steady, p.next # NoCursor
       PROVE  /\ \A i \in p.rows : ~Left(i)'
              /\ \A i \in Found \ p.rows : Left(i)'
              /\ \A i \in IDs : Left(i)' => Left(i)
  <2>0. PICK c : c = p.next
    OBVIOUS
  <2>1. /\ c \in Found /\ Left(c) /\ c \in rows /\ c \in IDs
        /\ cursor' = c /\ c # NoCursor
        /\ \A i \in p.rows : created[c] <= created[i]
        /\ \A i \in Found \ p.rows : created[i] < created[c]
    BY <1>2, <1>3, <1>4, <1>6, <1>10, <2>0
  <2>2. CASE kind = "memory"
    <3>1. \A i \in IDs : Left(i)' <=> created[i] < created[c]
      BY <1>2, <2>1, <2>2 DEF Left
    <3>2. \A i \in IDs : created[i] \in Nat
      BY <1>6
    <3>3. cursor = NoCursor \/ (created[c] < created[cursor] /\ created[cursor] \in Nat)
      BY <1>5, <2>1, <2>2, <3>2 DEF Left, TypeOK
    <3>4. \A i \in IDs : created[i] < created[c] => Left(i)
      BY <2>1, <2>2, <3>2, <3>3 DEF Left
    <3>5. \A i \in p.rows : ~(created[i] < created[c])
      BY <1>3, <1>4, <2>1, <3>2
    <3>6. p.rows \subseteq IDs /\ Found \subseteq IDs
      BY <1>3, <1>4
    <3> QED
      BY <2>1, <3>1, <3>4, <3>5, <3>6
  <2>3. CASE kind = "docdb"
    <3>1. \A i \in IDs : Left(i)' <=> i < c
      BY <1>2, <2>1, <2>3 DEF Left
    <3>2. InOrder(rows) /\ rows \subseteq Int /\ IDs \subseteq Int /\ c \in Int
      BY <1>5, <1>6, <1>10, <2>1, <2>3 DEF Steady, Coherent, IDs
    <3>3. ASSUME NEW i \in p.rows PROVE ~(i < c)
      <4>1. i \in rows /\ i \in IDs /\ created[c] <= created[i] /\ created[i] > 0
        BY <1>3, <1>4, <1>6, <2>1
      <4>2. CASE created[c] = created[i]
        <5>1. i = c
          BY <1>6, <2>1, <4>1, <4>2 DEF Distinct
        <5> QED
          BY <3>2, <5>1
      <4>3. CASE created[c] < created[i]
        <5>1. c < i
          BY <2>1, <3>2, <4>1, <4>3 DEF InOrder
        <5> QED
          BY <3>2, <4>1, <5>1
      <4> QED
        BY <1>6, <2>1, <4>1, <4>2, <4>3
    <3>4. \A i \in Found \ p.rows : i < c
      BY <1>4, <1>6, <2>1, <3>2 DEF InOrder
    <3>5. \A i \in IDs : i < c => Left(i)
      <4>1. cursor = NoCursor \/ (c < cursor /\ cursor \in Int)
        BY <1>5, <2>1, <2>3, <3>2 DEF Left, TypeOK
      <4>2. c \in Int /\ \A i \in IDs : i \in Int
        BY <2>1, <3>2
      <4>3. \A i \in IDs : i < c => cursor = NoCursor \/ i < cursor
        BY <4>1, <4>2
      <4> QED
        BY <2>3, <4>3 DEF Left
    <3>6. p.rows \subseteq IDs /\ Found \subseteq IDs
      BY <1>3, <1>4
    <3> QED
      BY <3>1, <3>3, <3>4, <3>5, <3>6
  <2> QED
    BY <1>6, <2>2, <2>3
<1>11. NoneAgain'
  <2> SUFFICES ASSUME Steady, NEW i \in IDs
               PROVE  seen'[i] < 2
                      /\ (pass' = "paging" /\ seen'[i] > 0 => cursor' # NoCursor /\ ~Left(i)')
    BY <1>2 DEF NoneAgain, Steady
  <2>1. seen[i] < 2 /\ (seen[i] > 0 => ~Left(i))
    BY <1>2, <1>5 DEF NoneAgain
  <2>2. i \in p.rows => Left(i) /\ seen[i] = 0
    BY <1>3, <1>4, <1>6, <2>1
  <2>3. seen'[i] < 2
    BY <1>2, <1>6, <2>1, <2>2
  <2>4. ASSUME pass' = "paging", seen'[i] > 0 PROVE cursor' # NoCursor /\ ~Left(i)'
    <3>1. p.next # NoCursor
      BY <1>2, <2>4
    <3>2. seen[i] > 0 \/ i \in p.rows
      BY <1>7, <2>4
    <3> QED
      BY <1>2, <1>10, <2>1, <3>1, <3>2
  <2> QED
    BY <2>3, <2>4
<1>12. NoneSkipped'
  <2> SUFFICES ASSUME Intact, NEW i \in always
               PROVE  seen'[i] > 0 \/ (pass' = "paging" /\ Left(i)')
    BY <1>2 DEF NoneSkipped, Intact
  <2>1. i \in IDs /\ i \in match /\ Steady
    BY <1>6 DEF Intact, Steady
  <2>2. kind = "docdb" \/ cursor = NoCursor \/ cursor \in rows
    BY <1>5, <1>6 DEF Intact, Coherent
  <2>3. seen[i] > 0 \/ i \in Found
    BY <1>2, <1>4, <1>5, <2>1, <2>2 DEF NoneSkipped
  <2>4. CASE p.next = NoCursor
    BY <1>3, <1>7, <2>1, <2>3, <2>4
  <2>5. CASE p.next # NoCursor
    BY <1>2, <1>7, <1>10, <2>1, <2>3, <2>5
  <2> QED
    BY <2>4, <2>5
<1> QED
  BY <1>8, <1>9, <1>11, <1>12 DEF LInv

\* A step after which the rows are the same and fewer have to be shown.
LEMMA SameRows ==
  ASSUME LInv, TypeOK', always' \subseteq always,
         UNCHANGED <<kind, rows, created, cursor, pass, seen, lost, ordered>>
  PROVE  LInv'
<1>1. Coherent'
  BY DEF LInv, Coherent, InOrder
<1>2. \A i : Left(i)' <=> Left(i)
  BY DEF Left
<1>3. NoneAgain' /\ NoneSkipped'
  BY <1>2 DEF LInv, NoneAgain, NoneSkipped, Steady, Intact
<1> QED
  BY <1>1, <1>3 DEF LInv

LEMMA SyncRowStep ==
  ASSUME LInv, SyncRow
  PROVE  LInv'
<1>1. TypeOK' /\ always' \subseteq always
  BY DEF LInv, TypeOK, SyncRow
<1>2. UNCHANGED <<kind, rows, created, cursor, pass, seen, lost, ordered>>
  BY DEF SyncRow
<1> QED
  BY <1>1, <1>2, SameRows

LEMMA CoolingStep ==
  ASSUME LInv, CoolsDown \/ OtherSync
  PROVE  LInv'
<1>1. TypeOK' /\ always' \subseteq always
  <2>1. cooling' \in BOOLEAN
    BY DEF CoolsDown, OtherSync
  <2>2. events' \in 0..MaxEvents
    BY ListingAssumption DEF LInv, TypeOK, CoolsDown, OtherSync, Event
  <2>3. UNCHANGED <<kind, rows, created, clock, match, client, always, lost, ordered>>
    BY DEF CoolsDown, OtherSync
  <2> QED
    BY <2>1, <2>2, <2>3 DEF LInv, TypeOK, client
<1>2. UNCHANGED <<kind, rows, created, cursor, pass, seen, lost, ordered>>
  BY DEF CoolsDown, OtherSync, client
<1> QED
  BY <1>1, <1>2, SameRows

LEMMA RowChangesStep ==
  ASSUME LInv, NEW i \in IDs, RowChanges(i)
  PROVE  LInv'
<1>1. TypeOK' /\ always' \subseteq always
  BY ListingAssumption DEF LInv, TypeOK, RowChanges, Event, client
<1>2. UNCHANGED <<kind, rows, created, cursor, pass, seen, lost, ordered>>
  BY DEF RowChanges, client
<1> QED
  BY <1>1, <1>2, SameRows

LEMMA RowDeletedStep ==
  ASSUME LInv, NEW i \in IDs, RowDeleted(i)
  PROVE  LInv'
<1>1. TypeOK'
  BY ListingAssumption DEF LInv, TypeOK, RowDeleted, Event, client
<1>2. Coherent'
  BY DEF LInv, Coherent, InOrder, RowDeleted, client
<1>3. \A j : Left(j)' <=> Left(j)
  BY DEF Left, RowDeleted, client
<1>4. NoneAgain' /\ NoneSkipped'
  BY <1>3 DEF LInv, NoneAgain, NoneSkipped, Steady, Intact, RowDeleted, client
<1> QED
  BY <1>1, <1>2, <1>4 DEF LInv

LEMMA RowInsertedStep ==
  ASSUME LInv, NEW i \in IDs, RowInserted(i)
  PROVE  LInv'
<1>1. /\ clock \in Nat /\ created \in [IDs -> 0..clock] /\ Distinct(created)
      /\ created[i] = 0 /\ clock' = clock + 1
      /\ created' = [created EXCEPT ![i] = clock + 1]
      /\ rows' = rows \cup {i} /\ i \notin rows /\ rows \subseteq IDs
      /\ \A j \in rows : created[j] > 0
  BY DEF LInv, TypeOK, RowInserted
<1>2. /\ created' \in [IDs -> 0..clock'] /\ clock' \in Nat
      /\ \A j \in IDs : created[j] > 0 => created'[j] = created[j] /\ j # i
      /\ created'[i] > 0
  BY <1>1
<1>3. Distinct(created')
  BY <1>1 DEF Distinct
<1>4. TypeOK'
  <2>1. rows' \subseteq {j \in IDs : created'[j] > 0}
    BY <1>1, <1>2
  <2>2. cursor' = NoCursor \/ cursor' \in {j \in IDs : created'[j] > 0}
    BY <1>2 DEF LInv, TypeOK, RowInserted, client
  <2>3. match' \subseteq rows' /\ always' \subseteq match' /\ events' \in 0..MaxEvents
    BY <1>1, ListingAssumption DEF LInv, TypeOK, RowInserted, Event, client
  <2>4. ordered' \in BOOLEAN
    BY DEF LInv, TypeOK, RowInserted
  <2> QED
    BY <1>2, <1>3, <2>1, <2>2, <2>3, <2>4 DEF LInv, TypeOK, RowInserted, client
<1>5. Coherent'
  <2>1. ordered' => InOrder(rows)'
    <3> SUFFICES ASSUME ordered', NEW j \in rows', NEW k \in rows', created'[j] < created'[k]
                 PROVE  j < k
      BY DEF InOrder
    <3>1. ordered /\ InOrder(rows) /\ \A l \in rows : i > l
      BY DEF LInv, Coherent, RowInserted
    <3>2. CASE j \in rows /\ k \in rows
      BY <1>1, <1>2, <3>1, <3>2 DEF InOrder
    <3>3. CASE j \in rows /\ k = i
      BY <3>1, <3>3, <1>1 DEF IDs
    <3>4. CASE j = i
      <4>1. created'[j] = clock + 1 /\ created'[k] <= clock + 1
        BY <1>1, <3>4
      <4>2. created'[k] \in Int
        BY <1>1
      <4> QED
        BY <1>1, <4>1, <4>2
    <3> QED
      BY <1>1, <3>2, <3>3, <3>4
  <2>2. \A j \in IDs : seen'[j] > 0 => created'[j] > 0
    BY <1>2 DEF LInv, Coherent, RowInserted, client
  <2> QED
    BY <1>1, <2>1, <2>2 DEF LInv, Coherent, RowInserted, client
<1>6. \A j \in IDs : created[j] > 0 => (Left(j)' <=> Left(j))
  <2>1. cursor = NoCursor \/ (cursor \in IDs /\ created[cursor] > 0)
    BY DEF LInv, TypeOK
  <2>2. cursor' = cursor /\ kind' = kind
    BY DEF RowInserted, client
  <2> QED
    BY <1>2, <2>1, <2>2 DEF Left
<1>7. NoneAgain'
  <2>1. Steady' => Steady
    BY DEF Steady, RowInserted
  <2>2. \A j \in IDs : seen[j] > 0 => created[j] > 0
    BY DEF LInv, Coherent
  <2>3. seen' = seen /\ pass' = pass /\ cursor' = cursor
    BY DEF RowInserted, client
  <2> QED
    BY <1>6, <2>1, <2>2, <2>3 DEF LInv, NoneAgain
<1>8. NoneSkipped'
  <2>1. Intact' => Intact
    BY DEF Intact, RowInserted
  <2>2. always \subseteq rows
    BY DEF LInv, TypeOK
  <2>3. seen' = seen /\ pass' = pass /\ always' = always
    BY DEF RowInserted, client
  <2> QED
    BY <1>1, <1>6, <2>1, <2>2, <2>3 DEF LInv, NoneSkipped
<1> QED
  BY <1>4, <1>5, <1>7, <1>8 DEF LInv

LEMMA ListingNext == LInv /\ [Next]_vars => LInv'
<1> SUFFICES ASSUME LInv, [Next]_vars PROVE LInv'
  OBVIOUS
<1>1. CASE \E c \in Calls, size \in Sizes : Start(c, size)
  BY <1>1, StartStep
<1>2. CASE Finish
  BY <1>2, FinishStep
<1>3. CASE NextPage
  BY <1>3, NextPageStep
<1>4. CASE SyncRow
  BY <1>4, SyncRowStep
<1>5. CASE CoolsDown \/ OtherSync
  BY <1>5, CoolingStep
<1>6. CASE \E i \in IDs : RowInserted(i)
  BY <1>6, RowInsertedStep
<1>7. CASE \E i \in IDs : RowDeleted(i)
  BY <1>7, RowDeletedStep
<1>8. CASE \E i \in IDs : RowChanges(i)
  BY <1>8, RowChangesStep
<1>9. CASE UNCHANGED vars
  <2>1. TypeOK'
    BY <1>9 DEF LInv, TypeOK, vars, client
  <2> QED
    BY <1>9, <2>1, SameRows DEF vars, client
<1> QED
  BY <1>1, <1>2, <1>3, <1>4, <1>5, <1>6, <1>7, <1>8, <1>9 DEF Next

-----------------------------------------------------------------------------
\* Theorems

THEOREM ListingInvariant == Spec => []LInv
  BY ListingInit, ListingNext, PTL DEF Spec

\* Rows, ids, the order of creation, the page and the cursor keep their types.
THEOREM ListingTypeOK == Spec => []TypeOK
<1>1. LInv => TypeOK
  BY DEF LInv
<1> QED
  BY <1>1, ListingInvariant, PTL

\* A pass shows every row that was there and matched all the time: in memory
\* unless the row of a cursor is deleted, on DocumentDB if the ids happen to be
\* in the order of creation.
THEOREM PassCompleteHolds == Spec => []PassComplete
<1>1. LInv => PassComplete
  BY DEF LInv, NoneSkipped, PassComplete, Intact
<1> QED
  BY <1>1, ListingInvariant, PTL

\* A pass shows no row twice: in memory always, on DocumentDB if the ids happen
\* to be in the order of creation.
THEOREM ShownOnceHolds == Spec => []ShownOnce
<1>1. LInv => ShownOnce
  BY DEF LInv, NoneAgain, ShownOnce, Steady
<1> QED
  BY <1>1, ListingInvariant, PTL

\* The next cursor of a pass is strictly behind the last one.
THEOREM CursorMovesOnHolds == Spec => CursorMovesOn
<1> DEFINE On == NextPage /\ cursor # NoCursor =>
        cursor' = NoCursor \/ (IF kind = "memory" THEN created[cursor'] < created[cursor]
                                                  ELSE cursor' < cursor)
<1>1. LInv /\ [Next]_vars => [On]_vars
  <2> SUFFICES ASSUME LInv, NextPage, cursor # NoCursor, cursor' # NoCursor
               PROVE  Left(cursor')
    BY DEF Left
  <2>1. PICK p : p = ListTransactions(PageSize, cursor)
    OBVIOUS
  <2>2. cursor' = p.next
    BY <2>1 DEF NextPage
  <2>3. p.next \in Found
    BY <2>1, <2>2, OnePage DEF LInv
  <2> QED
    BY <2>2, <2>3, FoundRows DEF LInv
<1> QED
  BY <1>1, ListingInvariant, PTL DEF Spec, CursorMovesOn

=============================================================================
