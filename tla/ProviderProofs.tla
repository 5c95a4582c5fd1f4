--------------------------- MODULE ProviderProofs ---------------------------
(***************************************************************************)
(* What the adapters tell the gateway is true, and a settled payment is    *)
(* told, for every set of refunds, every amount and every configuration of *)
(* a generic provider.  The inductive invariant PInv says of a running     *)
(* call that what it has read is true of the provider as it is now - a     *)
(* session never goes back, and an attempt that failed has failed - and    *)
(* that a payment that was settled before the call was read or is still to *)
(* be read.                                                                *)
(*                                                                         *)
(* A second invariant, RefundInv, says that what calls read of refunds is  *)
(* about refunds that were made, each once; with the sums over finite sets *)
(* it gives that a sync reports a full refund only if the whole amount was *)
(* asked back.                                                             *)
(***************************************************************************)
EXTENDS Providers, FiniteSetTheorems, TLAPS

-----------------------------------------------------------------------------
\* The invariant

PaidStates   == {"PAID", "VOIDED"}
ClosedStates == {"FAILED", "CANCELED", "EXPIRED", "VOIDED"}

PaidWords   == {"SUCCESS", "PAID", "ALREADY_PAID"}
ClosedWords == {"FAILED", "CANCELED", "EXPIRED"}

\* A word about the payment fits the session in state s.
Fits(word, s) ==
    /\ word \in PaidWords => s \in PaidStates
    /\ word \in ClosedWords => s \in ClosedStates

\* The provider: resources lag, but show nothing that never was.
World ==
    /\ kind \in {"xendit", "komoju", "generic"}
    /\ cfg \in Configs
    /\ session \in SessionState
    /\ objects \in Objects
    /\ failed \in {"none", "current", "earlier"}
    /\ shows \in [Resources -> SessionState]
    /\ refunds \in [RefundIds -> [status : {"NONE", "PENDING", "SUCCESS", "FAILED"},
                                  amount : Int]]
    /\ session = "VOIDED" => kind = "xendit"
    /\ failed # "none" => kind = "komoju" /\ "payment" \in objects
    /\ session \in PaidStates => failed # "current"
    /\ \A r \in Resources : shows[r] \in Past(session)
    /\ Made # {} => session \in PaidStates
    /\ session \in {"PAID", "FAILED", "VOIDED"} => "payment" \in objects

CallRecord ==
    [op |-> call.op, at |-> call.at, id |-> call.id, ids |-> call.ids,
     result |-> call.result, records |-> call.records, listed |-> call.listed,
     settled |-> call.settled]

CallType ==
    /\ call = CallRecord
    /\ call.op \in {"none", "query", "sync", "cancel"}
    /\ call.at \in 0 .. 8
    /\ call.op # "none" => call.at \in 1 .. 8
    /\ call.at = 1 => call.result = NoResult
    /\ call.id \in {"session", "request", "payment", "earlier"}
    /\ call.ids \in Objects
    /\ call.result \in [payment : SyncPaymentStatus, refund : SyncRefundStatus]
    /\ call.settled \in BOOLEAN

\* A record of the transaction history fits the session in state s.
RecordFits(x, s) ==
    /\ x.type = "REFUND" => s \in PaidStates
    /\ x.type = "PAYMENT" /\ x.status = "SUCCESS" => s \in PaidStates
    /\ x.type = "PAYMENT" /\ x.status \in {"FAILED", "VOIDED", "REVERSED"} => s \in ClosedStates

\* What the running call has read is true.
CallTrue ==
    /\ Fits(call.result.payment, session)
    /\ call.result.refund = "NONE"
    /\ \A x \in call.records : RecordFits(x, session)
    /\ call.listed # {} => session \in PaidStates
    /\ call.id = "earlier" => failed # "none"

SuccessIn(records) == \E x \in records : x.type = "PAYMENT" /\ x.status = "SUCCESS"

\* A sync of a payment that was settled before has read it, or will.
SyncSees ==
    \/ call.result.payment = "PAID"
    \/ call.at = 1 /\ call.id = "session" /\ shows["session"] = "PAID"
    \/ call.at \in {1, 2} /\ call.id # "session" /\ "request" \in call.ids
          /\ shows["request"] = "PAID"
    \/ call.at \in 1 .. 4 /\ call.records = {} /\ shows["history"] = "PAID"
    \/ SuccessIn(call.records)

CallSees ==
    call.settled =>
        /\ session \in PaidStates
        /\ session = "PAID" /\ kind = "generic" => cfg.status
        /\ session = "PAID" /\ kind = "xendit" /\ call.op = "query" => shows["session"] = "PAID"
        /\ session = "PAID" /\ kind = "xendit" /\ call.op = "sync" => SyncSees
        /\ kind = "komoju" => call.id # "earlier"

PInv ==
    /\ World /\ CallType /\ CallTrue /\ CallSees
    /\ PaidIsPaid /\ ClosedIsClosed /\ PaidIsSeen

\* A session settles, a paid one may be voided, and a failed attempt has failed.
Moves ==
    /\ kind' = kind
    /\ failed # "none" => failed' # "none"
    /\ session' \in SessionState
    /\ \/ session' = session
       \/ session = "OPEN"
       \/ session = "PAID" /\ session' = "VOIDED"

-----------------------------------------------------------------------------
\* What was true stays true

\* A word that fits keeps fitting when the session moves.
LEMMA FitsOn ==
    ASSUME Moves, session \in SessionState, NEW word, Fits(word, session)
    PROVE  Fits(word, session')
  BY DEF Moves, SessionState, Fits, PaidStates, ClosedStates, PaidWords, ClosedWords

\* So does a record of the history.
LEMMA RecordFitsOn ==
    ASSUME Moves, session \in SessionState, NEW x, RecordFits(x, session)
    PROVE  RecordFits(x, session')
  BY DEF Moves, SessionState, RecordFits, PaidStates, ClosedStates

\* The answer was true, and stays.
LEMMA AnswerOn ==
    ASSUME PInv, Moves, UNCHANGED answer
    PROVE  PaidIsPaid' /\ ClosedIsClosed' /\ PaidIsSeen'
<1>1. PaidIsPaid'
  BY DEF PInv, World, Moves, PaidIsPaid, SaysPaid, SessionState
<1>2. ClosedIsClosed'
  BY DEF PInv, World, Moves, ClosedIsClosed, SaysClosed, MayBeAnAttempt, SessionState
<1>3. PaidIsSeen'
  BY DEF PInv, PaidIsSeen, SaysPaid
<1> QED
  BY <1>1, <1>2, <1>3

\* A step of the provider that ends in a proper world keeps the invariant.
LEMMA WorldStep ==
    ASSUME PInv, World', Moves, UNCHANGED <<kind, cfg, call, answer>>,
           session = "PAID" => \A r \in Resources : shows[r] = "PAID" /\ session' = "PAID"
                                                       => shows'[r] = "PAID"
    PROVE  PInv'
<1> USE DEF PInv
<1>1. CallType'
  BY DEF CallType, CallRecord
<1>2. CallTrue'
  BY FitsOn, RecordFitsOn DEF CallTrue, World, Moves, PaidStates, SessionState
<1>3. CallSees'
  <2> SUFFICES ASSUME call.settled PROVE CallSees'
    BY DEF CallSees
  <2>1. session \in PaidStates /\ session' \in PaidStates
    BY DEF CallSees, Moves, PaidStates
  <2>2. CASE session' = "PAID"
    <3>1. session = "PAID"
      BY <2>1, <2>2 DEF Moves, PaidStates
    <3>2. \A r \in {"session", "request", "history"} : shows[r] = "PAID" => shows'[r] = "PAID"
      BY <2>2, <3>1 DEF Resources
    <3>3. SyncSees => SyncSees'
      BY <3>2 DEF SyncSees
    <3> QED
      BY <2>1, <3>1, <3>2, <3>3 DEF CallSees
  <2> QED
    BY <2>1, <2>2 DEF CallSees
<1> QED
  BY <1>1, <1>2, <1>3, AnswerOn

-----------------------------------------------------------------------------
\* The provider moves

\* Resources that showed what has been still do.
LEMMA PastOn ==
    ASSUME Moves, session \in SessionState, NEW p, p \in Past(session)
    PROVE  p \in Past(session')
  BY DEF Moves, SessionState, Past

LEMMA AttemptedKeeps == ASSUME PInv, Attempted PROVE PInv'
<1>1. World'
  BY DEF PInv, World, Attempted, Objects, Made
<1> QED
  BY <1>1, WorldStep DEF PInv, World, Attempted, Moves

LEMMA AttemptFailsKeeps == ASSUME PInv, AttemptFails PROVE PInv'
<1>1. World' /\ Moves
  BY DEF PInv, World, AttemptFails, Made, Moves, PaidStates
<1> QED
  BY <1>1, WorldStep DEF AttemptFails

\* An id that named the failed attempt names an earlier one now.
LEMMA TriesAgainKeeps == ASSUME PInv, TriesAgain PROVE PInv'
<1> USE DEF PInv
<1>1. World' /\ Moves /\ session = "OPEN"
  BY DEF World, TriesAgain, Made, Moves, PaidStates
<1>2. PICK id \in {call.id, "earlier"} : call' = [call EXCEPT !.id = id]
  BY DEF TriesAgain
<1>3. CallType'
  BY <1>2 DEF CallType, CallRecord
<1>4. CallTrue'
  <2>1. failed' # "none" /\ session' = session
    BY DEF TriesAgain
  <2>2. /\ call'.result = call.result /\ call'.records = call.records
        /\ call'.listed = call.listed
    BY <1>2 DEF CallType, CallRecord
  <2> QED
    BY <2>1, <2>2 DEF CallTrue
<1>5. CallSees'
  <2>1. ~call'.settled
    BY <1>1, <1>2 DEF CallSees, CallType, CallRecord, PaidStates
  <2> QED
    BY <2>1 DEF CallSees
<1> QED
  BY <1>1, <1>3, <1>4, <1>5, AnswerOn DEF TriesAgain

LEMMA SettlesKeeps == ASSUME PInv, SessionSettles PROVE PInv'
<1> USE DEF PInv, World
<1>1. /\ Moves /\ session' # "OPEN" /\ session' # session
      /\ UNCHANGED <<kind, cfg, objects, failed, shows, refunds, call, answer>>
  BY DEF SessionSettles, Settle, Moves, SessionState
<1>2. session' \in {"PAID", "FAILED", "VOIDED"} => "payment" \in objects'
  BY DEF SessionSettles, Settle
<1>3. session' = "VOIDED" => kind' = "xendit"
  BY DEF SessionSettles, Settle
<1>4. /\ Made' # {} => session' \in PaidStates
      /\ session' \in PaidStates => failed' # "current"
  BY <1>1 DEF SessionSettles, Settle, Made, Moves, PaidStates
<1>5. \A r \in Resources : shows'[r] \in Past(session')
  BY <1>1, PastOn
<1>6. World'
  BY <1>1, <1>2, <1>3, <1>4, <1>5 DEF Moves
<1> QED
  BY <1>1, <1>6, WorldStep

LEMMA CatchesUpKeeps == ASSUME PInv, NEW q \in Resources, CatchesUp(q) PROVE PInv'
<1> USE DEF PInv, World
<1>1. /\ shows' \in [Resources -> SessionState]
      /\ \A r \in Resources : shows'[r] = IF r = q THEN session ELSE shows[r]
  BY DEF CatchesUp
<1>2. \A r \in Resources : shows'[r] \in Past(session')
  BY <1>1 DEF CatchesUp, Past
<1>3. World'
  BY <1>1, <1>2 DEF CatchesUp, Made
<1>4. Moves
  BY DEF CatchesUp, Moves
<1> QED
  BY <1>1, <1>3, <1>4, WorldStep DEF CatchesUp

LEMMA RefundsKeep ==
    ASSUME PInv, NEW r \in RefundIds, RefundStarts(r) \/ RefundSettles(r)
    PROVE  PInv'
<1> USE DEF PInv, World
<1>1. /\ UNCHANGED <<kind, cfg, session, objects, failed, shows, call, answer>>
      /\ session \in PaidStates
  BY DEF RefundStarts, RefundSettles, Made, PaidStates
<1>2. refunds' \in [RefundIds -> [status : {"NONE", "PENDING", "SUCCESS", "FAILED"},
                                  amount : Int]]
  BY DEF RefundStarts, RefundSettles
<1>3. World'
  BY <1>1, <1>2
<1>4. Moves
  BY <1>1 DEF Moves
<1> QED
  BY <1>1, <1>3, <1>4, WorldStep

-----------------------------------------------------------------------------
\* Calls start and end

LEMMA CallsKeeps ==
    ASSUME PInv, NEW op \in {"query", "sync", "cancel"},
           NEW id \in {"session", "request", "payment", "earlier"}, Calls(op, id)
    PROVE  PInv'
<1> USE DEF PInv
<1> DEFINE ids == IF kind = "xendit" /\ id # "session" THEN {id} ELSE {}
<1>1. /\ UNCHANGED world
      /\ answer' = NoAnswer
      /\ call' = [op |-> op, at |-> 1, id |-> id, ids |-> ids, result |-> NoResult,
                  records |-> {}, listed |-> {}, settled |-> Settled(op, id)]
  BY DEF Calls, Idle
<1>2. World' /\ session' = session
  BY <1>1 DEF world, World, Made
<1>3. /\ kind = "xendit" /\ id # "session" => id = "request"
      /\ id = "earlier" => failed # "none"
  BY DEF Calls, Ids, World, Objects
<1>4. ids \in Objects
  BY <1>3 DEF Objects
<1>5. Settled(op, id) \in BOOLEAN
  BY DEF Settled
<1>6. CallType'
  <2> HIDE DEF ids
  <2> QED
    BY <1>1, <1>4, <1>5 DEF CallType, CallRecord, NoResult, SyncPaymentStatus, SyncRefundStatus
<1>7. CallTrue'
  <2> HIDE DEF ids
  <2> QED
    BY <1>1, <1>3 DEF CallTrue, NoResult, Fits, PaidWords, ClosedWords, world
<1>8. CallSees'
  <2> SUFFICES ASSUME Settled(op, id) PROVE CallSees'
    BY <1>1 DEF CallSees
  <2>1. session = "PAID" /\ session' = "PAID" /\ UNCHANGED <<kind, cfg, shows>>
    BY <1>1 DEF Settled, world
  <2>2. kind = "generic" => cfg.status
    BY <2>1 DEF Settled
  <2>3. kind = "xendit" /\ op = "query" => shows["session"] = "PAID"
    BY <2>1 DEF Settled
  <2>4. ASSUME kind = "xendit", op = "sync" PROVE SyncSees'
    <3>1. PICK r \in CertainlyRead(id) : shows[r] = "PAID"
      BY <2>4 DEF Settled
    <3>2. CASE r = "history"
      BY <1>1, <2>1, <3>1, <3>2 DEF SyncSees
    <3>3. CASE id = "session" /\ r = "session"
      BY <1>1, <2>1, <3>1, <3>3 DEF SyncSees
    <3>4. CASE id # "session" /\ r = "request"
      BY <1>1, <1>3, <2>1, <2>4, <3>1, <3>4 DEF SyncSees
    <3> QED
      BY <3>1, <3>2, <3>3, <3>4 DEF CertainlyRead
  <2>5. kind = "komoju" => id # "earlier"
    BY DEF Settled
  <2> HIDE DEF ids
  <2> QED
    BY <1>1, <2>1, <2>2, <2>3, <2>4, <2>5 DEF CallSees, PaidStates
<1>9. PaidIsPaid' /\ ClosedIsClosed' /\ PaidIsSeen'
  BY <1>1 DEF NoAnswer, PaidIsPaid, SaysPaid, ClosedIsClosed, SaysClosed, PaidIsSeen
<1> QED
  BY <1>2, <1>6, <1>7, <1>8, <1>9

\* No call is running.
LEMMA IdleHolds ==
    ASSUME call' = Idle
    PROVE  CallType' /\ CallTrue' /\ CallSees'
<1>1. CallType'
  BY DEF Idle, NoResult, CallType, CallRecord, Objects, SyncPaymentStatus, SyncRefundStatus
<1>2. CallTrue' /\ CallSees'
  BY DEF Idle, NoResult, CallTrue, CallSees, Fits, PaidWords, ClosedWords
<1> QED
  BY <1>1, <1>2

LEMMA CallFailsKeeps == ASSUME PInv, CallFails PROVE PInv'
<1>1. World' /\ Moves
  BY DEF PInv, CallFails, world, World, Made, Moves
<1> QED
  BY <1>1, IdleHolds, AnswerOn DEF PInv, CallFails

\* A word that fits the session the answer leaves behind, or speaks of an
\* attempt that failed, and that tells a payment that was settled before.
TellsTrue(payment) ==
    /\ payment \in PaidWords => session' \in PaidStates
    /\ payment = "EXPIRED" => session' \in ClosedStates
    /\ payment = "CANCELED" =>
         session' \in ClosedStates \/ (kind = "komoju" /\ call.op = "cancel" /\ failed # "none")
    /\ payment = "FAILED" /\ call.op # "cancel" =>
         session' \in ClosedStates \/ (kind = "komoju" /\ failed # "none")
    /\ call.op # "cancel" /\ call.settled /\ session = "PAID" /\ ~Hidden
         => payment \in PaidWords \cup {"REFUNDED"}

\* A call that answers with such a word keeps the invariant.
LEMMA TrueAnswersKeep ==
    ASSUME PInv, World', Moves, NEW payment, NEW refund, Answers(payment, refund),
           TellsTrue(payment)
    PROVE  PInv'
<1> USE DEF TellsTrue
<1>1. PaidIsPaid' /\ ClosedIsClosed'
  BY DEF Answers, PaidIsPaid, SaysPaid, ClosedIsClosed, SaysClosed, MayBeAnAttempt, Moves,
         PaidWords, PaidStates, ClosedStates
<1>2. PaidIsSeen'
  BY DEF Answers, PaidIsSeen, SaysPaid, PaidWords
<1> QED
  BY <1>1, <1>2, IdleHolds DEF PInv, Answers

\* So does one that speaks of no attempt.
LEMMA AnswersKeep ==
    ASSUME PInv, World', Moves, NEW payment, NEW refund, Answers(payment, refund),
           payment \in PaidWords => session' \in PaidStates,
           payment \in {"CANCELED", "EXPIRED"} => session' \in ClosedStates,
           payment = "FAILED" /\ call.op # "cancel" => session' \in ClosedStates,
           call.op # "cancel" /\ call.settled /\ session = "PAID" /\ ~Hidden
               => payment \in PaidWords \cup {"REFUNDED"}
    PROVE  PInv'
<1>1. TellsTrue(payment)
  BY DEF TellsTrue
<1> QED
  BY <1>1, TrueAnswersKeep

-----------------------------------------------------------------------------
\* The reads of a Xendit sync

\* A set of positions has a least one.
LEMMA LeastPosition ==
    ASSUME NEW S, S \subseteq 1 .. 8, S # {}
    PROVE  Min(S) \in S /\ \A y \in S : Min(S) <= y
<1>1. \E x \in S : \A y \in S : x <= y
  <2>1. CASE 1 \in S
    BY <2>1
  <2>2. CASE 1 \notin S /\ 2 \in S
    BY <2>2
  <2>3. CASE 1 \notin S /\ 2 \notin S /\ 3 \in S
    BY <2>3
  <2>4. CASE 1 \notin S /\ 2 \notin S /\ 3 \notin S /\ 4 \in S
    BY <2>4
  <2>5. CASE S \subseteq 5 .. 8
    <3>1. CASE 5 \in S
      BY <2>5, <3>1
    <3>2. CASE 5 \notin S /\ 6 \in S
      BY <2>5, <3>2
    <3>3. CASE 5 \notin S /\ 6 \notin S /\ 7 \in S
      BY <2>5, <3>3
    <3>4. CASE 5 \notin S /\ 6 \notin S /\ 7 \notin S
      <4>1. \A y \in S : y = 8
        BY <2>5, <3>4
      <4>2. PICK x \in S : TRUE
        OBVIOUS
      <4>3. x = 8 /\ \A y \in S : x <= y
        BY <4>1
      <4> QED
        BY <4>3
    <3> QED
      BY <3>1, <3>2, <3>3, <3>4
  <2> QED
    BY <2>1, <2>2, <2>3, <2>4, <2>5
<1> QED
  BY <1>1 DEF Min

\* The next read is a later one; the history by reference is never left out,
\* nor the payment request when its id is known.
LEMMA NextReadFacts ==
    ASSUME NEW n \in 1 .. 7, NEW ids
    PROVE  /\ NextRead(n, ids) \in n + 1 .. 8
           /\ n < 4 => NextRead(n, ids) <= 4
           /\ n = 1 /\ "request" \in ids => NextRead(n, ids) = 2
<1> DEFINE S == {m \in n + 1 .. Len(Reads) : Needs[m] \subseteq ids}
<1>1. Len(Reads) = 8
  BY DEF Reads
<1>2. Needs[8] = {} /\ Needs[4] = {} /\ Needs[2] = {"request"}
  BY DEF Needs
<1>3. 8 \in S /\ S \subseteq n + 1 .. 8
  BY <1>1, <1>2
<1>4. n < 4 => 4 \in S
  BY <1>1, <1>2
<1>5. n = 1 /\ "request" \in ids => 2 \in S
  BY <1>1, <1>2
<1>6. NextRead(n, ids) = Min(S)
  BY DEF NextRead
<1> HIDE DEF S
<1>7. S \subseteq 1 .. 8 /\ S # {}
  BY <1>3
<1>8. Min(S) \in S /\ \A y \in S : Min(S) <= y
  BY <1>7, LeastPosition
<1>9. NextRead(n, ids) \in n + 1 .. 8
  BY <1>3, <1>6, <1>8
<1>10. n < 4 => NextRead(n, ids) <= 4
  BY <1>4, <1>6, <1>8
<1>11. n = 1 /\ "request" \in ids => NextRead(n, ids) = 2
  <2> SUFFICES ASSUME n = 1, "request" \in ids PROVE NextRead(n, ids) = 2
    OBVIOUS
  <2>1. NextRead(n, ids) <= 2
    BY <1>5, <1>6, <1>8
  <2> QED
    BY <1>9, <2>1
<1> QED
  BY <1>9, <1>10, <1>11

\* Where the sync is.
LEMMA AtPosition ==
    ASSUME CallType, NEW name, AtRead(name)
    PROVE  /\ kind = "xendit" /\ call.op = "sync" /\ call.at \in 1 .. 8
           /\ name = "session" => call.at = 1
           /\ name = "request" => call.at = 2
           /\ name = "payment" => call.at = 3
           /\ name \in {"byReference", "byPayment", "byRequest"} => call.at \in 4 .. 6
           /\ name = "refunds" => call.at = 7
           /\ name = "reply" => call.at = 8
  BY DEF CallType, AtRead, Reads

\* A read whose result is true, and that does not miss the payment, keeps the
\* invariant.
LEMMA ReadKeeps ==
    ASSUME PInv, UNCHANGED <<world, answer>>, kind = "xendit", call.op = "sync",
           NEW at \in 2 .. 8, NEW ids \in Objects,
           NEW result \in [payment : SyncPaymentStatus, refund : SyncRefundStatus],
           NEW records, NEW listed,
           call' = [op |-> call.op, at |-> at, id |-> call.id, ids |-> ids,
                    result |-> result, records |-> records, listed |-> listed,
                    settled |-> call.settled],
           Fits(result.payment, session), result.refund = "NONE",
           \A x \in records : RecordFits(x, session),
           listed # {} => session \in PaidStates,
           call.settled /\ session = "PAID" => SyncSees'
    PROVE  PInv'
<1>1. World' /\ Moves /\ session' = session /\ kind' = kind
  BY DEF PInv, world, World, Made, Moves
<1>2. CallType'
  BY DEF PInv, CallType, CallRecord
<1>3. CallTrue'
  <2>1. call.id # "earlier" \/ failed' # "none"
    BY <1>1 DEF PInv, CallTrue, Moves
  <2> QED
    BY <1>1, <2>1 DEF CallTrue
<1>4. CallSees'
  BY <1>1 DEF PInv, CallSees
<1> QED
  BY <1>1, <1>2, <1>3, <1>4, AnswerOn DEF PInv

\* The same for the reads of one resource.
LEMMA ResultKeeps ==
    ASSUME PInv, UNCHANGED <<world, answer>>, kind = "xendit", call.op = "sync",
           call.at \in 1 .. 7, NEW ids \in Objects,
           NEW result \in [payment : SyncPaymentStatus, refund : SyncRefundStatus],
           SyncReads(result, ids),
           Fits(result.payment, session), result.refund = "NONE",
           call.settled /\ session = "PAID" => SyncSees'
    PROVE  PInv'
<1>1. NextRead(call.at, ids) \in 2 .. 8
  BY NextReadFacts
<1>2. call' = [op |-> call.op, at |-> NextRead(call.at, ids), id |-> call.id, ids |-> ids,
               result |-> result, records |-> call.records, listed |-> call.listed,
               settled |-> call.settled]
  BY DEF PInv, CallType, CallRecord, SyncReads
<1> QED
  BY <1>1, <1>2, ReadKeeps DEF PInv, CallTrue

\* What a resource shows fits the session.
LEMMA ShownFits ==
    ASSUME World, NEW r \in Resources
    PROVE  /\ Fits(MapPaymentSessionStatus(XenditSession(shows[r])), session)
           /\ Fits(MapProviderPaymentStatus(XenditPayment(shows[r])), session)
           /\ MapPaymentSessionStatus(XenditSession(shows[r])) \in PaymentStatus
           /\ MapProviderPaymentStatus(XenditPayment(shows[r])) \in {"PAID", "FAILED", "PENDING"}
           /\ session = "PAID" => MapProviderPaymentStatus(XenditPayment(shows[r])) # "FAILED"
           /\ shows[r] = "PAID" => /\ MapPaymentSessionStatus(XenditSession(shows[r])) = "SUCCESS"
                                   /\ MapProviderPaymentStatus(XenditPayment(shows[r])) = "PAID"
<1>1. shows[r] \in Past(session) /\ session \in SessionState
  BY DEF World
<1>2. shows[r] \in SessionState
  BY DEF World
<1>3. /\ shows[r] = "OPEN" => XenditSession(shows[r]) = "ACTIVE"
                               /\ XenditPayment(shows[r]) = "REQUIRES_ACTION"
      /\ shows[r] = "PAID" => XenditSession(shows[r]) = "COMPLETED"
                               /\ XenditPayment(shows[r]) = "SUCCEEDED"
      /\ shows[r] = "VOIDED" => XenditSession(shows[r]) = "COMPLETED"
                               /\ XenditPayment(shows[r]) = "VOIDED"
      /\ shows[r] \in ClosedWords => XenditSession(shows[r]) = shows[r]
                               /\ XenditPayment(shows[r]) = shows[r]
  BY DEF XenditSession, XenditPayment, ClosedWords
<1>4. CASE shows[r] = "OPEN"
  BY <1>3, <1>4 DEF MapPaymentSessionStatus, MapProviderPaymentStatus, XenditPaid, Fits,
                    PaidWords, ClosedWords, PaymentStatus
<1>5. CASE shows[r] = "PAID"
  BY <1>1, <1>3, <1>5 DEF MapPaymentSessionStatus, MapProviderPaymentStatus, XenditPaid, Fits,
                    PaidWords, ClosedWords, PaymentStatus, Past, PaidStates
<1>6. CASE shows[r] = "VOIDED"
  BY <1>1, <1>3, <1>6 DEF MapPaymentSessionStatus, MapProviderPaymentStatus, XenditPaid, Fits,
                    PaidWords, ClosedWords, PaymentStatus, Past, PaidStates, ClosedStates
<1>7. CASE shows[r] \in ClosedWords
  BY <1>1, <1>3, <1>7 DEF MapPaymentSessionStatus, MapProviderPaymentStatus, XenditPaid, Fits,
                    PaidWords, ClosedWords, PaymentStatus, Past, PaidStates, ClosedStates
<1> QED
  BY <1>2, <1>4, <1>5, <1>6, <1>7 DEF SessionState, ClosedWords

LEMMA SyncReadsSessionKeeps == ASSUME PInv, SyncReadsSession PROVE PInv'
<1> USE DEF PInv
<1>1. kind = "xendit" /\ call.op = "sync" /\ call.at = 1
  BY AtPosition DEF SyncReadsSession
<1>2. ASSUME NEW ids \in Objects
      PROVE  NextRead(1, ids) \in 2 .. 4 /\ ("request" \in ids => NextRead(1, ids) = 2)
  BY NextReadFacts
<1>3. CASE call.id = "session"
  <2> DEFINE word == MapPaymentSessionStatus(XenditSession(shows.session))
             result == [payment |-> SyncPaymentStatusFromPaymentStatus(word), refund |-> "NONE"]
  <2>1. PICK ids \in Names : SyncReads(result, ids)
    BY <1>3 DEF SyncReadsSession
  <2>2. ids \in Objects
    BY DEF Names
  <2>3. /\ Fits(word, session) /\ word \in PaymentStatus
        /\ shows["session"] = "PAID" => word = "SUCCESS"
    BY ShownFits DEF Resources
  <2> HIDE DEF word
  <2>4. Fits(result.payment, session) /\ result.payment \in SyncPaymentStatus
    BY <2>3 DEF Fits, PaidWords, ClosedWords, ClosedStates, PaymentStatus,
                SyncPaymentStatusFromPaymentStatus, SyncPaymentStatus
  <2>5. ASSUME call.settled, session = "PAID" PROVE SyncSees'
    <3>1. SyncSees /\ call.result.payment # "PAID"
      BY <1>1, <2>5 DEF CallSees, CallType, NoResult
    <3>2. /\ call'.result = result /\ call'.at = NextRead(1, ids) /\ call'.id = call.id
          /\ call'.records = call.records /\ shows' = shows
      BY <1>1, <2>1 DEF SyncReads, SyncReadsSession, world, CallType, CallRecord
    <3>3. CASE shows["session"] = "PAID"
      BY <2>3, <3>2, <3>3 DEF SyncSees, SyncPaymentStatusFromPaymentStatus
    <3>4. CASE call.records = {} /\ shows["history"] = "PAID"
      BY <1>2, <2>2, <3>2, <3>4 DEF SyncSees
    <3>5. CASE SuccessIn(call.records)
      BY <3>2, <3>5 DEF SyncSees
    <3> QED
      BY <1>3, <3>1, <3>3, <3>4, <3>5 DEF SyncSees
  <2> QED
    BY <1>1, <2>1, <2>2, <2>4, <2>5, ResultKeeps DEF SyncReadsSession, SyncRefundStatus
<1>4. CASE call.id # "session"
  <2>1. SyncReads(NoResult, call.ids) /\ call.ids \in Objects
    BY <1>4 DEF SyncReadsSession, CallType
  <2>2. ASSUME call.settled, session = "PAID" PROVE SyncSees'
    <3>1. SyncSees /\ call.result.payment # "PAID"
      BY <1>1, <2>2 DEF CallSees, CallType, NoResult
    <3>2. /\ call'.at = NextRead(1, call.ids) /\ call'.id = call.id /\ call'.ids = call.ids
          /\ call'.records = call.records /\ shows' = shows
      BY <1>1, <2>1 DEF SyncReads, SyncReadsSession, world, CallType, CallRecord
    <3>3. CASE "request" \in call.ids /\ shows["request"] = "PAID"
      BY <1>2, <1>4, <2>1, <3>2, <3>3 DEF SyncSees
    <3>4. CASE call.records = {} /\ shows["history"] = "PAID"
      BY <1>2, <2>1, <3>2, <3>4 DEF SyncSees
    <3>5. CASE SuccessIn(call.records)
      BY <3>2, <3>5 DEF SyncSees
    <3> QED
      BY <1>4, <3>1, <3>3, <3>4, <3>5 DEF SyncSees
  <2>3. Fits(NoResult.payment, session) /\ NoResult.refund = "NONE"
        /\ NoResult \in [payment : SyncPaymentStatus, refund : SyncRefundStatus]
    BY DEF NoResult, Fits, PaidWords, ClosedWords, SyncPaymentStatus, SyncRefundStatus
  <2> QED
    BY <1>1, <2>1, <2>2, <2>3, ResultKeeps DEF SyncReadsSession
<1> QED
  BY <1>3, <1>4

\* The status of a payment object is merged into what was read before.
LEMMA MergeKeeps ==
    ASSUME PInv, UNCHANGED <<world, answer>>, kind = "xendit", call.op = "sync",
           NEW r \in {"request", "payment"}, call.at = IF r = "request" THEN 2 ELSE 3,
           NEW ids \in Objects,
           SyncReads(MergePaymentStatus(call.result, XenditPayment(shows[r])), ids)
    PROVE  PInv'
<1> USE DEF PInv
<1> DEFINE word == MapProviderPaymentStatus(XenditPayment(shows[r]))
           result == MergePaymentStatus(call.result, XenditPayment(shows[r]))
<1>1. /\ Fits(word, session) /\ word \in {"PAID", "FAILED", "PENDING"}
      /\ session = "PAID" => word # "FAILED"
      /\ shows[r] = "PAID" => word = "PAID"
  BY ShownFits DEF Resources
<1>2. result = IF word = "PENDING" THEN call.result ELSE [call.result EXCEPT !.payment = word]
  BY DEF MergePaymentStatus
<1> HIDE DEF word, result
<1>3. call.result \in [payment : SyncPaymentStatus, refund : SyncRefundStatus]
  BY DEF CallType
<1>4. /\ result \in [payment : SyncPaymentStatus, refund : SyncRefundStatus]
      /\ result.payment = IF word = "PENDING" THEN call.result.payment ELSE word
      /\ result.refund = call.result.refund
  BY <1>1, <1>2, <1>3 DEF SyncPaymentStatus
<1>5. Fits(result.payment, session) /\ result.refund = "NONE"
  BY <1>1, <1>4 DEF CallTrue
<1>6. call.at \in 2 .. 3 /\ NextRead(call.at, ids) \in 1 .. 4
  BY NextReadFacts
<1>7. ASSUME call.settled, session = "PAID" PROVE SyncSees'
  <2>1. SyncSees
    BY <1>7 DEF CallSees
  <2>2. /\ call'.result = result /\ call'.at = NextRead(call.at, ids)
        /\ call'.records = call.records /\ shows' = shows
    BY DEF SyncReads, world, CallType, CallRecord, result
  <2>3. CASE call.result.payment = "PAID" \/ shows[r] = "PAID"
    BY <1>1, <1>4, <1>7, <2>2, <2>3 DEF SyncSees
  <2>4. CASE call.records = {} /\ shows["history"] = "PAID"
    BY <1>6, <2>2, <2>4 DEF SyncSees
  <2>5. CASE SuccessIn(call.records)
    BY <2>2, <2>5 DEF SyncSees
  <2> QED
    BY <1>6, <2>1, <2>3, <2>4, <2>5 DEF SyncSees
<1>8. SyncReads(result, ids)
  BY DEF result
<1> QED
  BY <1>4, <1>5, <1>6, <1>7, <1>8, ResultKeeps

LEMMA SyncReadsRequestKeeps == ASSUME PInv, SyncReadsRequest PROVE PInv'
<1>1. kind = "xendit" /\ call.op = "sync" /\ call.at = 2
  BY AtPosition DEF PInv, SyncReadsRequest
<1> QED
  BY <1>1, MergeKeeps DEF SyncReadsRequest, Names

LEMMA SyncReadsPaymentKeeps == ASSUME PInv, SyncReadsPayment PROVE PInv'
<1>1. kind = "xendit" /\ call.op = "sync" /\ call.at = 3
  BY AtPosition DEF PInv, SyncReadsPayment
<1> QED
  BY <1>1, MergeKeeps DEF SyncReadsPayment, PInv, CallType

\* The records of an answer are true, and tell a payment the history shows.
LEMMA HistoryTrue ==
    ASSUME World
    PROVE  /\ \A x \in History : RecordFits(x, session)
           /\ session = "PAID" /\ shows["history"] = "PAID" => SuccessIn(History)
<1>1. shows["history"] \in Past(session) /\ shows["history"] \in SessionState
  BY DEF World, Resources
<1> DEFINE status == XenditHistory(shows.history)
<1>2. /\ status = "SUCCESS" => session \in PaidStates
      /\ status \in {"FAILED", "VOIDED", "REVERSED"} => session \in ClosedStates
      /\ shows["history"] = "PAID" => status = "SUCCESS"
  BY <1>1 DEF World, XenditHistory, Past, PaidStates, ClosedStates, SessionState
<1> DEFINE payment == [read |-> call.at, type |-> "PAYMENT", id |-> "payment",
                       status |-> status, amount |-> TxAmount]
           refund(r) == [read |-> call.at, type |-> "REFUND", id |-> r,
                         status |-> refunds[r].status, amount |-> refunds[r].amount]
<1>3. \A x \in History : x = payment \/ \E r \in Made : x = refund(r)
  BY DEF History
<1>4. "payment" \in objects => payment \in History
  BY DEF History
<1> HIDE DEF status
<1>5. RecordFits(payment, session)
  BY <1>2 DEF RecordFits
<1>6. \A r \in Made : RecordFits(refund(r), session)
  BY DEF World, RecordFits
<1>7. session = "PAID" /\ shows["history"] = "PAID" => SuccessIn(History)
  BY <1>2, <1>4 DEF World, SuccessIn
<1> QED
  BY <1>3, <1>5, <1>6, <1>7

LEMMA SyncReadsHistoryKeeps == ASSUME PInv, SyncReadsHistory PROVE PInv'
<1> USE DEF PInv
<1>1. kind = "xendit" /\ call.op = "sync" /\ call.at \in 4 .. 6
  BY AtPosition DEF SyncReadsHistory
<1>2. call.ids \in Objects /\ NextRead(call.at, call.ids) \in 2 .. 8
  BY <1>1, NextReadFacts DEF CallType
<1> DEFINE records == AppendUnique(call.records, History)
<1>3. call' = [op |-> call.op, at |-> NextRead(call.at, call.ids), id |-> call.id,
               ids |-> call.ids, result |-> call.result, records |-> records,
               listed |-> call.listed, settled |-> call.settled]
  BY DEF SyncReadsHistory, CallType, CallRecord
<1>4. \A x \in records : RecordFits(x, session)
  BY HistoryTrue DEF AppendUnique, CallTrue
<1>5. call.records \subseteq records /\ (call.records = {} => records = History)
  BY DEF AppendUnique
<1> HIDE DEF records
<1>6. ASSUME call.settled, session = "PAID" PROVE SyncSees'
  <2>1. SyncSees
    BY <1>1, <1>6 DEF CallSees
  <2>2. call.result.payment = "PAID" \/ SuccessIn(records)
    BY <1>1, <1>5, <1>6, <2>1, HistoryTrue DEF SyncSees, SuccessIn
  <2> QED
    BY <1>3, <2>2 DEF SyncSees
<1>7. UNCHANGED <<world, answer>>
  BY DEF SyncReadsHistory
<1> QED
  BY <1>1, <1>2, <1>3, <1>4, <1>6, <1>7, ReadKeeps DEF CallType, CallTrue

LEMMA SyncReadsRefundsKeeps == ASSUME PInv, SyncReadsRefunds PROVE PInv'
<1> USE DEF PInv
<1>1. kind = "xendit" /\ call.op = "sync" /\ call.at = 7
  BY AtPosition DEF SyncReadsRefunds
<1>2. call.ids \in Objects /\ NextRead(call.at, call.ids) \in 2 .. 8
  BY <1>1, NextReadFacts DEF CallType
<1>3. call' = [op |-> call.op, at |-> NextRead(call.at, call.ids), id |-> call.id,
               ids |-> call.ids, result |-> call.result, records |-> call.records,
               listed |-> ListRefundsByPaymentRequestID, settled |-> call.settled]
  BY DEF SyncReadsRefunds, CallType, CallRecord
<1>4. ListRefundsByPaymentRequestID # {} => session \in PaidStates
  BY DEF ListRefundsByPaymentRequestID, World
<1>5. ASSUME call.settled, session = "PAID" PROVE SyncSees'
  BY <1>1, <1>3, <1>5 DEF CallSees, SyncSees
<1>6. UNCHANGED <<world, answer>>
  BY DEF SyncReadsRefunds
<1> QED
  BY <1>1, <1>2, <1>3, <1>4, <1>5, <1>6, ReadKeeps DEF CallType, CallTrue

-----------------------------------------------------------------------------
\* The answer of a Xendit sync

Refunds == {"REFUNDED", "PARTIAL_REFUNDED"}

\* A result of a sync.
IsResult(result) == result = [payment |-> result.payment, refund |-> result.refund]

\* A summary leaves the payment alone, and reports a refund only of some.
LEMMA SummaryOnlyRefunds ==
    ASSUME NEW result, IsResult(result), NEW listed, NEW amount,
           NEW merged, merged = MergeRefundSummary(result, listed, amount)
    PROVE  /\ IsResult(merged) /\ merged.payment = result.payment
           /\ merged.refund \in Refunds => result.refund \in Refunds \/ listed # {}
<1> DEFINE status == SummarizeXenditRefunds(listed, amount)
<1>1. listed = {} => status = "NONE"
  BY DEF SummarizeXenditRefunds
<1>2. merged = IF StrongerRefundStatus(status, result.refund)
               THEN [result EXCEPT !.refund = status] ELSE result
  BY DEF MergeRefundSummary
<1> HIDE DEF status
<1>3. merged = [payment |-> result.payment, refund |-> status] \/ merged = result
  BY <1>2 DEF IsResult
<1>4. status \in Refunds => listed # {}
  BY <1>1 DEF Refunds
<1> QED
  BY <1>3, <1>4 DEF IsResult

LEMMA SyncRepliesKeeps == ASSUME PInv, SyncReplies PROVE PInv'
<1> USE DEF PInv
<1>1. kind = "xendit" /\ call.op = "sync" /\ call.at = 8
  BY AtPosition DEF SyncReplies
<1> DEFINE Reports(statuses) ==
               \E r \in call.records : r.type = "PAYMENT" /\ r.status \in statuses
           items == {[r EXCEPT !.status = MapTransactionRefundStatus(@)] :
                        r \in {x \in call.records : x.type = "REFUND"}}
           p == IF Reports({"SUCCESS"}) \/ call.result.payment = "PAID" THEN "PAID"
                ELSE IF Reports({"FAILED", "VOIDED", "REVERSED"}) THEN "FAILED"
                ELSE call.result.payment
           history == MergeTransactionHistory(call.result, call.records, TxAmount)
           merged == MergeRefundSummary(history, call.listed, TxAmount)
<1> DEFINE paid == [call.result EXCEPT !.payment = p]
<1>2. IsResult(call.result)
  BY DEF CallType, IsResult
<1>3. IsResult(paid) /\ paid.payment = p /\ paid.refund = call.result.refund
  <2> HIDE DEF p
  <2> QED
    BY <1>2 DEF IsResult
<1>4. history = MergeRefundSummary(paid, items, TxAmount)
  BY DEF MergeTransactionHistory
<1>5. items # {} => session \in PaidStates
  BY DEF CallTrue, RecordFits
<1>6. p = "PAID" => session \in PaidStates
  BY DEF CallTrue, RecordFits, Fits, PaidWords
<1>7. p = "FAILED" => session \in ClosedStates
  BY DEF CallTrue, RecordFits, Fits, ClosedWords
<1>8. p \in SyncPaymentStatus
  BY DEF CallType, SyncPaymentStatus
<1>9. call.settled /\ session = "PAID" => p = "PAID"
  BY <1>1 DEF CallSees, SyncSees, SuccessIn
<1> HIDE DEF items, p, history, merged
<1>10. /\ IsResult(history) /\ history.payment = p
       /\ history.refund \in Refunds => call.result.refund \in Refunds \/ items # {}
  <2> HIDE DEF paid
  <2> QED
    BY <1>3, <1>4, SummaryOnlyRefunds
<1>11. /\ merged.payment = p
       /\ merged.refund \in Refunds => history.refund \in Refunds \/ call.listed # {}
  <2>1. merged = MergeRefundSummary(history, call.listed, TxAmount)
    BY DEF merged
  <2> QED
    BY <1>10, <2>1, SummaryOnlyRefunds
<1>12. merged.refund \in Refunds => session \in PaidStates
  BY <1>5, <1>10, <1>11 DEF CallTrue, Refunds
<1> DEFINE payment == IF merged.refund \in Refunds THEN "PAID" ELSE p
<1>13. Answers(payment, merged.refund) /\ UNCHANGED world
  BY <1>11 DEF SyncReplies, merged, history, Refunds
<1>14. World' /\ Moves /\ session' = session
  BY <1>13 DEF world, World, Made, Moves
<1>15. /\ payment \in PaidWords => session' \in PaidStates
       /\ payment \notin {"CANCELED", "EXPIRED"}
       /\ payment = "FAILED" => session' \in ClosedStates
       /\ call.settled /\ session = "PAID" => payment = "PAID"
  BY <1>6, <1>7, <1>8, <1>9, <1>12, <1>14 DEF SyncPaymentStatus, PaidWords
<1> HIDE DEF payment
<1> QED
  BY <1>13, <1>14, <1>15, AnswersKeep DEF PaidWords

-----------------------------------------------------------------------------
\* One round trip: a query, a cancel

\* Nothing but the session changes, and it only from open to canceled.
LEMMA CancelMoves ==
    ASSUME PInv, UNCHANGED <<kind, cfg, objects, failed, shows, refunds>>,
           session' = session \/ (session = "OPEN" /\ session' = "CANCELED")
    PROVE  World' /\ Moves
<1> USE DEF PInv
<1>1. Moves
  BY DEF World, Moves, SessionState
<1>2. \A r \in Resources : shows'[r] \in Past(session')
  BY <1>1, PastOn DEF World
<1>3. /\ Made' # {} => session' \in PaidStates
      /\ session' \in PaidStates => failed' # "current"
  BY DEF World, Made, PaidStates
<1> QED
  BY <1>1, <1>2, <1>3 DEF World, Moves

LEMMA XenditQueryKeeps == ASSUME PInv, XenditQuery PROVE PInv'
<1> USE DEF PInv
<1> DEFINE word == MapPaymentSessionStatus(XenditSession(shows.session))
<1>1. kind = "xendit" /\ call.op = "query" /\ Answers(word, "NONE") /\ UNCHANGED world
  BY DEF XenditQuery, Running
<1>2. World' /\ Moves /\ session' = session
  BY <1>1, CancelMoves DEF world
<1>3. Fits(word, session) /\ (shows["session"] = "PAID" => word = "SUCCESS")
  BY ShownFits DEF Resources
<1> HIDE DEF word
<1>4. call.settled /\ session = "PAID" => word = "SUCCESS"
  BY <1>1, <1>3 DEF CallSees
<1> QED
  BY <1>1, <1>2, <1>3, <1>4, AnswersKeep DEF Fits, PaidWords, ClosedWords

LEMMA XenditCancelKeeps == ASSUME PInv, XenditCancel PROVE PInv'
<1> USE DEF PInv
<1>1. call.op = "cancel" /\ UNCHANGED <<kind, cfg, objects, failed, shows, refunds>>
  BY DEF XenditCancel, Running
<1>2. CASE call.id # "session"
  <2>1. Answers("UNSUPPORTED", "NONE") /\ session' = session
    BY <1>2 DEF XenditCancel
  <2> QED
    BY <1>1, <2>1, CancelMoves, AnswersKeep DEF PaidWords
<1>3. CASE call.id = "session"
  <2> DEFINE word == MapPaymentSessionCancelStatus(XenditSession(session'))
  <2>1. /\ session' = IF session = "OPEN" THEN "CANCELED" ELSE session
        /\ Answers(word, "NONE")
    BY <1>3 DEF XenditCancel
  <2>2. World' /\ Moves
    BY <1>1, <2>1, CancelMoves
  <2>3. /\ word \in PaidWords => session' \in PaidStates
        /\ word \in {"CANCELED", "EXPIRED"} => session' \in ClosedStates
    BY <2>2 DEF World, SessionState, MapPaymentSessionCancelStatus, XenditSession, XenditPaid,
                PaidWords, PaidStates, ClosedStates
  <2> HIDE DEF word
  <2> QED
    BY <1>1, <2>1, <2>2, <2>3, AnswersKeep
<1> QED
  BY <1>2, <1>3

-----------------------------------------------------------------------------
\* KOMOJU

\* A call goes to its next round trip, of this id or of the payment.
LEMMA GoesOnKeeps ==
    ASSUME PInv, UNCHANGED <<world, answer>>, kind = "komoju", call.op # "none",
           NEW at \in 2 .. 3, NEW id \in {call.id, "payment"},
           call' = [call EXCEPT !.at = at, !.id = id]
    PROVE  PInv'
<1> USE DEF PInv
<1>1. World' /\ Moves /\ session' = session /\ failed' = failed
  BY CancelMoves DEF world
<1>2. CallType'
  <2>1. call' = [op |-> call.op, at |-> at, id |-> id, ids |-> call.ids,
                 result |-> call.result, records |-> call.records, listed |-> call.listed,
                 settled |-> call.settled]
    BY DEF CallType, CallRecord
  <2>2. call.id \in {"session", "request", "payment", "earlier"}
    BY DEF CallType
  <2>3. call'.at = at /\ at \in 1 .. 8 /\ at \in 0 .. 8 /\ at # 1
    BY <2>1
  <2>4. call' = CallRecord' /\ call'.id \in {"session", "request", "payment", "earlier"}
    BY <2>1, <2>2 DEF CallRecord
  <2> QED
    BY <2>1, <2>3, <2>4 DEF CallType
<1>3. /\ call'.result = call.result /\ call'.records = call.records
      /\ call'.listed = call.listed /\ call'.settled = call.settled
      /\ call'.op = call.op /\ call'.id = id
  BY DEF CallType, CallRecord
<1>4. CallTrue' /\ CallSees'
  BY <1>1, <1>3 DEF CallTrue, CallSees, world
<1> QED
  BY <1>1, <1>2, <1>4, AnswerOn

LEMMA GoesKeeps ==
    ASSUME PInv, UNCHANGED world, kind = "komoju", call.op # "none", NEW at \in 2 .. 3, Goes(at)
    PROVE  PInv'
<1>1. call' = [call EXCEPT !.at = at, !.id = call.id]
  BY DEF Goes, PInv, CallType, CallRecord
<1> QED
  BY <1>1, GoesOnKeeps DEF Goes

\* KOMOJU's words for a state of the session: of the session, or of its current
\* payment, which may have failed in an open session.
LEMMA KomojuWords ==
    ASSUME NEW s \in SessionState \ {"VOIDED"}
    PROVE  /\ MapPaymentStatus(KomojuPayment(s)) \in PaymentStatus
           /\ MapPaymentStatus(KomojuPayment(s)) \in {"SUCCESS", "REFUNDED"} => s = "PAID"
           /\ s = "PAID" /\ failed # "current"
                  => MapPaymentStatus(KomojuPayment(s)) \in {"SUCCESS", "REFUNDED"}
           /\ MapPaymentStatus(KomojuPayment(s)) \in ClosedWords
                  => \/ MapPaymentStatus(KomojuPayment(s)) = s
                     \/ MapPaymentStatus(KomojuPayment(s)) = "FAILED" /\ failed = "current"
           /\ MapSessionStatus(KomojuSession(s)) \in ClosedWords \cup {"PENDING"}
           /\ MapSessionStatus(KomojuSession(s)) \in ClosedWords
                  => MapSessionStatus(KomojuSession(s)) = s
<1>1. CASE failed = "current"
  <2>1. KomojuPayment(s) = "failed"
    BY <1>1 DEF KomojuPayment
  <2>2. /\ MapSessionStatus(KomojuSession(s)) \in ClosedWords \cup {"PENDING"}
        /\ MapSessionStatus(KomojuSession(s)) \in ClosedWords
               => MapSessionStatus(KomojuSession(s)) = s
    BY DEF SessionState, KomojuSession, MapSessionStatus, ClosedWords
  <2> QED
    BY <1>1, <2>1, <2>2 DEF MapPaymentStatus, MapSessionStatus, PaymentStatus
<1>2. CASE failed # "current"
  <2>1. /\ s = "OPEN" => KomojuSession(s) = "pending" /\ KomojuPayment(s) = "authorized"
        /\ s = "PAID" => KomojuSession(s) = "completed"
                          /\ KomojuPayment(s) \in {"refunded", "captured"}
        /\ s = "FAILED" => KomojuSession(s) = "failed" /\ KomojuPayment(s) = "failed"
        /\ s = "CANCELED" => KomojuSession(s) = "cancelled" /\ KomojuPayment(s) = "cancelled"
        /\ s = "EXPIRED" => KomojuSession(s) = "expired" /\ KomojuPayment(s) = "expired"
    BY <1>2 DEF KomojuSession, KomojuPayment
  <2> QED
    BY <1>2, <2>1 DEF SessionState, MapPaymentStatus, MapSessionStatus, PaymentStatus, ClosedWords
<1> QED
  BY <1>1, <1>2

\* The status of a payment or a session answers a query or a sync.
LEMMA KomojuAnswersKeep ==
    ASSUME PInv, UNCHANGED world, kind = "komoju", call.op \in {"query", "sync"},
           NEW status \in PaymentStatus, KomojuAnswers(status),
           status \in {"SUCCESS", "REFUNDED"} => session = "PAID",
           session = "PAID" /\ call.id # "earlier" => status \in {"SUCCESS", "REFUNDED"},
           status \in ClosedWords => status = session \/ (status = "FAILED" /\ failed # "none")
    PROVE  PInv'
<1>1. World' /\ Moves /\ session' = session
  BY CancelMoves DEF world
<1>2. call.settled /\ session = "PAID" => status \in {"SUCCESS", "REFUNDED"}
  BY DEF PInv, CallSees
<1>3. CASE call.op = "query"
  <2>1. Answers(status, "NONE")
    BY <1>3 DEF KomojuAnswers
  <2>2. TellsTrue(status)
    BY <1>1, <1>2, <1>3 DEF TellsTrue, PaidWords, PaidStates, ClosedWords, ClosedStates,
                            PaymentStatus
  <2> QED
    BY <1>1, <2>1, <2>2, TrueAnswersKeep
<1>4. CASE call.op = "sync"
  <2> DEFINE word == IF status = "REFUNDED" THEN "PAID"
                     ELSE SyncPaymentStatusFromPaymentStatus(status)
  <2>1. Answers(word, SyncRefundStatusFromPaymentStatus(status))
    BY <1>4 DEF KomojuAnswers
  <2>2. /\ word \in SyncPaymentStatus
        /\ word = "PAID" <=> status \in {"SUCCESS", "REFUNDED"}
        /\ word = "FAILED" => status \in ClosedWords
    BY DEF SyncPaymentStatusFromPaymentStatus, PaymentStatus, SyncPaymentStatus, ClosedWords
  <2> HIDE DEF word
  <2>3. word = "FAILED" => session' \in ClosedStates \/ failed # "none"
    BY <1>1, <2>2 DEF ClosedWords, ClosedStates
  <2>4. TellsTrue(word)
    BY <1>1, <1>2, <1>4, <2>2, <2>3 DEF TellsTrue, SyncPaymentStatus, PaidWords, PaidStates
  <2> QED
    BY <1>1, <2>1, <2>4, TrueAnswersKeep
<1> QED
  BY <1>3, <1>4

\* What a session says: of its payment, once there is one.
LEMMA KomojuSessionSays ==
    ASSUME World, kind = "komoju"
    PROVE  /\ session \in SessionState \ {"VOIDED"}
           /\ ProviderStatusFromSession(session) \in PaymentStatus
           /\ session = "PAID" <=> ProviderStatusFromSession(session) \in {"SUCCESS", "REFUNDED"}
           /\ ProviderStatusFromSession(session) \in ClosedWords
                  => \/ ProviderStatusFromSession(session) = session
                     \/ ProviderStatusFromSession(session) = "FAILED" /\ failed # "none"
<1>1. session \in SessionState \ {"VOIDED"} /\ (session = "PAID" => failed # "current")
  BY DEF World, PaidStates
<1>2. CASE "payment" \in objects
  BY <1>1, <1>2, KomojuWords DEF ProviderStatusFromSession
<1>3. CASE "payment" \notin objects
  <2>1. session # "PAID"
    BY <1>3 DEF World
  <2> QED
    BY <1>1, <1>3, <2>1, KomojuWords DEF ProviderStatusFromSession, ClosedWords, PaymentStatus
<1> QED
  BY <1>1, <1>2, <1>3

\* What a payment says: an earlier attempt only that it failed.
LEMMA KomojuPaymentSays ==
    ASSUME World, CallTrue, kind = "komoju"
    PROVE  LET status == ProviderStatusFromPayment(call.id)
           IN  /\ status \in PaymentStatus
               /\ status \in {"SUCCESS", "REFUNDED"} => session = "PAID"
               /\ session = "PAID" /\ call.id # "earlier" => status \in {"SUCCESS", "REFUNDED"}
               /\ status \in ClosedWords
                      => status = session \/ (status = "FAILED" /\ failed # "none")
<1>1. session \in SessionState \ {"VOIDED"} /\ (session = "PAID" => failed # "current")
  BY DEF World, PaidStates
<1>2. CASE call.id = "earlier"
  <2>1. ProviderStatusFromPayment(call.id) = "FAILED" /\ failed # "none"
    BY <1>2 DEF ProviderStatusFromPayment, MapPaymentStatus, MapSessionStatus, CallTrue
  <2> QED
    BY <1>2, <2>1 DEF PaymentStatus
<1>3. CASE call.id # "earlier"
  BY <1>1, <1>3, KomojuWords DEF ProviderStatusFromPayment
<1> QED
  BY <1>2, <1>3

LEMMA KomojuGetsSessionKeeps == ASSUME PInv, KomojuGetsSession PROVE PInv'
<1>1. UNCHANGED world /\ kind = "komoju" /\ call.op \in {"query", "sync"}
  BY DEF KomojuGetsSession, Running
<1>2. CASE call.id = "session"
  BY <1>1, <1>2, KomojuSessionSays, KomojuAnswersKeep DEF KomojuGetsSession, PInv
<1>3. CASE call.id # "session"
  BY <1>1, <1>3, GoesKeeps DEF KomojuGetsSession
<1> QED
  BY <1>2, <1>3

LEMMA KomojuGetsPaymentKeeps == ASSUME PInv, KomojuGetsPayment PROVE PInv'
<1>1. UNCHANGED world /\ kind = "komoju" /\ call.op \in {"query", "sync"}
  BY DEF KomojuGetsPayment, Running
<1>2. KomojuAnswers(ProviderStatusFromPayment(call.id))
  BY DEF KomojuGetsPayment
<1> QED
  BY <1>1, <1>2, KomojuPaymentSays, KomojuAnswersKeep DEF PInv

LEMMA KomojuCancelsSessionKeeps == ASSUME PInv, KomojuCancelsSession PROVE PInv'
<1>1. /\ kind = "komoju" /\ call.op = "cancel"
      /\ UNCHANGED <<kind, cfg, objects, failed, shows, refunds>>
  BY DEF KomojuCancelsSession, Running
<1>2. CASE session = "OPEN" /\ session' = "CANCELED"
           /\ \E word \in {"PENDING", "CANCELED", "FAILED"} : Answers(word, "NONE")
  BY <1>1, <1>2, CancelMoves, AnswersKeep DEF PaidWords, ClosedStates
<1>3. CASE Goes(2) /\ session' = session
  <2>1. UNCHANGED world
    BY <1>1, <1>3 DEF world
  <2> QED
    BY <1>1, <1>3, <2>1, GoesKeeps
<1>4. \A s \in {"OPEN", "CANCELED"} :
        /\ MapKomojuCancelStatus(KomojuPayment(s)) \in {"PENDING", "CANCELED", "FAILED"}
        /\ MapKomojuCancelStatus(KomojuSession(s)) \in {"PENDING", "CANCELED", "FAILED"}
  <2>1. \A s \in {"OPEN", "CANCELED"} :
          /\ KomojuSession(s) \in {"pending", "cancelled"}
          /\ KomojuPayment(s) \in {"failed", "authorized", "cancelled"}
    BY DEF KomojuPayment, KomojuSession
  <2> QED
    BY <2>1 DEF MapKomojuCancelStatus
<1>5. \/ session = "OPEN" /\ session' = "CANCELED"
         /\ \E s \in {"OPEN", "CANCELED"} :
              Answers(MapKomojuCancelStatus(IF "payment" \in objects THEN KomojuPayment(s)
                                            ELSE KomojuSession(s)), "NONE")
      \/ Goes(2) /\ session' = session
  BY DEF KomojuCancelsSession
<1> QED
  BY <1>2, <1>3, <1>4, <1>5

LEMMA KomojuCancelAsksKeeps == ASSUME PInv, KomojuCancelAsks PROVE PInv'
<1>1. UNCHANGED world /\ kind = "komoju" /\ call.op = "cancel"
  BY DEF KomojuCancelAsks, Running
<1>2. PICK status : status = IF call.id = "session" THEN ProviderStatusFromSession(session)
                             ELSE ProviderStatusFromPayment(call.id)
  OBVIOUS
<1>3. /\ status \in {"SUCCESS", "REFUNDED"} => session = "PAID"
      /\ status \in ClosedWords => status = session \/ (status = "FAILED" /\ failed # "none")
  BY <1>1, <1>2, KomojuSessionSays, KomojuPaymentSays DEF PInv
<1>4. \/ Answers("FAILED", "NONE")
      \/ status \in {"SUCCESS", "REFUNDED"} /\ Answers("ALREADY_PAID", "NONE")
      \/ status \in {"FAILED", "CANCELED"} /\ Answers("CANCELED", "NONE")
      \/ status = "EXPIRED" /\ Answers("EXPIRED", "NONE")
      \/ (\E id \in {call.id, "payment"} : call' = [call EXCEPT !.at = 3, !.id = id])
         /\ answer' = answer
  BY <1>2 DEF KomojuCancelAsks
<1>5. World' /\ Moves /\ session' = session
  BY <1>1, CancelMoves DEF world
<1>6. ASSUME NEW id \in {call.id, "payment"}, call' = [call EXCEPT !.at = 3, !.id = id],
             answer' = answer
      PROVE  PInv'
  <2>1. call.op # "none" /\ 3 \in 2 .. 3
    BY <1>1
  <2> QED
    BY <1>1, <1>6, <2>1, GoesOnKeeps
<1>7. CASE Answers("FAILED", "NONE")
  BY <1>1, <1>5, <1>7, AnswersKeep DEF PaidWords
<1>8. CASE status \in {"SUCCESS", "REFUNDED"} /\ Answers("ALREADY_PAID", "NONE")
  BY <1>1, <1>3, <1>5, <1>8, AnswersKeep DEF PaidStates
<1>9. CASE status \in {"FAILED", "CANCELED"} /\ Answers("CANCELED", "NONE")
  <2>1. TellsTrue("CANCELED")
    BY <1>1, <1>3, <1>5, <1>9 DEF TellsTrue, PaidWords, ClosedWords, ClosedStates
  <2> QED
    BY <1>5, <1>9, <2>1, TrueAnswersKeep
<1>10. CASE status = "EXPIRED" /\ Answers("EXPIRED", "NONE")
  BY <1>1, <1>3, <1>5, <1>10, AnswersKeep DEF PaidWords, ClosedWords, ClosedStates
<1> QED
  BY <1>4, <1>6, <1>7, <1>8, <1>9, <1>10

LEMMA KomojuCancelsPaymentKeeps == ASSUME PInv, KomojuCancelsPayment PROVE PInv'
<1>1. /\ call.op = "cancel" /\ session = "OPEN" /\ session' = "CANCELED" /\ failed # "current"
      /\ UNCHANGED <<kind, cfg, objects, failed, shows, refunds>>
      /\ Answers(MapKomojuCancelStatus(KomojuPayment("CANCELED")), "NONE")
  BY DEF KomojuCancelsPayment, Running
<1>2. MapKomojuCancelStatus(KomojuPayment("CANCELED")) = "CANCELED"
  BY <1>1 DEF MapKomojuCancelStatus, KomojuPayment, KomojuSession
<1> QED
  BY <1>1, <1>2, CancelMoves, AnswersKeep DEF PaidWords, ClosedStates

-----------------------------------------------------------------------------
\* The generic provider

\* A configured word means the state it is configured for.
LEMMA GenericWords ==
    ASSUME World, kind = "generic"
    PROVE  /\ cfg \in GenericConfig /\ session \in SessionState \ {"VOIDED"}
           /\ MapStatus(cfg, GenericRaw(session)) \in PaymentStatus
           /\ MapStatus(cfg, GenericRaw(session)) = "SUCCESS" => session = "PAID"
           /\ MapStatus(cfg, GenericRaw(session)) \in ClosedWords => session \in ClosedStates
           /\ session = "PAID" /\ ~Hidden =>
                 \/ MapStatus(cfg, GenericRaw(session)) = "SUCCESS"
                 \/ /\ cfg.refund # "" /\ GenericRaw(session) = cfg.refund
                    /\ MapStatus(cfg, GenericRaw(session)) = "REFUNDED"
           /\ GenericRaw(session) = cfg.refund /\ cfg.refund # "" => session = "PAID"
<1>1. cfg \in GenericConfig /\ session \in SessionState \ {"VOIDED"}
  BY ConfigsAssumption DEF World
<1>2. /\ cfg.success = "PAID" /\ cfg.pending = "OPEN" /\ cfg.refund \in {"", "REFUNDED"}
      /\ cfg.failed \subseteq {"FAILED", "CANCELED", "EXPIRED"}
  BY <1>1 DEF GenericConfig
<1>3. /\ GenericRaw(session) = IF session = "PAID" /\ FullyRefunded THEN "REFUNDED" ELSE session
      /\ Hidden <=> cfg.refund = "" /\ FullyRefunded
  BY DEF GenericRaw, Hidden
<1>4. GenericRaw(session) \in {"OPEN", "PAID", "REFUNDED", "FAILED", "CANCELED", "EXPIRED"}
  BY <1>1, <1>3 DEF SessionState
<1>5. /\ MapStatus(cfg, GenericRaw(session)) \in PaymentStatus
      /\ MapStatus(cfg, GenericRaw(session)) = "SUCCESS" <=> GenericRaw(session) = "PAID"
      /\ MapStatus(cfg, GenericRaw(session)) \in ClosedWords
            => GenericRaw(session) \in {"FAILED", "CANCELED", "EXPIRED"}
      /\ GenericRaw(session) = "REFUNDED" /\ cfg.refund # ""
            => MapStatus(cfg, GenericRaw(session)) = "REFUNDED"
  BY <1>2, <1>4 DEF MapStatus, PaymentStatus, ClosedWords
<1>6. /\ GenericRaw(session) \in {"PAID", "REFUNDED"} <=> session = "PAID"
      /\ GenericRaw(session) \in {"FAILED", "CANCELED", "EXPIRED"} => session \in ClosedStates
      /\ GenericRaw(session) = "REFUNDED" /\ cfg.refund = "" => Hidden
  BY <1>1, <1>3 DEF SessionState, ClosedStates
<1> QED
  BY <1>1, <1>2, <1>5, <1>6

LEMMA GenericQueryKeeps == ASSUME PInv, GenericQuery PROVE PInv'
<1> USE DEF PInv
<1> DEFINE word == MapStatus(cfg, GenericRaw(session))
<1>1. kind = "generic" /\ call.op = "query" /\ Answers(word, "NONE") /\ UNCHANGED world
  BY DEF GenericQuery, Running
<1>2. World' /\ Moves /\ session' = session
  BY <1>1, CancelMoves DEF world
<1>3. /\ word \in PaymentStatus
      /\ word = "SUCCESS" => session \in PaidStates
      /\ word \in ClosedWords => session \in ClosedStates
      /\ session = "PAID" /\ ~Hidden => word \in {"SUCCESS", "REFUNDED"}
  BY <1>1, GenericWords DEF PaidStates
<1> HIDE DEF word
<1> QED
  BY <1>1, <1>2, <1>3, AnswersKeep DEF PaymentStatus, PaidWords, ClosedWords

LEMMA GenericSyncKeeps == ASSUME PInv, GenericSync PROVE PInv'
<1> USE DEF PInv
<1> DEFINE word == MapStatus(cfg, GenericRaw(session))
           reports == cfg.refund # "" /\ GenericRaw(session) = cfg.refund
           payment == IF reports THEN "PAID" ELSE SyncPaymentStatusFromPaymentStatus(word)
<1>1. kind = "generic" /\ call.op = "sync" /\ UNCHANGED world
  BY DEF GenericSync, Running
<1>2. World' /\ Moves /\ session' = session
  BY <1>1, CancelMoves DEF world
<1>3. CASE ~cfg.status
  <2>1. Answers("UNSUPPORTED", "UNSUPPORTED")
    BY <1>3 DEF GenericSync
  <2>2. ~(call.settled /\ session = "PAID")
    BY <1>1, <1>3 DEF CallSees
  <2> QED
    BY <1>1, <1>2, <2>1, <2>2, AnswersKeep DEF PaidWords
<1>4. CASE cfg.status
  <2>1. PICK refund : Answers(payment, refund)
    BY <1>4 DEF GenericSync
  <2>2. /\ payment \in SyncPaymentStatus
        /\ payment = "PAID" => session \in PaidStates
        /\ payment = "FAILED" => session \in ClosedStates
        /\ session = "PAID" /\ ~Hidden => payment = "PAID"
    BY <1>1, GenericWords DEF SyncPaymentStatusFromPaymentStatus, SyncPaymentStatus, PaidStates,
                              ClosedWords
  <2> HIDE DEF payment
  <2> QED
    BY <1>1, <1>2, <2>1, <2>2, AnswersKeep DEF SyncPaymentStatus, PaidWords
<1> QED
  BY <1>3, <1>4

LEMMA GenericCancelKeeps == ASSUME PInv, GenericCancel PROVE PInv'
<1> USE DEF PInv
<1>1. /\ kind = "generic" /\ call.op = "cancel"
      /\ UNCHANGED <<kind, cfg, objects, failed, shows, refunds>>
  BY DEF GenericCancel, Running
<1>2. CASE ~cfg.cancels
  <2>1. Answers("UNSUPPORTED", "NONE") /\ session' = session
    BY <1>2 DEF GenericCancel
  <2> QED
    BY <1>1, <2>1, CancelMoves, AnswersKeep DEF PaidWords
<1>3. CASE cfg.cancels
  <2> DEFINE raw == IF cfg.cancel.success = {} THEN "" ELSE GenericRaw(session')
             word == MapCancelStatus(cfg, raw)
  <2>1. /\ session' = IF session = "OPEN" THEN "CANCELED" ELSE session
        /\ cfg.cancel.success = {} => session = "OPEN"
        /\ Answers(word, "NONE")
    BY <1>3 DEF GenericCancel
  <2>2. World' /\ Moves
    BY <1>1, <2>1, CancelMoves
  <2>3. session' \in SessionState \ {"VOIDED"}
    BY <1>1, <2>2 DEF World
  <2>4. /\ cfg.cancel.success \subseteq {"CANCELED"} /\ cfg.cancel.expired \subseteq {"EXPIRED"}
        /\ cfg.cancel.paid \subseteq {"PAID", "REFUNDED"}
        /\ cfg.cancel.pending \subseteq {"OPEN"}
    BY <1>1, GenericWords DEF GenericConfig
  <2>5. /\ raw = "CANCELED" => session' = "CANCELED"
        /\ raw = "EXPIRED" => session' = "EXPIRED"
        /\ raw \in {"PAID", "REFUNDED"} => session' = "PAID"
        /\ cfg.cancel.success = {} => session' = "CANCELED"
    BY <2>1, <2>3 DEF GenericRaw, SessionState
  <2> HIDE DEF raw
  <2>6. /\ word \in PaidWords => session' \in PaidStates
        /\ word \in {"CANCELED", "EXPIRED"} => session' \in ClosedStates
    BY <2>4, <2>5 DEF MapCancelStatus, PaidWords, PaidStates, ClosedStates
  <2> HIDE DEF word
  <2> QED
    BY <1>1, <2>1, <2>2, <2>6, AnswersKeep
<1> QED
  BY <1>2, <1>3

-----------------------------------------------------------------------------
\* Webhooks

\* A webhook that tells what is or was true keeps the invariant.
LEMMA TellsKeeps ==
    ASSUME PInv, NEW op, NEW payment, Tells(op, payment),
           payment \in PaidWords => session \in PaidStates,
           payment \in ClosedWords /\ op # "refundWebhook"
               => \/ session \in ClosedStates
                  \/ payment = "FAILED" /\ failed # "none",
           payment \notin {"CANCELED", "EXPIRED"} \/ op # "refundWebhook"
    PROVE  PInv'
<1> USE DEF PInv
<1>1. UNCHANGED <<world, call>>
  BY DEF Tells
<1>2. World' /\ session' = session /\ failed' = failed /\ kind' = kind
  BY <1>1, CancelMoves DEF world
<1>3. CallType' /\ CallTrue'
  BY <1>1, <1>2 DEF CallType, CallRecord, CallTrue
<1>4. CallSees'
  BY <1>1, <1>2 DEF world, CallSees, SyncSees
<1>5. answer' = [op |-> op, payment |-> payment, refund |-> "NONE", expected |-> FALSE]
  BY DEF Tells, NoAnswer
<1>6. PaidIsPaid' /\ ClosedIsClosed' /\ PaidIsSeen'
  BY <1>2, <1>5 DEF PaidIsPaid, SaysPaid, ClosedIsClosed, SaysClosed, MayBeAnAttempt,
                    PaidIsSeen, PaidWords, ClosedWords, PaidStates, ClosedStates, World
<1> QED
  BY <1>2, <1>3, <1>4, <1>6

\* A state that has passed was paid only if the payment is or was made, and
\* closed only if it is closed now.
LEMMA WebhookKeeps == ASSUME PInv, Webhook PROVE PInv'
<1> USE DEF PInv
<1>1. PICK s \in Past(session) :
        \/ kind = "xendit" /\ Tells("webhook", MapPaymentSessionStatus(XenditSession(s)))
        \/ /\ kind = "komoju" /\ "payment" \in objects
           /\ \/ Tells("webhook", MapPaymentStatus(KomojuPayment(s)))
              \/ failed # "none" /\ Tells("webhook", MapPaymentStatus("failed"))
        \/ kind = "generic" /\ Tells("webhook", MapWebhookStatus(cfg, GenericRaw(s)))
  BY DEF Webhook
<1>2. /\ s \in SessionState
      /\ s \in PaidStates => session \in PaidStates
      /\ s \in ClosedStates => session = s
      /\ kind # "xendit" => s # "VOIDED"
  BY DEF Past, World, SessionState, PaidStates, ClosedStates
<1>3. CASE kind = "xendit" /\ Tells("webhook", MapPaymentSessionStatus(XenditSession(s)))
  <2> DEFINE word == MapPaymentSessionStatus(XenditSession(s))
  <2>1. /\ word \in PaidWords => s \in PaidStates
        /\ word \in ClosedWords => s \in ClosedStates
    BY <1>2 DEF SessionState, MapPaymentSessionStatus, XenditSession, XenditPaid, PaidWords,
                ClosedWords, PaidStates, ClosedStates
  <2> HIDE DEF word
  <2>2. Tells("webhook", word)
    BY <1>3 DEF word
  <2> QED
    BY <1>2, <2>1, <2>2, TellsKeeps
<1>4. CASE kind = "komoju" /\ Tells("webhook", MapPaymentStatus(KomojuPayment(s)))
  <2> DEFINE word == MapPaymentStatus(KomojuPayment(s))
  <2>1. /\ word \in PaidWords => s \in PaidStates
        /\ word \in ClosedWords => s \in ClosedStates \/ (word = "FAILED" /\ failed # "none")
    BY <1>2, <1>4, KomojuWords DEF PaymentStatus, PaidWords, ClosedWords, PaidStates, ClosedStates
  <2> HIDE DEF word
  <2>2. Tells("webhook", word)
    BY <1>4 DEF word
  <2> QED
    BY <1>2, <2>1, <2>2, TellsKeeps
<1>5. CASE kind = "generic" /\ Tells("webhook", MapWebhookStatus(cfg, GenericRaw(s)))
  <2> DEFINE word == MapWebhookStatus(cfg, GenericRaw(s))
  <2>1. cfg.success = "PAID" /\ cfg.webhookFailed = "FAILED"
    BY ConfigsAssumption DEF World, GenericConfig
  <2>2. /\ GenericRaw(s) = "PAID" => s = "PAID"
        /\ GenericRaw(s) = "FAILED" => s = "FAILED"
    BY <1>2 DEF GenericRaw, SessionState
  <2>3. /\ word \in PaidWords => s \in PaidStates
        /\ word \in ClosedWords => s \in ClosedStates
    BY <2>1, <2>2 DEF MapWebhookStatus, PaidWords, ClosedWords, PaidStates, ClosedStates
  <2> HIDE DEF word
  <2>4. Tells("webhook", word)
    BY <1>5 DEF word
  <2> QED
    BY <1>2, <2>3, <2>4, TellsKeeps
<1>6. CASE failed # "none" /\ Tells("webhook", MapPaymentStatus("failed"))
  <2>1. MapPaymentStatus("failed") = "FAILED"
    BY DEF MapPaymentStatus, MapSessionStatus
  <2> QED
    BY <1>6, <2>1, TellsKeeps DEF PaidWords
<1> QED
  BY <1>1, <1>3, <1>4, <1>5, <1>6

LEMMA RefundWebhookKeeps ==
    ASSUME PInv, NEW r \in RefundIds, RefundWebhook(r)
    PROVE  PInv'
<1> DEFINE word == [PENDING |-> "PENDING", SUCCESS |-> "REFUNDED",
                    FAILED |-> "FAILED"][refunds[r].status]
<1>1. refunds[r].status \in {"PENDING", "SUCCESS", "FAILED"}
  BY DEF PInv, World, RefundWebhook, Made
<1>2. word \in {"PENDING", "REFUNDED", "FAILED"}
  BY <1>1
<1> HIDE DEF word
<1>3. Tells("refundWebhook", word)
  BY DEF RefundWebhook, word
<1> QED
  BY <1>2, <1>3, TellsKeeps DEF PaidWords

-----------------------------------------------------------------------------
\* The invariant holds

LEMMA InitHolds == ASSUME Init PROVE PInv
<1> USE DEF Init
<1>1. cfg \in Configs /\ Made = {} /\ call = Idle /\ answer = NoAnswer
  BY DEF Made
<1>2. World
  BY <1>1 DEF World, SessionState, Objects, Past, PaidStates
<1>3. CallType /\ CallTrue /\ CallSees
  BY <1>1 DEF Idle, NoResult, CallType, CallRecord, CallTrue, CallSees, Fits, PaidWords,
              ClosedWords, Objects, SyncPaymentStatus, SyncRefundStatus
<1>4. PaidIsPaid /\ ClosedIsClosed /\ PaidIsSeen
  BY <1>1 DEF NoAnswer, PaidIsPaid, SaysPaid, ClosedIsClosed, SaysClosed, PaidIsSeen
<1> QED
  BY <1>2, <1>3, <1>4 DEF PInv

LEMMA StutterKeeps == ASSUME PInv, UNCHANGED vars PROVE PInv'
<1> USE DEF PInv
<1>1. UNCHANGED <<world, call, answer>>
  BY DEF vars, world
<1>2. World' /\ Moves
  BY <1>1, CancelMoves DEF world
<1> QED
  BY <1>1, <1>2, WorldStep DEF world

LEMMA NextKeeps == ASSUME PInv, [Next]_vars PROVE PInv'
<1>1. CASE Environment
  BY <1>1, AttemptedKeeps, AttemptFailsKeeps, TriesAgainKeeps, SettlesKeeps, CatchesUpKeeps,
     RefundsKeep
  DEF Environment
<1>2. CASE \E op \in {"query", "sync", "cancel"}, id \in {"session", "request", "payment", "earlier"} :
             Calls(op, id)
  BY <1>2, CallsKeeps
<1>3. CASE CallFails
  BY <1>3, CallFailsKeeps
<1>4. CASE Xendit
  BY <1>4, XenditQueryKeeps, XenditCancelKeeps, SyncReadsSessionKeeps, SyncReadsRequestKeeps,
     SyncReadsPaymentKeeps, SyncReadsHistoryKeeps, SyncReadsRefundsKeeps, SyncRepliesKeeps
  DEF Xendit
<1>5. CASE Komoju
  BY <1>5, KomojuGetsSessionKeeps, KomojuGetsPaymentKeeps, KomojuCancelsSessionKeeps,
     KomojuCancelAsksKeeps, KomojuCancelsPaymentKeeps
  DEF Komoju
<1>6. CASE Generic
  BY <1>6, GenericQueryKeeps, GenericSyncKeeps, GenericCancelKeeps DEF Generic
<1>7. CASE Webhook \/ \E r \in RefundIds : RefundWebhook(r)
  BY <1>7, WebhookKeeps, RefundWebhookKeeps
<1>8. CASE UNCHANGED vars
  BY <1>8, StutterKeeps
<1> QED
  BY <1>1, <1>2, <1>3, <1>4, <1>5, <1>6, <1>7, <1>8 DEF Next

\* What a running call has read stays true of the provider, and a payment that
\* was settled before the call was read or will be.
THEOREM ProvidersInvariant == Spec => []PInv
<1> QED
  BY InitHolds, NextKeeps, PTL DEF Spec

\* The gateway is told of a payment only if it was made: in every order of
\* the reads, the lags of the resources and the delays of the webhooks.
THEOREM PaidIsPaidHolds == Spec => []PaidIsPaid
<1>1. PInv => PaidIsPaid
  BY DEF PInv
<1> QED
  BY <1>1, ProvidersInvariant, PTL

\* The gateway is told that a payment ended unpaid only if nobody can pay it
\* any more, or if a KOMOJU payment of the session did fail - before the session
\* is paid with another one, or after.
THEOREM ClosedIsClosedHolds == Spec => []ClosedIsClosed
<1>1. PInv => ClosedIsClosed
  BY DEF PInv
<1> QED
  BY <1>1, ProvidersInvariant, PTL

\* A query or sync that starts after the settlement can be read reports it.
THEOREM PaidIsSeenHolds == Spec => []PaidIsSeen
<1>1. PInv => PaidIsSeen
  BY DEF PInv
<1> QED
  BY <1>1, ProvidersInvariant, PTL

-----------------------------------------------------------------------------
\* Sums over finite sets

\* A finite set is in G, if every subset is whose own strict subsets are.
LEMMA StrictSubsetInduction ==
  ASSUME NEW S, IsFiniteSet(S), NEW G,
         \A T \in SUBSET S : (\A U \in SUBSET T : U # T => U \in G) => T \in G
  PROVE  S \in G
<1> DEFINE bad == (SUBSET S) \ G
           order == StrictSubsetOrdering(S)
<1>1. IsWellFoundedOn(order, SUBSET S)
  BY FS_FiniteSubsetsOfFinite, FS_StrictSubsetOrderingWellFounded
<1>2. SUFFICES ASSUME bad # {} PROVE FALSE
  OBVIOUS
<1>3. PICK T \in bad : \A U \in bad : ~(<<U, T>> \in order)
  <2> HIDE DEF bad, order
  <2>1. bad \subseteq SUBSET S
    BY DEF bad
  <2> QED
    BY <1>1, <1>2, <2>1, WFMin
<1>4. ASSUME NEW U \in SUBSET T, U # T PROVE U \in G
  <2>1. T \in SUBSET S /\ U \in SUBSET S
    BY <1>4
  <2>2. <<U, T>> \in order
    BY <1>4, <2>1 DEF StrictSubsetOrdering
  <2> QED
    BY <1>3, <2>1, <2>2
<1> QED
  BY <1>3, <1>4

\* A finite set is in G, if the empty set is and one more element leaves no set
\* of G outside.
LEMMA SubsetInduction ==
  ASSUME NEW S, IsFiniteSet(S), NEW G, {} \in G,
         \A T \in SUBSET S : \A x \in S \ T : T \in G => T \cup {x} \in G
  PROVE  S \in G
<1>1. ASSUME NEW T \in SUBSET S, \A U \in SUBSET T : U # T => U \in G
      PROVE  T \in G
  <2>1. ASSUME NEW x \in T PROVE T \in G
    <3>1. T \ {x} \in G /\ T \ {x} \in SUBSET S /\ x \in S \ (T \ {x})
      BY <1>1, <2>1
    <3>2. (T \ {x}) \cup {x} = T
      BY <2>1
    <3> QED
      BY <3>1, <3>2
  <2> QED
    BY <2>1
<1> QED
  BY <1>1, StrictSubsetInduction

\* The sum of the weights w over S.
Total(w, S) == SumFunctionOnSet(w, S)

\* It takes elements out one by one: the function it chooses exists.
SumStep(w, g, s) == IF s = {} THEN 0
                    ELSE w[CHOOSE x \in s : TRUE] + g[s \ {CHOOSE x \in s : TRUE}]

IsSum(w, g, D) == g = [s \in D |-> SumStep(w, g, s)]

\* There is such a function on the subsets of a finite set.
LEMMA SumExists ==
    ASSUME NEW S, IsFiniteSet(S), NEW w
    PROVE  \E g : IsSum(w, g, SUBSET S)
<1> DEFINE D(n) == {s \in SUBSET S : Cardinality(s) <= n}
           N == Cardinality(S)
           G == {T \in SUBSET S : \E g : IsSum(w, g, D(Cardinality(T)))}
<1>1. \A s \in SUBSET S : IsFiniteSet(s) /\ Cardinality(s) \in Nat /\ Cardinality(s) <= N
                            /\ (Cardinality(s) = 0 <=> s = {})
  BY FS_Subset, FS_CardinalityType, FS_EmptySet
<1>2. {} \in G
  <2>1. Cardinality({}) = 0 /\ D(Cardinality({})) = {{}}
    BY <1>1, FS_EmptySet
  <2> DEFINE g == [s \in {{}} |-> 0]
  <2>2. g = [s \in {{}} |-> SumStep(w, g, s)]
    BY DEF SumStep
  <2> QED
    BY <2>1, <2>2 DEF IsSum
<1>3. ASSUME NEW T \in SUBSET S, NEW x \in S \ T, T \in G PROVE T \cup {x} \in G
  <2> DEFINE n == Cardinality(T)
  <2>1. n \in Nat /\ Cardinality(T \cup {x}) = n + 1 /\ T \cup {x} \in SUBSET S
    BY <1>1, FS_AddElement
  <2>2. PICK g : IsSum(w, g, D(n))
    BY <1>3
  <2> DEFINE h == [s \in D(n + 1) |-> SumStep(w, g, s)]
  <2>3. ASSUME NEW s \in D(n + 1) PROVE SumStep(w, g, s) = SumStep(w, h, s)
    <3>1. CASE s = {}
      BY <3>1 DEF SumStep
    <3>2. CASE s # {}
      <4> DEFINE c == CHOOSE y \in s : TRUE
                 t == s \ {c}
      <4>1. c \in s
        BY <3>2
      <4>2. t \in SUBSET S /\ Cardinality(t) = Cardinality(s) - 1
        BY <1>1, <4>1, FS_RemoveElement
      <4>3. t \in D(n) /\ t \in D(n + 1)
        BY <1>1, <2>1, <4>2
      <4>4. g[t] = SumStep(w, g, t)
        BY <2>2, <4>3 DEF IsSum
      <4>5. h[t] = SumStep(w, g, t)
        BY <4>3
      <4> QED
        BY <3>2, <4>4, <4>5 DEF SumStep
    <3> QED
      BY <3>1, <3>2
  <2>4. h = [s \in D(n + 1) |-> SumStep(w, h, s)]
    <3> HIDE DEF h
    <3>1. h = [s \in D(n + 1) |-> SumStep(w, g, s)]
      BY DEF h
    <3> QED
      BY <2>3, <3>1
  <2> QED
    BY <2>1, <2>4 DEF IsSum
<1>4. S \in G
  <2> HIDE DEF G
  <2> QED
    BY <1>2, <1>3, SubsetInduction
<1>5. D(N) = SUBSET S
  BY <1>1
<1> QED
  BY <1>4, <1>5

\* It is what the sum is.
LEMMA SumEquation ==
    ASSUME NEW S, IsFiniteSet(S), NEW w
    PROVE  \E g : IsSum(w, g, SUBSET S) /\ Total(w, S) = g[S]
<1> DEFINE iter == CHOOSE g : g = [s \in SUBSET S |-> SumStep(w, g, s)]
<1>1. iter = [s \in SUBSET S |-> SumStep(w, iter, s)]
  BY SumExists DEF IsSum
<1>2. Total(w, S) = iter[S]
  BY DEF Total, SumFunctionOnSet, FoldFunctionOnSet, MapThenFoldSet, SumStep
<1> QED
  BY <1>1, <1>2 DEF IsSum

\* A sum is 0, or the weight of some element and the sum over the others.
LEMMA SumUnfold ==
    ASSUME NEW S, IsFiniteSet(S), NEW w
    PROVE  /\ Total(w, {}) = 0
           /\ S # {} => \E x \in S : Total(w, S) = w[x] + Total(w, S \ {x})
<1>1. Total(w, {}) = 0
  BY SumEquation, FS_EmptySet DEF IsSum, SumStep
<1>2. ASSUME S # {} PROVE \E x \in S : Total(w, S) = w[x] + Total(w, S \ {x})
  <2>1. PICK g : IsSum(w, g, SUBSET S) /\ Total(w, S) = g[S]
    BY SumEquation
  <2>2. PICK x \in S : x = CHOOSE y \in S : TRUE
    BY <1>2
  <2>3. Total(w, S) = w[x] + g[S \ {x}]
    BY <1>2, <2>1, <2>2 DEF IsSum, SumStep
  <2>4. IsFiniteSet(S \ {x})
    BY FS_Subset
  <2>5. PICK h : IsSum(w, h, SUBSET (S \ {x})) /\ Total(w, S \ {x}) = h[S \ {x}]
    BY <2>4, SumEquation
  <2> DEFINE G == {T \in SUBSET (S \ {x}) : g[T] = h[T]}
  <2>6. ASSUME NEW T \in SUBSET (S \ {x}), \A U \in SUBSET T : U # T => U \in G
        PROVE  T \in G
    <3>1. g[T] = SumStep(w, g, T) /\ h[T] = SumStep(w, h, T)
      BY <2>1, <2>5 DEF IsSum
    <3>2. CASE T = {}
      BY <3>1, <3>2 DEF SumStep
    <3>3. CASE T # {}
      <4>1. (CHOOSE y \in T : TRUE) \in T
        BY <3>3
      <4>2. g[T \ {CHOOSE y \in T : TRUE}] = h[T \ {CHOOSE y \in T : TRUE}]
        BY <2>6, <4>1
      <4> QED
        BY <3>1, <3>3, <4>2 DEF SumStep
    <3> QED
      BY <3>2, <3>3
  <2>7. S \ {x} \in G
    <3> HIDE DEF G
    <3> QED
      BY <2>4, <2>6, StrictSubsetInduction
  <2> QED
    BY <2>3, <2>5, <2>7
<1> QED
  BY <1>1, <1>2

\* Sums of naturals are naturals; any element may be taken out first.
LEMMA SumRemove ==
    ASSUME NEW S, IsFiniteSet(S), NEW w, \A x \in S : w[x] \in Nat
    PROVE  /\ Total(w, S) \in Nat
           /\ \A x \in S : Total(w, S) = w[x] + Total(w, S \ {x})
<1> DEFINE G == {T \in SUBSET S : Total(w, T) \in Nat
                                  /\ \A x \in T : Total(w, T) = w[x] + Total(w, T \ {x})}
<1>1. ASSUME NEW T \in SUBSET S, \A U \in SUBSET T : U # T => U \in G
      PROVE  T \in G
  <2>1. IsFiniteSet(T)
    BY FS_Subset
  <2>2. CASE T = {}
    BY <2>1, <2>2, SumUnfold
  <2>3. CASE T # {}
    <3>1. PICK c \in T : Total(w, T) = w[c] + Total(w, T \ {c})
      BY <2>1, <2>3, SumUnfold
    <3>2. w[c] \in Nat /\ Total(w, T \ {c}) \in Nat
      BY <1>1, <3>1
    <3>3. Total(w, T) \in Nat
      BY <3>1, <3>2
    <3>4. ASSUME NEW x \in T, x # c PROVE Total(w, T) = w[x] + Total(w, T \ {x})
      <4>1. T \ {c} \in G /\ x \in T \ {c} /\ T \ {x} \in G /\ c \in T \ {x}
        BY <1>1, <3>4
      <4>2. Total(w, T \ {c}) = w[x] + Total(w, (T \ {c}) \ {x})
        BY <4>1
      <4>3. Total(w, T \ {x}) = w[c] + Total(w, (T \ {x}) \ {c})
        BY <4>1
      <4>4. (T \ {c}) \ {x} = (T \ {x}) \ {c} /\ (T \ {c}) \ {x} \in G
        BY <1>1, <3>4
      <4>5. PICK n \in Nat : n = Total(w, (T \ {c}) \ {x})
        BY <4>4
      <4>6. w[x] \in Nat
        BY <3>4
      <4>7. Total(w, T \ {c}) = w[x] + n /\ Total(w, T \ {x}) = w[c] + n
        BY <4>2, <4>3, <4>4, <4>5
      <4> HIDE DEF G
      <4> QED
        BY <3>1, <3>2, <4>5, <4>6, <4>7
    <3> QED
      BY <3>1, <3>3, <3>4
  <2> QED
    BY <2>2, <2>3
<1>2. S \in G
  <2> HIDE DEF G
  <2> QED
    BY <1>1, StrictSubsetInduction
<1> QED
  BY <1>2

\* Distinct elements with the weights of distinct ones weigh no more than all of
\* these.
LEMMA SumInjected ==
    ASSUME NEW S, IsFiniteSet(S), NEW v, NEW T, IsFiniteSet(T), NEW w,
           NEW f \in [S -> T], \A x, y \in S : f[x] = f[y] => x = y,
           \A x \in S : v[x] = w[f[x]], \A y \in T : w[y] \in Nat
    PROVE  Total(v, S) <= Total(w, T)
<1> DEFINE G == {A \in SUBSET S : \A B \in SUBSET T :
                    (\A x \in A : f[x] \in B) => Total(v, A) <= Total(w, B)}
<1>1. \A x \in S : v[x] \in Nat
  OBVIOUS
<1>2. {} \in G
  <2>1. Total(v, {}) = 0
    BY SumUnfold
  <2>2. ASSUME NEW B \in SUBSET T PROVE Total(w, B) \in Nat
    BY FS_Subset, SumRemove
  <2> QED
    BY <2>1, <2>2
<1>3. ASSUME NEW A \in SUBSET S, NEW x \in S \ A, A \in G
      PROVE  A \cup {x} \in G
  <2> SUFFICES ASSUME NEW B \in SUBSET T, \A y \in A \cup {x} : f[y] \in B
               PROVE  Total(v, A \cup {x}) <= Total(w, B)
    OBVIOUS
  <2>1. IsFiniteSet(A \cup {x}) /\ IsFiniteSet(B) /\ IsFiniteSet(A)
        /\ IsFiniteSet(B \ {f[x]})
    BY FS_Subset
  <2>2. (A \cup {x}) \ {x} = A /\ f[x] \in B
    BY <1>3
  <2>3. Total(v, A \cup {x}) = v[x] + Total(v, A) /\ Total(v, A) \in Nat
    BY <1>1, <2>1, <2>2, SumRemove
  <2>4. Total(w, B) = w[f[x]] + Total(w, B \ {f[x]}) /\ Total(w, B \ {f[x]}) \in Nat
    BY <2>1, <2>2, SumRemove
  <2>5. \A y \in A : f[y] \in B \ {f[x]}
    BY <1>3
  <2>6. Total(v, A) <= Total(w, B \ {f[x]})
    BY <1>3, <2>5
  <2>7. v[x] = w[f[x]] /\ v[x] \in Nat
    BY <1>1, <1>3
  <2> HIDE DEF G
  <2> QED
    BY <2>3, <2>4, <2>6, <2>7
<1>4. S \in G
  <2> HIDE DEF G
  <2> QED
    BY <1>2, <1>3, SubsetInduction
<1> QED
  BY <1>4

-----------------------------------------------------------------------------
\* The refunds that calls and answers speak of

Amounts == [r \in RefundIds |-> refunds[r].amount]

\* What was asked back in all: of whatever became of a refund.
Asked == Total(Amounts, Made)

RefundsType ==
    refunds \in [RefundIds -> [status : {"NONE", "PENDING", "SUCCESS", "FAILED"},
                               amount : 0 .. TxAmount]]

\* An item that was read is one of the refunds that were made.
IsRefund(x) == x.id \in Made /\ x.amount = refunds[x.id].amount

\* No refund is among the items twice.
OneEach(items) == \A x, y \in items : x.id = y.id => x = y

\* What the running call has read of the refunds.
ReadTrue ==
    /\ \A x \in call.records : x \in Record /\ (x.type = "REFUND" => IsRefund(x))
    /\ \A x \in call.listed : IsRefund(x)
    /\ OneEach(call.records) /\ OneEach(call.listed)

\* Everything the gateway is told of a payment.
Words == PaymentStatus \cup CancelStatus \cup SyncPaymentStatus

AnswerType ==
    /\ answer.payment \in Words
    /\ answer.refund \in SyncRefundStatus

AnswerAsked == answer.refund = "REFUNDED" => Asked >= TxAmount

RefundInv == RefundsType /\ ReadTrue /\ AnswerType /\ AnswerAsked

\* No refund is forgotten, and none changes its amount.
Grows ==
    /\ RefundsType'
    /\ \A r \in Made : r \in Made' /\ refunds'[r].amount = refunds[r].amount

LEMMA FiniteRefunds ==
    ASSUME NEW S \in SUBSET RefundIds
    PROVE  IsFiniteSet(S)
  BY ProvidersAssumption, FS_Subset

\* What was asked back is what the property sums, and at least what succeeded.
LEMMA AskedFacts ==
    ASSUME RefundsType
    PROVE  /\ Asked \in Nat
           /\ Asked = Refunded({"PENDING", "SUCCESS", "FAILED"})
           /\ FullyRefunded => Asked >= TxAmount
<1> DEFINE S == {r \in RefundIds : refunds[r].status = "SUCCESS"}
<1>1. S \subseteq Made /\ Made \subseteq RefundIds /\ \A r \in RefundIds : Amounts[r] \in Nat
  BY ProvidersAssumption DEF Made, RefundsType, Amounts
<1>2. Asked \in Nat
  BY <1>1, FiniteRefunds, SumRemove DEF Asked
<1>3. Asked = Refunded({"PENDING", "SUCCESS", "FAILED"})
  <2>1. Made = {r \in RefundIds : refunds[r].status \in {"PENDING", "SUCCESS", "FAILED"}}
    BY DEF Made, RefundsType
  <2> QED
    BY <2>1 DEF Asked, Refunded, Amounts, Total
<1>4. ASSUME FullyRefunded PROVE Asked >= TxAmount
  <2>1. Total(Amounts, S) = TxAmount
    <3>1. S = {r \in RefundIds : refunds[r].status \in {"SUCCESS"}}
      OBVIOUS
    <3> QED
      BY <1>4, <3>1 DEF FullyRefunded, Refunded, Amounts, Total
  <2> DEFINE f == [r \in S |-> r]
  <2>2. f \in [S -> Made] /\ (\A x, y \in S : f[x] = f[y] => x = y)
        /\ \A x \in S : Amounts[x] = Amounts[f[x]]
    BY <1>1
  <2>3. IsFiniteSet(S) /\ IsFiniteSet(Made)
    BY <1>1, FiniteRefunds
  <2> HIDE DEF S, f
  <2>4. Total(Amounts, S) <= Total(Amounts, Made)
    BY <1>1, <2>2, <2>3, SumInjected
  <2> QED
    BY <1>2, <2>1, <2>4, ProvidersAssumption DEF Asked
<1> QED
  BY <1>2, <1>3, <1>4

\* What was asked back does not become less.
LEMMA AskedGrows ==
    ASSUME RefundsType, Grows
    PROVE  Asked <= Asked' /\ Asked' \in Nat
<1> DEFINE f == [r \in Made |-> r]
<1>1. /\ Made \subseteq RefundIds /\ Made' \subseteq RefundIds /\ Made \subseteq Made'
      /\ \A r \in RefundIds : Amounts[r] \in Nat /\ Amounts'[r] \in Nat
      /\ \A r \in Made : Amounts[r] = Amounts'[r]
  BY ProvidersAssumption DEF Made, RefundsType, Amounts, Grows
<1>2. f \in [Made -> Made'] /\ (\A x, y \in Made : f[x] = f[y] => x = y)
      /\ \A x \in Made : Amounts[x] = Amounts'[f[x]]
  BY <1>1
<1>3. IsFiniteSet(Made) /\ IsFiniteSet(Made')
  BY <1>1, FiniteRefunds
<1>4. Total(Amounts, Made) <= Total(Amounts', Made') /\ Total(Amounts', Made') \in Nat
  <2> HIDE DEF f
  <2> DEFINE W == Amounts'
             M == Made'
  <2>1. \A y \in M : W[y] \in Nat
    BY <1>1
  <2>2. f \in [Made -> M] /\ \A x \in Made : Amounts[x] = W[f[x]]
    BY <1>2
  <2> HIDE DEF W, M
  <2>3. IsFiniteSet(M)
    BY <1>3 DEF M
  <2>4. Total(Amounts, Made) <= Total(W, M) /\ Total(W, M) \in Nat
    BY <1>2, <1>3, <2>1, <2>2, <2>3, SumInjected, SumRemove
  <2> QED
    BY <2>4 DEF W, M
<1>5. Asked' = Total(Amounts', Made')
  BY DEF Asked, Total
<1> QED
  BY <1>4, <1>5 DEF Asked

\* Items that are refunds, none twice, do not weigh more than what was asked
\* back: a summary of them is REFUNDED only if the whole amount was.
LEMMA SummaryAsked ==
    ASSUME RefundsType, NEW items, \A x \in items : IsRefund(x), OneEach(items),
           SummarizeXenditRefunds(items, TxAmount) = "REFUNDED"
    PROVE  Asked >= TxAmount
<1> DEFINE S == {x \in items : x.status = "SUCCEEDED"}
           v == [x \in items |-> x.amount]
           f == [x \in S |-> x.id]
<1>1. Made \subseteq RefundIds /\ IsFiniteSet(Made) /\ \A r \in Made : Amounts[r] \in Nat
  BY FiniteRefunds, ProvidersAssumption DEF Made, RefundsType, Amounts
<1>2. f \in [S -> Made] /\ (\A x, y \in S : f[x] = f[y] => x = y)
  BY DEF IsRefund, OneEach
<1>3. \A x \in S : v[x] = Amounts[f[x]]
  BY <1>1 DEF IsRefund, Amounts
<1>4. IsFiniteSet(S)
  <2>1. f \in Injection(S, Made)
    BY <1>2 DEF Injection, IsInjective
  <2> QED
    BY <1>1, <2>1, FS_Injection
<1>5. Total(v, S) <= Asked
  <2> HIDE DEF S, v, f
  <2> QED
    BY <1>1, <1>2, <1>3, <1>4, SumInjected DEF Asked
<1>6. Succeeded(items) >= TxAmount
  BY DEF SummarizeXenditRefunds
<1>7. Succeeded(items) = Total(v, S)
  BY DEF Succeeded, Total
<1>8. Total(v, S) \in Int
  <2> HIDE DEF S, v, f
  <2>1. \A x \in S : v[x] \in Nat
    BY <1>1, <1>2, <1>3
  <2> QED
    BY <1>4, <2>1, SumRemove
<1> HIDE DEF S, v, f
<1> QED
  BY <1>5, <1>6, <1>7, <1>8, AskedFacts, ProvidersAssumption

-----------------------------------------------------------------------------
\* Each step preserves what is known of the refunds

\* What was read and answered stays true.
LEMMA RefundsOn ==
    ASSUME RefundInv, Grows
    PROVE  /\ RefundsType' /\ Asked <= Asked' /\ Asked \in Nat /\ Asked' \in Nat
           /\ \A x : IsRefund(x) => IsRefund(x)'
<1>1. RefundsType /\ RefundsType'
  BY DEF RefundInv, Grows
<1>2. Asked \in Nat /\ Asked <= Asked' /\ Asked' \in Nat
  BY <1>1, AskedFacts, AskedGrows
<1>3. \A x : IsRefund(x) => IsRefund(x)'
  BY DEF IsRefund, Grows
<1> QED
  BY <1>1, <1>2, <1>3

LEMMA ReadOn ==
    ASSUME RefundInv, Grows, call'.records = call.records, call'.listed = call.listed
    PROVE  ReadTrue'
  BY RefundsOn DEF RefundInv, ReadTrue, OneEach

LEMMA AnswerOnRefunds ==
    ASSUME RefundInv, Grows, UNCHANGED answer
    PROVE  AnswerType' /\ AnswerAsked'
<1>1. AnswerType'
  BY DEF RefundInv, AnswerType
<1>2. AnswerAsked'
  BY RefundsOn, ProvidersAssumption DEF RefundInv, AnswerAsked
<1> QED
  BY <1>1, <1>2

LEMMA SameGrows ==
    ASSUME RefundInv, UNCHANGED refunds
    PROVE  Grows
  BY DEF RefundInv, RefundsType, Grows, Made

LEMMA RefundsStep ==
    ASSUME RefundInv, Grows, UNCHANGED <<call, answer>>
    PROVE  RefundInv'
  BY RefundsOn, ReadOn, AnswerOnRefunds DEF RefundInv

LEMMA RefundStartsSound ==
    ASSUME RefundInv, NEW r \in RefundIds, RefundStarts(r)
    PROVE  RefundInv'
<1>1. Refunded({"PENDING", "SUCCESS"}) \in Nat
  <2>1. \A q \in RefundIds : Amounts[q] \in Nat
    BY ProvidersAssumption DEF RefundInv, RefundsType, Amounts
  <2>2. {q \in RefundIds : refunds[q].status \in {"PENDING", "SUCCESS"}} \in SUBSET RefundIds
    OBVIOUS
  <2>3. Total(Amounts, {q \in RefundIds : refunds[q].status \in {"PENDING", "SUCCESS"}}) \in Nat
    BY <2>1, <2>2, FiniteRefunds, SumRemove
  <2> QED
    BY <2>3 DEF Refunded, Amounts, Total
<1>2. PICK a \in 1 .. TxAmount - Refunded({"PENDING", "SUCCESS"}) :
         refunds' = [refunds EXCEPT ![r] = [status |-> "PENDING", amount |-> a]]
  BY DEF RefundStarts
<1>3. a \in 0 .. TxAmount
  BY <1>1, <1>2, ProvidersAssumption
<1>4. RefundsType'
  BY <1>2, <1>3 DEF RefundInv, RefundsType
<1>5. Grows
  BY <1>2, <1>4 DEF RefundInv, RefundsType, RefundStarts, Grows, Made
<1> QED
  BY <1>5, RefundsStep DEF RefundStarts

LEMMA RefundSettlesSound ==
    ASSUME RefundInv, NEW r \in RefundIds, RefundSettles(r)
    PROVE  RefundInv'
<1>1. PICK s \in {"SUCCESS", "FAILED"} : refunds' = [refunds EXCEPT ![r].status = s]
  BY DEF RefundSettles
<1>2. RefundsType'
  BY <1>1 DEF RefundInv, RefundsType
<1>3. Grows
  BY <1>1, <1>2 DEF RefundInv, RefundsType, Grows, Made
<1> QED
  BY <1>3, RefundsStep DEF RefundSettles

\* A call that goes on, and has read nothing of refunds in this step.
LEMMA GoesOnSound ==
    ASSUME RefundInv, UNCHANGED <<refunds, answer>>, call'.records = call.records,
           call'.listed = call.listed
    PROVE  RefundInv'
  BY SameGrows, RefundsOn, ReadOn, AnswerOnRefunds DEF RefundInv

LEMMA EnvironmentSound ==
    ASSUME PInv, RefundInv, Environment
    PROVE  RefundInv'
<1>1. CASE Attempted
  BY <1>1, SameGrows, RefundsStep DEF Attempted
<1>2. CASE SessionSettles
  BY <1>2, SameGrows, RefundsStep DEF SessionSettles, Settle
<1>3. CASE \E r \in Resources : CatchesUp(r)
  BY <1>3, SameGrows, RefundsStep DEF CatchesUp
<1>4. CASE \E r \in RefundIds : RefundStarts(r) \/ RefundSettles(r)
  BY <1>4, RefundStartsSound, RefundSettlesSound
<1>5. CASE AttemptFails
  BY <1>5, SameGrows, RefundsStep DEF AttemptFails
<1>6. CASE TriesAgain
  <2>1. call'.records = call.records /\ call'.listed = call.listed
    BY <1>6 DEF TriesAgain, PInv, CallType, CallRecord
  <2> QED
    BY <1>6, <2>1, GoesOnSound DEF TriesAgain
<1> QED
  BY <1>1, <1>2, <1>3, <1>4, <1>5, <1>6 DEF Environment

\* A call that begins or fails has read nothing.
LEMMA FreshSound ==
    ASSUME RefundInv, UNCHANGED refunds, call'.records = {}, call'.listed = {},
           answer' = answer \/ (AnswerType' /\ answer'.refund # "REFUNDED")
    PROVE  RefundInv'
<1>1. Grows /\ RefundsType'
  BY SameGrows, RefundsOn
<1>2. ReadTrue'
  BY DEF ReadTrue, OneEach
<1>3. AnswerType' /\ AnswerAsked'
  BY <1>1, AnswerOnRefunds DEF AnswerAsked
<1> QED
  BY <1>1, <1>2, <1>3 DEF RefundInv

LEMMA CallsSound ==
    ASSUME RefundInv, NEW op, NEW id, Calls(op, id)
    PROVE  RefundInv'
<1>1. call'.records = {} /\ call'.listed = {} /\ UNCHANGED refunds /\ answer' = NoAnswer
  BY DEF Calls, Idle, world
<1>2. AnswerType' /\ answer'.refund # "REFUNDED"
  BY <1>1 DEF AnswerType, NoAnswer, Words, PaymentStatus, SyncRefundStatus
<1> QED
  BY <1>1, <1>2, FreshSound

LEMMA CallFailsSound ==
    ASSUME RefundInv, CallFails
    PROVE  RefundInv'
<1>1. call'.records = {} /\ call'.listed = {} /\ UNCHANGED refunds /\ answer' = answer
  BY DEF CallFails, Idle, world
<1> QED
  BY <1>1, FreshSound

\* An answer is well typed, and REFUNDED only if the whole amount was asked back.
LEMMA AnswersSound ==
    ASSUME RefundInv, UNCHANGED refunds,
           NEW p \in Words,
           NEW r \in SyncRefundStatus, r = "REFUNDED" => Asked >= TxAmount, Answers(p, r)
    PROVE  RefundInv'
<1>1. Grows /\ RefundsType'
  BY SameGrows, RefundsOn
<1>2. call'.records = {} /\ call'.listed = {} /\ answer'.payment = p /\ answer'.refund = r
  BY DEF Answers, Idle
<1>3. ReadTrue' /\ AnswerType'
  BY <1>2 DEF ReadTrue, OneEach, AnswerType
<1>4. Asked <= Asked' /\ Asked \in Nat /\ Asked' \in Nat
  BY <1>1, RefundsOn
<1>5. AnswerAsked'
  BY <1>2, <1>4, ProvidersAssumption DEF AnswerAsked
<1> QED
  BY <1>1, <1>3, <1>5 DEF RefundInv

LEMMA GoesSound ==
    ASSUME PInv, RefundInv, UNCHANGED refunds, NEW n, Goes(n)
    PROVE  RefundInv'
<1>1. call = CallRecord
  BY DEF PInv, CallType
<1>2. call'.records = call.records /\ call'.listed = call.listed /\ answer' = answer
  BY <1>1 DEF Goes, CallRecord
<1> QED
  BY <1>2, GoesOnSound

-----------------------------------------------------------------------------
\* Xendit

LEMMA SyncReadsSound ==
    ASSUME PInv, RefundInv, UNCHANGED <<world, answer>>, NEW res, NEW ids, SyncReads(res, ids)
    PROVE  RefundInv'
<1>1. call = CallRecord
  BY DEF PInv, CallType
<1>2. call'.records = call.records /\ call'.listed = call.listed
  BY <1>1 DEF SyncReads, CallRecord
<1> QED
  BY <1>2, GoesOnSound DEF world

LEMMA ReadsSound ==
    ASSUME PInv, RefundInv, SyncReadsSession \/ SyncReadsRequest \/ SyncReadsPayment
    PROVE  RefundInv'
<1>1. UNCHANGED <<world, answer>> /\ \E res, ids : SyncReads(res, ids)
  BY DEF SyncReadsSession, SyncReadsRequest, SyncReadsPayment
<1> QED
  BY <1>1, SyncReadsSound

\* A read of the history: every refund once, as it is.
LEMMA HistoryRefunds ==
    ASSUME PInv, RefundInv, call.at \in 1 .. 8
    PROVE  /\ \A x \in History : x \in Record /\ (x.type = "REFUND" => IsRefund(x))
           /\ OneEach(History)
<1>1. /\ Made \subseteq RefundIds /\ "payment" \notin RefundIds /\ TxAmount \in 0 .. TxAmount
      /\ session \in SessionState /\ shows["history"] \in SessionState
      /\ \A r \in RefundIds : refunds[r].status \in {"NONE", "PENDING", "SUCCESS", "FAILED"}
                              /\ refunds[r].amount \in 0 .. TxAmount
      /\ Len(Reads) = 8
  BY ProvidersAssumption DEF PInv, World, RefundInv, RefundsType, Made, Resources, Reads
<1>2. XenditHistory(shows["history"]) \in {"PENDING", "SUCCESS", "FAILED", "VOIDED"}
  BY <1>1 DEF XenditHistory, SessionState
<1>3. \A r \in Made : refunds[r].status \in {"PENDING", "SUCCESS", "FAILED"}
  BY <1>1 DEF Made
<1>4. ASSUME NEW x \in History
      PROVE  \/ /\ x = [read |-> call.at, type |-> "PAYMENT", id |-> "payment",
                        status |-> XenditHistory(shows["history"]), amount |-> TxAmount]
             \/ \E r \in Made :
                   x = [read |-> call.at, type |-> "REFUND", id |-> r,
                        status |-> refunds[r].status, amount |-> refunds[r].amount]
  BY DEF History
<1>5. ASSUME NEW x \in History
      PROVE  x \in Record /\ (x.type = "REFUND" => IsRefund(x))
  BY <1>1, <1>2, <1>3, <1>4 DEF Record, IsRefund
<1>6. OneEach(History)
  BY <1>1, <1>4 DEF OneEach
<1> QED
  BY <1>5, <1>6

LEMMA HistorySound ==
    ASSUME PInv, RefundInv, SyncReadsHistory
    PROVE  RefundInv'
<1>1. call = CallRecord /\ call.at \in 1 .. 8
  BY DEF PInv, CallType, SyncReadsHistory, AtRead
<1>2. /\ call'.records = AppendUnique(call.records, History) /\ call'.listed = call.listed
      /\ UNCHANGED <<refunds, answer>>
  BY <1>1 DEF SyncReadsHistory, CallRecord, world
<1>3. /\ \A x \in History : x \in Record /\ (x.type = "REFUND" => IsRefund(x))
      /\ OneEach(History)
  BY <1>1, HistoryRefunds
<1>4. Grows /\ RefundsType' /\ \A x : IsRefund(x) => IsRefund(x)'
  BY <1>2, SameGrows, RefundsOn
<1>5. \A x \in call'.records : x \in Record /\ (x.type = "REFUND" => IsRefund(x))
  BY <1>2, <1>3 DEF RefundInv, ReadTrue, AppendUnique
<1>6. OneEach(call'.records)
  BY <1>2, <1>3 DEF RefundInv, ReadTrue, AppendUnique, OneEach
<1>7. ReadTrue'
  BY <1>2, <1>4, <1>5, <1>6 DEF RefundInv, ReadTrue, OneEach
<1> QED
  BY <1>2, <1>4, <1>7, AnswerOnRefunds DEF RefundInv

LEMMA ListSound ==
    ASSUME PInv, RefundInv, SyncReadsRefunds
    PROVE  RefundInv'
<1>1. call = CallRecord
  BY DEF PInv, CallType
<1>2. /\ call'.listed = ListRefundsByPaymentRequestID /\ call'.records = call.records
      /\ UNCHANGED <<refunds, answer>>
  BY <1>1 DEF SyncReadsRefunds, CallRecord, world
<1>3. (\A x \in call'.listed : IsRefund(x)) /\ OneEach(call'.listed)
  BY <1>2 DEF ListRefundsByPaymentRequestID, IsRefund, OneEach
<1>4. Grows /\ RefundsType' /\ \A x : IsRefund(x) => IsRefund(x)'
  BY <1>2, SameGrows, RefundsOn
<1>5. ReadTrue'
  BY <1>2, <1>3, <1>4 DEF RefundInv, ReadTrue, OneEach
<1> QED
  BY <1>2, <1>4, <1>5, AnswerOnRefunds DEF RefundInv

\* A summary is a refund status, a merge keeps the result or takes the summary.
LEMMA SummaryType ==
    ASSUME NEW items, NEW amount
    PROVE  SummarizeXenditRefunds(items, amount) \in SyncRefundStatus
  BY DEF SummarizeXenditRefunds, SyncRefundStatus

LEMMA MergeTakes ==
    ASSUME NEW result \in [payment : SyncPaymentStatus, refund : SyncRefundStatus],
           NEW items, NEW amount, NEW merged,
           merged = MergeRefundSummary(result, items, amount)
    PROVE  /\ merged \in [payment : SyncPaymentStatus, refund : SyncRefundStatus]
           /\ merged.payment = result.payment
           /\ \/ merged.refund = result.refund
              \/ merged.refund = SummarizeXenditRefunds(items, amount)
  BY SummaryType DEF MergeRefundSummary

LEMMA RepliesSound ==
    ASSUME PInv, RefundInv, SyncReplies
    PROVE  RefundInv'
<1> DEFINE type == [payment : SyncPaymentStatus, refund : SyncRefundStatus]
           ofHistory == {[r EXCEPT !.status = MapTransactionRefundStatus(@)] :
                            r \in {x \in call.records : x.type = "REFUND"}}
<1>1. PICK h : h = MergeTransactionHistory(call.result, call.records, TxAmount)
  OBVIOUS
<1>2. PICK result : result = MergeRefundSummary(h, call.listed, TxAmount)
  OBVIOUS
<1>3. call.result \in type /\ call.result.refund = "NONE"
  BY DEF PInv, CallType, CallTrue
<1>4. PICK p : /\ p \in type /\ p.refund = "NONE"
               /\ h = MergeRefundSummary(p, ofHistory, TxAmount)
  <2> DEFINE Reports(statuses) ==
               \E r \in call.records : r.type = "PAYMENT" /\ r.status \in statuses
             payment == IF Reports({"SUCCESS"}) \/ call.result.payment = "PAID" THEN "PAID"
                        ELSE IF Reports({"FAILED", "VOIDED", "REVERSED"}) THEN "FAILED"
                        ELSE call.result.payment
             q == [call.result EXCEPT !.payment = payment]
  <2>1. h = MergeRefundSummary(q, ofHistory, TxAmount)
    BY <1>1 DEF MergeTransactionHistory
  <2>2. payment \in SyncPaymentStatus
    BY <1>3 DEF SyncPaymentStatus
  <2>3. q \in type /\ q.refund = "NONE"
    <3> HIDE DEF payment
    <3> QED
      BY <1>3, <2>2
  <2> HIDE DEF q
  <2> QED
    BY <2>1, <2>3
<1>5. (\A x \in ofHistory : IsRefund(x)) /\ OneEach(ofHistory)
  <2>1. ASSUME NEW x \in ofHistory
        PROVE  \E r \in call.records : r.type = "REFUND" /\ r \in Record /\ IsRefund(r)
                                       /\ x.id = r.id /\ x.amount = r.amount
                                       /\ x = [r EXCEPT !.status = MapTransactionRefundStatus(@)]
    <3>1. PICK r \in call.records : r.type = "REFUND"
                  /\ x = [r EXCEPT !.status = MapTransactionRefundStatus(@)]
      OBVIOUS
    <3>2. r \in Record /\ IsRefund(r)
      BY <3>1 DEF RefundInv, ReadTrue
    <3>3. x.id = r.id /\ x.amount = r.amount
      BY <3>1, <3>2 DEF Record
    <3> QED
      BY <3>1, <3>2, <3>3
  <2>2. \A x \in ofHistory : IsRefund(x)
    BY <2>1 DEF IsRefund
  <2>3. ASSUME NEW x \in ofHistory, NEW y \in ofHistory, x.id = y.id PROVE x = y
    <3>1. PICK r \in call.records : x.id = r.id
                  /\ x = [r EXCEPT !.status = MapTransactionRefundStatus(@)]
      BY <2>1
    <3>2. PICK s \in call.records : y.id = s.id
                  /\ y = [s EXCEPT !.status = MapTransactionRefundStatus(@)]
      BY <2>1
    <3>3. r = s
      BY <2>3, <3>1, <3>2 DEF RefundInv, ReadTrue, OneEach
    <3> QED
      BY <3>1, <3>2, <3>3
  <2> HIDE DEF ofHistory
  <2> QED
    BY <2>2, <2>3 DEF OneEach
<1> HIDE DEF ofHistory, type
<1>6. h \in type
      /\ (h.refund = "NONE" \/ h.refund = SummarizeXenditRefunds(ofHistory, TxAmount))
  BY <1>4, MergeTakes DEF type
<1>7. result \in type
      /\ (result.refund = h.refund
          \/ result.refund = SummarizeXenditRefunds(call.listed, TxAmount))
  BY <1>2, <1>6, MergeTakes DEF type
<1>8. result.refund = "REFUNDED" => Asked >= TxAmount
  <2>1. RefundsType /\ (\A x \in call.listed : IsRefund(x)) /\ OneEach(call.listed)
    BY DEF RefundInv, ReadTrue
  <2> QED
    BY <1>5, <1>6, <1>7, <2>1, SummaryAsked
<1>9. PICK payment : payment = IF result.refund \in {"REFUNDED", "PARTIAL_REFUNDED"} THEN "PAID"
                               ELSE result.payment
  OBVIOUS
<1>10. Answers(payment, result.refund) /\ UNCHANGED refunds
  BY <1>1, <1>2, <1>9 DEF SyncReplies, world
<1>11. payment \in SyncPaymentStatus /\ result.refund \in SyncRefundStatus
  BY <1>7, <1>9 DEF type, SyncPaymentStatus
<1>12. PICK r : r = result.refund
  OBVIOUS
<1> QED
  BY <1>8, <1>10, <1>11, <1>12, AnswersSound DEF Words

\* Every translation of a provider's word is one of the gateway's.
LEMMA WordTypes ==
    ASSUME NEW raw, NEW c
    PROVE  /\ MapPaymentSessionStatus(raw) \in Words
           /\ MapPaymentSessionCancelStatus(raw) \in Words
           /\ MapSessionStatus(raw) \in Words
           /\ MapPaymentStatus(raw) \in Words
           /\ MapKomojuCancelStatus(raw) \in Words
           /\ SyncPaymentStatusFromPaymentStatus(raw) \in Words
           /\ SyncRefundStatusFromPaymentStatus(raw) \in SyncRefundStatus
           /\ MapStatus(c, raw) \in Words
           /\ MapWebhookStatus(c, raw) \in Words
           /\ MapCancelStatus(c, raw) \in Words
<1> USE DEF Words, PaymentStatus, CancelStatus, SyncPaymentStatus
<1>1. /\ MapPaymentSessionStatus(raw) \in Words
      /\ MapPaymentSessionCancelStatus(raw) \in Words
  BY DEF MapPaymentSessionStatus, MapPaymentSessionCancelStatus
<1>2. MapSessionStatus(raw) \in Words
  BY DEF MapSessionStatus
<1>3. MapPaymentStatus(raw) \in Words /\ MapKomojuCancelStatus(raw) \in Words
  BY <1>2 DEF MapPaymentStatus, MapKomojuCancelStatus
<1>4. /\ SyncPaymentStatusFromPaymentStatus(raw) \in Words
      /\ SyncRefundStatusFromPaymentStatus(raw) \in SyncRefundStatus
  BY DEF SyncPaymentStatusFromPaymentStatus, SyncRefundStatusFromPaymentStatus, SyncRefundStatus
<1>5. MapStatus(c, raw) \in Words /\ MapWebhookStatus(c, raw) \in Words
  BY DEF MapStatus, MapWebhookStatus
<1>6. MapCancelStatus(c, raw) \in Words
  BY DEF MapCancelStatus
<1> QED
  BY <1>1, <1>2, <1>3, <1>4, <1>5, <1>6

\* An answer that says nothing of refunds.
LEMMA PlainSound ==
    ASSUME RefundInv, UNCHANGED refunds, NEW p \in Words, Answers(p, "NONE")
    PROVE  RefundInv'
  BY AnswersSound DEF SyncRefundStatus

LEMMA XenditSound ==
    ASSUME PInv, RefundInv, Xendit
    PROVE  RefundInv'
<1>1. CASE XenditQuery
  BY <1>1, WordTypes, PlainSound DEF XenditQuery, world
<1>2. CASE XenditCancel
  <2>1. UNCHANGED refunds /\ \E p \in Words : Answers(p, "NONE")
    <3>1. "UNSUPPORTED" \in Words
      BY DEF Words, CancelStatus
    <3> QED
      BY <1>2, <3>1, WordTypes DEF XenditCancel
  <2> QED
    BY <2>1, PlainSound
<1> QED
  BY <1>1, <1>2, ReadsSound, HistorySound, ListSound, RepliesSound DEF Xendit

-----------------------------------------------------------------------------
\* KOMOJU and the generic provider

\* KOMOJU's word REFUNDED is that of a payment that was refunded in full.
LEMMA KomojuFull ==
    ASSUME NEW s \in SessionState \ {"VOIDED"}
    PROVE  /\ MapPaymentStatus(KomojuPayment(s)) = "REFUNDED" => FullyRefunded
           /\ ProviderStatusFromSession(s) = "REFUNDED" => FullyRefunded
<1>1. \A raw : MapSessionStatus(raw) # "REFUNDED"
  BY DEF MapSessionStatus
<1>2. MapPaymentStatus(KomojuPayment(s)) = "REFUNDED" => KomojuPayment(s) = "refunded"
  BY <1>1 DEF MapPaymentStatus
<1>3. KomojuPayment(s) = "refunded" => FullyRefunded
  BY DEF KomojuPayment, KomojuSession, SessionState
<1> QED
  BY <1>1, <1>2, <1>3 DEF ProviderStatusFromSession

LEMMA KomojuRefunded ==
    ASSUME RefundInv, NEW s \in SessionState \ {"VOIDED"}
    PROVE  /\ MapPaymentStatus(KomojuPayment(s)) = "REFUNDED" => Asked >= TxAmount
           /\ ProviderStatusFromSession(s) = "REFUNDED" => Asked >= TxAmount
           /\ ProviderStatusFromSession(s) \in Words
<1>1. FullyRefunded => Asked >= TxAmount
  BY AskedFacts DEF RefundInv
<1> QED
  BY <1>1, KomojuFull, WordTypes DEF ProviderStatusFromSession

LEMMA KomojuPaymentRefunded ==
    ASSUME RefundInv, session \in SessionState \ {"VOIDED"}, NEW id
    PROVE  /\ ProviderStatusFromPayment(id) \in Words
           /\ ProviderStatusFromPayment(id) = "REFUNDED" => FullyRefunded /\ Asked >= TxAmount
<1>1. CASE id = "earlier"
  <2>1. ProviderStatusFromPayment(id) = "FAILED"
    BY <1>1 DEF ProviderStatusFromPayment, MapPaymentStatus, MapSessionStatus
  <2> QED
    BY <2>1 DEF Words, PaymentStatus
<1>2. CASE id # "earlier"
  <2>1. ProviderStatusFromPayment(id) = MapPaymentStatus(KomojuPayment(session))
    BY <1>2 DEF ProviderStatusFromPayment
  <2> QED
    BY <2>1, KomojuFull, KomojuRefunded, WordTypes
<1> QED
  BY <1>1, <1>2

\* So is the word that a generic provider's configuration names for it.
LEMMA GenericFull ==
    ASSUME World, kind = "generic", cfg.refund # "", GenericRaw(session) = cfg.refund
    PROVE  FullyRefunded
<1>1. cfg.refund \in {"", "REFUNDED"} /\ session \in SessionState
  BY GenericWords DEF GenericConfig
<1> QED
  BY <1>1 DEF GenericRaw, SessionState

LEMMA KomojuAnswersSound ==
    ASSUME RefundInv, UNCHANGED refunds, NEW status \in Words,
           status = "REFUNDED" => Asked >= TxAmount, KomojuAnswers(status)
    PROVE  RefundInv'
<1>1. CASE call.op = "query"
  BY <1>1, PlainSound DEF KomojuAnswers
<1>2. CASE call.op # "query"
  <2>1. PICK p : p = IF status = "REFUNDED" THEN "PAID"
                     ELSE SyncPaymentStatusFromPaymentStatus(status)
    OBVIOUS
  <2>2. PICK r : r = SyncRefundStatusFromPaymentStatus(status)
    OBVIOUS
  <2>3. Answers(p, r)
    BY <1>2, <2>1, <2>2 DEF KomojuAnswers
  <2>4. p \in Words
    BY <2>1, WordTypes DEF Words, SyncPaymentStatus
  <2>5. r \in SyncRefundStatus
    BY <2>2, WordTypes
  <2>6. r = "REFUNDED" => Asked >= TxAmount
    BY <2>2 DEF SyncRefundStatusFromPaymentStatus
  <2> QED
    BY <2>3, <2>4, <2>5, <2>6, AnswersSound
<1> QED
  BY <1>1, <1>2

LEMMA KomojuSound ==
    ASSUME PInv, RefundInv, Komoju
    PROVE  RefundInv'
<1>1. session \in SessionState \ {"VOIDED"}
  <2>1. kind = "komoju"
    BY DEF Komoju, KomojuGetsSession, KomojuGetsPayment, KomojuCancelsSession, KomojuCancelAsks,
           KomojuCancelsPayment, Running
  <2> QED
    BY <2>1, KomojuSessionSays DEF PInv
<1>2. CASE KomojuGetsSession
  <2>1. CASE call.id = "session"
    BY <1>1, <1>2, <2>1, KomojuRefunded, KomojuAnswersSound DEF KomojuGetsSession, world
  <2>2. CASE call.id # "session"
    BY <1>2, <2>2, GoesSound DEF KomojuGetsSession, world
  <2> QED
    BY <2>1, <2>2
<1>3. CASE KomojuGetsPayment
  <2>1. KomojuAnswers(ProviderStatusFromPayment(call.id)) /\ UNCHANGED refunds
    BY <1>3 DEF KomojuGetsPayment, world
  <2> QED
    BY <1>1, <2>1, KomojuPaymentRefunded, KomojuAnswersSound
<1>4. CASE KomojuCancelsSession
  <2>1. UNCHANGED refunds /\ (Goes(2) \/ \E p \in Words : Answers(p, "NONE"))
    BY <1>4, WordTypes DEF KomojuCancelsSession
  <2> QED
    BY <2>1, GoesSound, PlainSound
<1>5. CASE KomojuCancelAsks
  <2>1. {"FAILED", "ALREADY_PAID", "CANCELED", "EXPIRED"} \subseteq Words
    BY DEF Words, CancelStatus
  <2>2. \/ \E p \in Words : Answers(p, "NONE")
        \/ (\E id : call' = [call EXCEPT !.at = 3, !.id = id]) /\ answer' = answer
    BY <1>5, <2>1 DEF KomojuCancelAsks
  <2>3. UNCHANGED refunds
    BY <1>5 DEF KomojuCancelAsks, world
  <2>4. ASSUME NEW id, call' = [call EXCEPT !.at = 3, !.id = id]
        PROVE  call'.records = call.records /\ call'.listed = call.listed
    BY <2>4 DEF PInv, CallType, CallRecord
  <2> QED
    BY <2>2, <2>3, <2>4, GoesOnSound, PlainSound
<1>6. CASE KomojuCancelsPayment
  BY <1>6, WordTypes, PlainSound DEF KomojuCancelsPayment
<1> QED
  BY <1>2, <1>3, <1>4, <1>5, <1>6 DEF Komoju

LEMMA GenericSound ==
    ASSUME PInv, RefundInv, Generic
    PROVE  RefundInv'
<1>1. "UNSUPPORTED" \in Words /\ "UNSUPPORTED" \in SyncRefundStatus
  BY DEF Words, CancelStatus, SyncRefundStatus
<1>2. CASE GenericQuery
  BY <1>2, WordTypes, PlainSound DEF GenericQuery, world
<1>3. CASE GenericCancel
  <2>1. UNCHANGED refunds /\ \E p \in Words : Answers(p, "NONE")
    BY <1>1, <1>3, WordTypes DEF GenericCancel
  <2> QED
    BY <2>1, PlainSound
<1>4. CASE GenericSync
  <2>1. CASE ~cfg.status
    <3>1. Answers("UNSUPPORTED", "UNSUPPORTED") /\ UNCHANGED refunds
      BY <1>4, <2>1 DEF GenericSync, world
    <3> QED
      BY <1>1, <3>1, AnswersSound
  <2>2. CASE cfg.status
    <3> DEFINE reports == cfg.refund # "" /\ GenericRaw(session) = cfg.refund
               amount  == IF cfg.amountPath THEN Refunded({"SUCCESS"}) ELSE 0
    <3>1. PICK p : p = IF reports THEN "PAID"
                       ELSE SyncPaymentStatusFromPaymentStatus(
                                MapStatus(cfg, GenericRaw(session)))
      OBVIOUS
    <3>2. PICK r : r = IF amount \in 1 .. TxAmount - 1 THEN "PARTIAL_REFUNDED"
                       ELSE IF reports THEN "REFUNDED" ELSE "NONE"
      OBVIOUS
    <3>3. Answers(p, r) /\ UNCHANGED refunds /\ kind = "generic"
      BY <1>4, <2>2, <3>1, <3>2 DEF GenericSync, world, Running
    <3>4. p \in Words /\ r \in SyncRefundStatus
      BY <3>1, <3>2, WordTypes DEF Words, SyncPaymentStatus, SyncRefundStatus
    <3>5. reports => FullyRefunded
      BY <3>3, GenericFull DEF PInv
    <3>6. r = "REFUNDED" => Asked >= TxAmount
      BY <3>2, <3>5, AskedFacts DEF RefundInv
    <3> QED
      BY <3>3, <3>4, <3>6, AnswersSound
  <2> QED
    BY <2>1, <2>2
<1> QED
  BY <1>2, <1>3, <1>4 DEF Generic

-----------------------------------------------------------------------------
\* Webhooks, and the invariant

LEMMA TellsSound ==
    ASSUME RefundInv, NEW op, NEW p \in Words, Tells(op, p)
    PROVE  RefundInv'
<1>1. Grows /\ RefundsType'
  BY SameGrows, RefundsOn DEF Tells, world
<1>2. ReadTrue'
  BY <1>1, ReadOn DEF Tells
<1>3. answer'.payment = p /\ answer'.refund = "NONE"
  BY DEF Tells, NoAnswer
<1> QED
  BY <1>1, <1>2, <1>3 DEF RefundInv, AnswerType, AnswerAsked, SyncRefundStatus

LEMMA WebhooksSound ==
    ASSUME RefundInv, Webhook \/ \E r \in RefundIds : RefundWebhook(r)
    PROVE  RefundInv'
<1>1. CASE Webhook
  <2>1. \E p \in Words : Tells("webhook", p)
    BY <1>1, WordTypes DEF Webhook
  <2> QED
    BY <2>1, TellsSound
<1>2. ASSUME NEW r \in RefundIds, RefundWebhook(r) PROVE RefundInv'
  <2>1. refunds[r].status \in {"PENDING", "SUCCESS", "FAILED"}
    BY <1>2 DEF RefundInv, RefundsType, RefundWebhook, Made
  <2>2. \E p \in {"PENDING", "REFUNDED", "FAILED"} : Tells("refundWebhook", p)
    BY <1>2, <2>1 DEF RefundWebhook
  <2>3. {"PENDING", "REFUNDED", "FAILED"} \subseteq Words
    BY DEF Words, PaymentStatus
  <2> QED
    BY <2>2, <2>3, TellsSound
<1> QED
  BY <1>1, <1>2

LEMMA RefundInit == ASSUME Init PROVE RefundInv
<1>1. call.records = {} /\ call.listed = {} /\ answer = NoAnswer
  BY DEF Init, Idle
<1>2. RefundsType
  BY ProvidersAssumption DEF Init, RefundsType
<1> QED
  BY <1>1, <1>2 DEF RefundInv, ReadTrue, OneEach, NoAnswer, AnswerType, AnswerAsked, Words,
                    PaymentStatus, SyncRefundStatus

LEMMA RefundNext == ASSUME PInv, RefundInv, [Next]_vars PROVE RefundInv'
<1>1. CASE UNCHANGED vars
  BY <1>1, SameGrows, RefundsStep DEF vars
<1>2. CASE \E op \in {"query", "sync", "cancel"}, id \in {"session", "request", "payment", "earlier"} :
             Calls(op, id)
  BY <1>2, CallsSound
<1> QED
  BY <1>1, <1>2, EnvironmentSound, CallFailsSound, XenditSound, KomojuSound, GenericSound,
     WebhooksSound
  DEF Next

\* What calls and answers say of refunds is about refunds that were made, each
\* counted once.
THEOREM RefundInvariant == Spec => []RefundInv
<1>1. Init => RefundInv
  BY RefundInit
<1>2. PInv /\ RefundInv /\ [Next]_vars => RefundInv'
  BY RefundNext
<1> QED
  BY <1>1, <1>2, ProvidersInvariant, PTL DEF Spec

\* The provider, the running call, what it has read, and the answer keep their
\* types; no refund is larger than the payment.
THEOREM ProvidersTypeOK == Spec => []TypeOK
<1>1. PInv /\ RefundInv => TypeOK
  <2> SUFFICES ASSUME PInv, RefundInv PROVE TypeOK
    OBVIOUS
  <2>1. /\ kind \in {"xendit", "komoju", "generic"} /\ cfg \in Configs
        /\ session \in SessionState /\ objects \in Objects
        /\ failed \in {"none", "current", "earlier"}
        /\ shows \in [Resources -> SessionState]
    BY DEF PInv, World
  <2>2. /\ call.op \in {"none", "query", "sync", "cancel"} /\ call.at \in 0 .. Len(Reads)
        /\ call.ids \in Objects /\ call.result.payment \in SyncPaymentStatus
        /\ call.result.refund \in SyncRefundStatus
    BY DEF PInv, CallType, Reads
  <2>3. /\ RefundsType /\ (\A x \in call.records : x \in Record)
        /\ answer.payment \in PaymentStatus \cup CancelStatus \cup SyncPaymentStatus
        /\ answer.refund \in SyncRefundStatus
    BY DEF RefundInv, ReadTrue, AnswerType, Words
  <2> QED
    BY <2>1, <2>2, <2>3 DEF TypeOK, RefundsType
<1> QED
  BY <1>1, ProvidersInvariant, RefundInvariant, PTL

\* A sync reports a full refund only if the whole amount was asked back,
\* however many refunds there are, in however many answers each was read.
THEOREM RefundedIsRequestedHolds == Spec => []RefundedIsRequested
<1>1. RefundInv => RefundedIsRequested
  BY AskedFacts DEF RefundInv, AnswerAsked, RefundedIsRequested
<1> QED
  BY <1>1, RefundInvariant, PTL

-----------------------------------------------------------------------------
\* What succeeded

Returned == {r \in RefundIds : refunds[r].status = "SUCCESS"}

\* KOMOJU and a generic provider report a full refund only when it succeeded.
RefundedElsewhere ==
    answer.refund = "REFUNDED" /\ kind # "xendit" => Refunded({"SUCCESS"}) >= TxAmount

\* A refund that succeeded stays as it is.
ReturnedStays == \A r \in Returned : refunds'[r] = refunds[r]

\* Only a full refund is answered with REFUNDED, but by Xendit.
SaysReturned ==
    \/ answer' = answer
    \/ answer'.refund # "REFUNDED"
    \/ kind = "xendit"
    \/ FullyRefunded /\ UNCHANGED refunds

ElsewhereStep == kind' = kind /\ ReturnedStays /\ SaysReturned

LEMMA EnvironmentElsewhere ==
    ASSUME RefundInv, Environment
    PROVE  ElsewhereStep
<1>1. kind' = kind /\ answer' = answer
  BY DEF Environment, Attempted, AttemptFails, TriesAgain, SessionSettles, Settle, CatchesUp,
         RefundStarts, RefundSettles
<1>2. CASE UNCHANGED refunds
  BY <1>1, <1>2 DEF ElsewhereStep, ReturnedStays, SaysReturned
<1>3. ASSUME NEW r \in RefundIds, RefundStarts(r) \/ RefundSettles(r) PROVE ElsewhereStep
  <2>1. r \notin Returned /\ \A q \in RefundIds : q # r => refunds'[q] = refunds[q]
    BY <1>3 DEF RefundStarts, RefundSettles, Returned, RefundInv, RefundsType
  <2> QED
    BY <1>1, <2>1 DEF ElsewhereStep, ReturnedStays, SaysReturned, Returned
<1>4. UNCHANGED refunds \/ \E r \in RefundIds : RefundStarts(r) \/ RefundSettles(r)
  BY DEF Environment, Attempted, AttemptFails, TriesAgain, SessionSettles, Settle, CatchesUp
<1> QED
  BY <1>2, <1>3, <1>4

LEMMA KomojuElsewhere ==
    ASSUME PInv, RefundInv, Komoju
    PROVE  ElsewhereStep
<1> USE DEF ElsewhereStep, ReturnedStays, SaysReturned
<1>1. session \in SessionState \ {"VOIDED"}
  <2>1. kind = "komoju"
    BY DEF Komoju, KomojuGetsSession, KomojuGetsPayment, KomojuCancelsSession, KomojuCancelAsks,
           KomojuCancelsPayment, Running
  <2> QED
    BY <2>1, KomojuSessionSays DEF PInv
<1>2. /\ MapPaymentStatus(KomojuPayment(session)) = "REFUNDED" => FullyRefunded
      /\ ProviderStatusFromSession(session) = "REFUNDED" => FullyRefunded
  BY <1>1, KomojuFull
<1>3. ASSUME NEW status, KomojuAnswers(status), status = "REFUNDED" => FullyRefunded,
             UNCHANGED world
      PROVE  ElsewhereStep
  BY <1>3 DEF KomojuAnswers, Answers, SyncRefundStatusFromPaymentStatus, world
<1>4. CASE KomojuGetsSession
  BY <1>2, <1>3, <1>4 DEF KomojuGetsSession, Goes, world
<1>5. CASE KomojuGetsPayment
  <2>1. ProviderStatusFromPayment(call.id) = "REFUNDED" => FullyRefunded
    BY <1>1, KomojuPaymentRefunded
  <2> QED
    BY <1>3, <1>5, <2>1 DEF KomojuGetsPayment
<1>6. CASE KomojuCancelsSession
  BY <1>6 DEF KomojuCancelsSession, Goes, Answers
<1>7. CASE KomojuCancelAsks
  BY <1>7 DEF KomojuCancelAsks, Goes, Answers, world
<1>8. CASE KomojuCancelsPayment
  BY <1>8 DEF KomojuCancelsPayment, Answers
<1> QED
  BY <1>4, <1>5, <1>6, <1>7, <1>8 DEF Komoju

LEMMA GenericElsewhere ==
    ASSUME PInv, Generic
    PROVE  ElsewhereStep
<1> USE DEF ElsewhereStep, ReturnedStays, SaysReturned
<1>1. CASE GenericQuery
  BY <1>1 DEF GenericQuery, Answers, world
<1>2. CASE GenericCancel
  <2>1. \E p : Answers(p, "NONE")
    BY <1>2 DEF GenericCancel
  <2>2. answer'.refund = "NONE"
    BY <2>1 DEF Answers
  <2> QED
    BY <1>2, <2>2 DEF GenericCancel
<1>3. CASE GenericSync
  <2>1. UNCHANGED world /\ kind = "generic"
    BY <1>3 DEF GenericSync, Running
  <2>2. answer'.refund = "REFUNDED" => cfg.refund # "" /\ GenericRaw(session) = cfg.refund
    <3>1. CASE ~cfg.status
      <4>1. Answers("UNSUPPORTED", "UNSUPPORTED")
        BY <1>3, <3>1 DEF GenericSync
      <4> QED
        BY <4>1 DEF Answers
    <3>2. CASE cfg.status
      <4> DEFINE reports == cfg.refund # "" /\ GenericRaw(session) = cfg.refund
                 amount  == IF cfg.amountPath THEN Refunded({"SUCCESS"}) ELSE 0
      <4>1. PICK r : r = IF amount \in 1 .. TxAmount - 1 THEN "PARTIAL_REFUNDED"
                         ELSE IF reports THEN "REFUNDED" ELSE "NONE"
        OBVIOUS
      <4>2. \E p : Answers(p, r)
        BY <1>3, <3>2, <4>1 DEF GenericSync
      <4>3. answer'.refund = r
        BY <4>2 DEF Answers
      <4> QED
        BY <4>1, <4>3
    <3> QED
      BY <3>1, <3>2
  <2>3. cfg.refund # "" /\ GenericRaw(session) = cfg.refund => FullyRefunded
    BY <2>1, GenericFull DEF PInv
  <2> QED
    BY <2>1, <2>2, <2>3 DEF world
<1> QED
  BY <1>1, <1>2, <1>3 DEF Generic

LEMMA OthersElsewhere ==
    ASSUME \/ \E op, id : Calls(op, id)
           \/ CallFails \/ Xendit \/ Webhook \/ \E r \in RefundIds : RefundWebhook(r)
           \/ UNCHANGED vars
    PROVE  ElsewhereStep
<1> USE DEF ElsewhereStep, ReturnedStays, SaysReturned
<1>1. CASE \E op, id : Calls(op, id)
  <2>1. answer' = NoAnswer /\ UNCHANGED world
    BY <1>1 DEF Calls
  <2> QED
    BY <2>1 DEF NoAnswer, world
<1>2. CASE CallFails \/ UNCHANGED vars
  BY <1>2 DEF CallFails, world, vars
<1>3. CASE Xendit
  <2>1. kind = "xendit"
    BY <1>3 DEF Xendit, XenditQuery, XenditCancel, SyncReadsSession, SyncReadsRequest,
                SyncReadsPayment, SyncReadsHistory, SyncReadsRefunds, SyncReplies, AtRead, Running
  <2>2. UNCHANGED <<kind, refunds>>
    BY <1>3 DEF Xendit, XenditQuery, XenditCancel, SyncReadsSession, SyncReadsRequest,
                SyncReadsPayment, SyncReadsHistory, SyncReadsRefunds, SyncReplies, world
  <2> QED
    BY <2>1, <2>2
<1>4. ASSUME NEW op, NEW p, Tells(op, p) PROVE ElsewhereStep
  BY <1>4 DEF Tells, NoAnswer, world
<1>5. CASE Webhook \/ \E r \in RefundIds : RefundWebhook(r)
  BY <1>4, <1>5 DEF Webhook, RefundWebhook
<1> QED
  BY <1>1, <1>2, <1>3, <1>5

\* What succeeded does not become less, and is a full refund when one is answered.
LEMMA ElsewhereNext ==
    ASSUME PInv, RefundInv, RefundInv', RefundedElsewhere, [Next]_vars
    PROVE  RefundedElsewhere'
<1>1. ElsewhereStep
  BY EnvironmentElsewhere, KomojuElsewhere, GenericElsewhere, OthersElsewhere DEF Next
<1> DEFINE f == [r \in Returned |-> r]
           V == Amounts'
           R == Returned'
<1>2. /\ Returned \in SUBSET RefundIds /\ R \in SUBSET RefundIds /\ Returned \subseteq R
      /\ \A r \in Returned : Amounts[r] \in Nat /\ V[r] = Amounts[r]
      /\ \A r \in R : V[r] \in Nat
  BY <1>1, ProvidersAssumption DEF ElsewhereStep, ReturnedStays, Returned, Amounts, RefundInv,
                                   RefundsType
<1>3. f \in [Returned -> R] /\ (\A x, y \in Returned : f[x] = f[y] => x = y)
      /\ \A x \in Returned : Amounts[x] = V[f[x]]
  BY <1>2
<1>4. Total(Amounts, Returned) = Refunded({"SUCCESS"})
      /\ Total(V, R) = Refunded({"SUCCESS"})'
  BY DEF Returned, Refunded, Amounts, Total
<1> HIDE DEF f, V, R
<1>5. IsFiniteSet(Returned) /\ IsFiniteSet(R)
  BY <1>2, FiniteRefunds
<1>6. /\ Total(Amounts, Returned) <= Total(V, R)
      /\ Total(Amounts, Returned) \in Nat /\ Total(V, R) \in Nat
  BY <1>2, <1>3, <1>5, SumInjected, SumRemove
<1>7. FullyRefunded => Refunded({"SUCCESS"})' >= TxAmount
  BY <1>4, <1>6, ProvidersAssumption DEF FullyRefunded
<1> QED
  BY <1>1, <1>4, <1>6, <1>7, ProvidersAssumption DEF ElsewhereStep, SaysReturned, RefundedElsewhere

\* Unlike Xendit's, the REFUNDED of KOMOJU and of a generic provider means that
\* refunds over the whole amount have succeeded.
THEOREM RefundedElsewhereHolds == Spec => []RefundedElsewhere
<1>1. Init => RefundedElsewhere
  BY DEF Init, NoAnswer, RefundedElsewhere
<1>2. PInv /\ RefundInv /\ RefundInv' /\ RefundedElsewhere /\ [Next]_vars => RefundedElsewhere'
  BY ElsewhereNext
<1> QED
  BY <1>1, <1>2, ProvidersInvariant, RefundInvariant, PTL DEF Spec

-----------------------------------------------------------------------------
\* What was read of refunds is merged in any order

\* A merge never weakens a refund status: the result is as strong as it was,
\* and as strong as the summary that was read.
THEOREM MergeKeepsStronger ==
    ASSUME NEW result \in [payment : SyncPaymentStatus, refund : SyncRefundStatus],
           NEW items, NEW amount
    PROVE  LET merged == MergeRefundSummary(result, items, amount).refund
           IN  /\ ~StrongerRefundStatus(result.refund, merged)
               /\ ~StrongerRefundStatus(SummarizeXenditRefunds(items, amount), merged)
<1> DEFINE summary == SummarizeXenditRefunds(items, amount)
           merged == MergeRefundSummary(result, items, amount).refund
<1>1. \A s, t \in SyncRefundStatus : StrongerRefundStatus(s, t) => ~StrongerRefundStatus(t, s)
  BY DEF StrongerRefundStatus, SyncRefundStatus
<1>2. PICK s \in SyncRefundStatus : s = summary
  BY SummaryType
<1>3. merged = IF StrongerRefundStatus(s, result.refund) THEN s ELSE result.refund
  BY <1>2 DEF MergeRefundSummary
<1>4. result.refund \in SyncRefundStatus
  OBVIOUS
<1>5. ~StrongerRefundStatus(result.refund, merged) /\ ~StrongerRefundStatus(s, merged)
  BY <1>1, <1>3, <1>4
<1> QED
  BY <1>2, <1>5

=============================================================================
