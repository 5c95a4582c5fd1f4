---------------------------- MODULE RefundProofs ----------------------------
(***************************************************************************)
(* The safety properties of Refund hold for every number of transactions,  *)
(* wallet credits, admins, webhooks and syncs, and for every number of     *)
(* errors and crashes.  Each action preserves the inductive invariant RInv *)
(* and never turns a committed refund back.  Then Refund implements        *)
(* PaymentContract: every step maps to a step of the contract for one row, *)
(* or to a stutter.                                                        *)
(***************************************************************************)
EXTENDS Refund, StoreProofs

\* What a step must do: keep the invariant, and what was committed.
Sound == RInv' /\ RefundedStep

-----------------------------------------------------------------------------
\* Steps by kind

\* A step that leaves documents, provider, AGS and workers alone is sound.
LEMMA Stutter ==
  ASSUME RInv,
         UNCHANGED <<docs, rstate, debits, revoked, work>>,
         errors' \in 0..MaxErrors, crashes' \in 0..MaxCrashes
  PROVE  Sound
  BY DEF Sound, RInv, TypeOK, StoreTypeOK, Targets, RefundMutex, ReversalSteps,
         RefundedIsReversed, Reversed, AskedFirst, NoFreeReversal, Holds,
         RefundedStep, work

\* A change of the refund at the provider, which never forgets it, is sound.
LEMMA ProviderStep ==
  ASSUME RInv, rstate' \in [Tx -> RefundState],
         \A t \in Tx : rstate[t] # "NONE" => rstate'[t] # "NONE",
         UNCHANGED <<docs, ags, errors, crashes, work>>
  PROVE  Sound
  BY DEF Sound, RInv, TypeOK, StoreTypeOK, Targets, RefundMutex, ReversalSteps,
         RefundedIsReversed, Reversed, AskedFirst, NoFreeReversal, Holds,
         RefundedStep, work, ags

\* A credit that is taken back counts, and no other credit does.
LEMMA TakeBackGrows ==
  ASSUME TypeOK, NEW t \in Tx, NEW c \in Credits, TakeBack(t, c)
  PROVE  /\ debits' \in [Tx -> [Credits -> 0..2]]
         /\ \A u \in Tx : \A d \in Credits : debits[u][d] > 0 => debits'[u][d] > 0
         /\ debits'[t][c] > 0
         /\ \A u \in Tx \ {t} : debits'[u] = debits[u]
<1> DEFINE n == IF debits[t][c] < 2 THEN debits[t][c] + 1 ELSE 2
<1>1. debits[t] \in [Credits -> 0..2] /\ debits[t][c] \in 0..2
  BY DEF TypeOK
<1>2. n \in 0..2 /\ n > 0
  BY <1>1
<1> HIDE DEF n
<1>3. debits' = [debits EXCEPT ![t] = [debits[t] EXCEPT ![c] = n]]
  BY DEF TakeBack, TypeOK, n
<1>4. debits'[t] = [debits[t] EXCEPT ![c] = n]
  BY <1>3 DEF TypeOK
<1>5. debits'[t] \in [Credits -> 0..2]
  BY <1>1, <1>2, <1>4
<1>6. \A u \in Tx \ {t} : debits'[u] = debits[u]
  BY <1>3 DEF TypeOK
<1>7. \A d \in Credits : debits[t][d] > 0 => debits'[t][d] > 0
  BY <1>1, <1>2, <1>4
<1>8. debits'[t][c] > 0
  BY <1>1, <1>2, <1>4
<1> QED
  BY <1>3, <1>5, <1>6, <1>7, <1>8 DEF TypeOK

-----------------------------------------------------------------------------
\* The invariant

\* It holds of a row that was fulfilled and never refunded.
LEMMA InitRInv == Init => RInv
<1> SUFFICES ASSUME Init PROVE RInv
  OBVIOUS
<1>1. /\ rstate = [t \in Tx |-> "NONE"]
      /\ revoked = {}
      /\ debits = [t \in Tx |-> [c \in Credits |-> 0]]
      /\ errors = 0 /\ crashes = 0
      /\ pc = [w \in Worker |-> "idle"]
      /\ target = [w \in Worker |-> None]
      /\ fresh = [w \in Worker |-> FALSE]
      /\ left = [w \in Worker |-> {}]
  BY DEF Init
<1>2. docs \in [Tx -> {FulfilledRow(s) : s \in Session}]
  BY DEF Init
<1>3. \A t \in Tx : /\ docs[t] \in Doc
                    /\ docs[t].refund = "NONE"
                    /\ docs[t].providerRefunded = FALSE
  <2>1. ASSUME NEW s \in Session
        PROVE  /\ FulfilledRow(s) \in Doc
               /\ FulfilledRow(s).refund = "NONE"
               /\ FulfilledRow(s).providerRefunded = FALSE
    BY DEF FulfilledRow, NoRow, Doc, TxStatus, RefundStatus
  <2> QED
    BY <1>2, <2>1
<1>4. docs \in [Tx -> Doc]
  BY <1>2, <1>3
<1>5. TypeOK
  BY <1>1, <1>4, RefundAssumption DEF TypeOK, StoreTypeOK, RefundState, Steps
<1> QED
  BY <1>1, <1>3, <1>5
     DEF RInv, Targets, RefundMutex, ReversalSteps, RefundedIsReversed,
         AskedFirst, NoFreeReversal, Holds

\* A worker that ends what it holds, having written t's refund, is sound: no
\* other worker held t.
LEMMA EndStep ==
  ASSUME RInv, NEW w \in Worker, NEW t \in Tx, Holds(w, t), StoreTypeOK',
         \A u \in Tx \ {t} : docs'[u] = docs[u],
         docs'[t].refund = "REFUNDED" => Reversed(t),
         docs'[t].providerRefunded => rstate[t] # "NONE",
         Done(w),
         UNCHANGED <<rstate, ags, errors, crashes>>
  PROVE  Sound
<1> USE DEF RInv
<1>1. TypeOK'
  BY DEF TypeOK, Done, Steps, ags
<1>2. Targets'
  BY DEF Targets, Done, TypeOK
<1>3. \A v \in Worker, u \in Tx : Holds(v, u)' => Holds(v, u) /\ v # w /\ u # t
  BY DEF Holds, Done, TypeOK, RefundMutex
<1>4. RefundMutex'
  BY <1>3 DEF RefundMutex
<1>5. ReversalSteps'
  BY <1>3 DEF ReversalSteps, Holds, Done, TypeOK, ags
<1>6. RefundedIsReversed'
  BY DEF RefundedIsReversed, Reversed, ags
<1>7. AskedFirst'
  BY DEF AskedFirst, Done, TypeOK
<1>8. NoFreeReversal'
  BY DEF NoFreeReversal, ags
<1>9. RefundedStep
  BY DEF RefundedStep, RefundMutex
<1> QED
  BY <1>1, <1>2, <1>4, <1>5, <1>6, <1>7, <1>8, <1>9 DEF Sound

\* A worker that gives up, having changed nothing, is sound.
LEMMA GiveUpStep ==
  ASSUME RInv, NEW w \in Worker, Done(w),
         crashes' \in 0..MaxCrashes, UNCHANGED <<docs, rstate, ags, errors>>
  PROVE  Sound
<1> USE DEF RInv
<1>1. TypeOK'
  BY DEF TypeOK, StoreTypeOK, Done, Steps, ags
<1>2. Targets'
  BY DEF Targets, Done, TypeOK
<1>3. \A v \in Worker, u \in Tx : Holds(v, u)' => Holds(v, u) /\ v # w
  BY DEF Holds, Done, TypeOK
<1>4. RefundMutex'
  BY <1>3 DEF RefundMutex
<1>5. ReversalSteps'
  BY <1>3 DEF ReversalSteps, Done, TypeOK, ags
<1>6. RefundedIsReversed' /\ NoFreeReversal' /\ RefundedStep
  BY DEF RefundedIsReversed, Reversed, NoFreeReversal, RefundedStep, ags
<1>7. AskedFirst'
  BY DEF AskedFirst, Done, TypeOK
<1> QED
  BY <1>1, <1>2, <1>4, <1>5, <1>6, <1>7 DEF Sound

\* A worker that goes on without writing to the row is sound, when it does not
\* get hold of a row it did not hold and reverses only what was refunded.
LEMMA GoStep ==
  ASSUME RInv, NEW w \in Worker, NEW step \in Steps \ {"idle", "commitRefund"},
         pc' = [pc EXCEPT ![w] = step], target' \in [Worker -> Tx \cup {None}],
         \A v \in Worker \ {w} : target'[v] = target[v],
         target'[w] \in Tx,
         \A t \in Tx : Holds(w, t)' => Holds(w, t) /\ left'[w] = left[w],
         step # "markRefundFailed" /\ step # "refundPayment" /\ step # "claim"
            => rstate'[target'[w]] # "NONE",
         fresh' \in [Worker -> BOOLEAN], UNCHANGED left,
         StoreTypeOK',
         \A t \in Tx : docs'[t].refund = docs[t].refund,
         \A t \in Tx : docs'[t].providerRefunded => rstate'[t] # "NONE",
         rstate' \in [Tx -> RefundState],
         \A t \in Tx : rstate[t] # "NONE" => rstate'[t] # "NONE",
         errors' \in 0..MaxErrors,
         UNCHANGED <<ags, crashes>>
  PROVE  Sound
<1> USE DEF RInv
<1>1. TypeOK'
  BY DEF TypeOK, ags
<1>2. Targets'
  BY DEF Targets, TypeOK
<1>3. \A v \in Worker, u \in Tx : Holds(v, u)' => Holds(v, u)
  BY DEF Holds, TypeOK
<1>4. RefundMutex'
  BY <1>3 DEF RefundMutex
<1>5. ReversalSteps'
  BY <1>3 DEF ReversalSteps, TypeOK, ags
<1>6. RefundedIsReversed'
  BY DEF RefundedIsReversed, Reversed, ags
<1>7. AskedFirst'
  BY DEF AskedFirst, TypeOK, Targets
<1>8. NoFreeReversal'
  BY DEF NoFreeReversal, ags
<1>9. RefundedStep
  BY DEF RefundedStep
<1> QED
  BY <1>1, <1>2, <1>4, <1>5, <1>6, <1>7, <1>8, <1>9 DEF Sound

\* A worker that is granted a claim holds a row nobody else holds.
LEMMA ClaimStep ==
  ASSUME RInv, NEW w \in Worker, NEW t \in Tx, target[w] = t,
         NEW step \in {"refundPayment", "reverse"},
         NEW f \in BOOLEAN,
         AtomicClaimRefunding(t, f) \/ AtomicClaimExternalRefunding(t),
         Claimed(w, step),
         docs'[t].providerRefunded => rstate[t] # "NONE",
         step = "reverse" => rstate[t] # "NONE",
         UNCHANGED <<rstate, ags, errors, crashes>>
  PROVE  Sound
<1> USE DEF RInv
<1>1. /\ StoreTypeOK'
      /\ docs[t].refund \in {"NONE", "REFUND_FAILED"}
      /\ docs'[t].refund = "REFUNDING"
      /\ \A u \in Tx \ {t} : docs'[u] = docs[u]
  BY RefundClaimWrites DEF TypeOK
<1>2. TypeOK'
  BY <1>1 DEF TypeOK, Claimed, Steps, ags
<1>3. Targets'
  BY DEF Targets, Claimed, TypeOK
<1>4. \A v \in Worker : ~Holds(v, t)
  BY <1>1 DEF RefundMutex
<1>5. \A v \in Worker, u \in Tx :
        Holds(v, u)' => (u = t /\ v = w) \/ (u # t /\ Holds(v, u))
  <2> SUFFICES ASSUME NEW v \in Worker, NEW u \in Tx, Holds(v, u)'
               PROVE  (u = t /\ v = w) \/ (u # t /\ Holds(v, u))
    OBVIOUS
  <2>1. CASE v = w
    BY <2>1 DEF Holds, Claimed
  <2>2. CASE v # w
    BY <1>4, <2>2 DEF Holds, Claimed, TypeOK
  <2> QED
    BY <2>1, <2>2
<1>6. RefundMutex'
  BY <1>1, <1>5 DEF RefundMutex
<1>7. ReversalSteps'
  BY <1>5 DEF ReversalSteps, Claimed, TypeOK, ags
<1>8. RefundedIsReversed'
  BY <1>1 DEF RefundedIsReversed, Reversed, ags
<1>9. AskedFirst'
  BY <1>1 DEF AskedFirst, Claimed, TypeOK
<1>10. NoFreeReversal'
  BY DEF NoFreeReversal, ags
<1>11. RefundedStep
  BY <1>1 DEF RefundedStep
<1> QED
  BY <1>2, <1>3, <1>6, <1>7, <1>8, <1>9, <1>10, <1>11 DEF Sound

\* A worker that reverses has done more than before, is sound.
LEMMA ReverseStep ==
  ASSUME RInv, NEW w \in Worker, pc[w] = "reverse",
         NEW step \in {"reverse", "commitRefund", "markRefundFailed"},
         pc' = [pc EXCEPT ![w] = step], UNCHANGED <<target, fresh>>,
         left' \in [Worker -> SUBSET Credits],
         \A v \in Worker \ {w} : left'[v] = left[v],
         debits' \in [Tx -> [Credits -> 0..2]],
         \A u \in Tx : \A c \in Credits : debits[u][c] > 0 => debits'[u][c] > 0,
         \A u \in Tx \ {target[w]} : debits'[u] = debits[u],
         \A c \in left[w] \ left'[w] : debits'[target[w]][c] > 0,
         revoked \subseteq revoked', revoked' \subseteq revoked \cup {target[w]},
         step = "commitRefund" => left'[w] = {} /\ target[w] \in revoked',
         errors' \in 0..MaxErrors, UNCHANGED <<docs, rstate, crashes>>
  PROVE  Sound
<1> USE DEF RInv
<1>1. target[w] \in Tx /\ rstate[target[w]] # "NONE"
  BY DEF Targets, AskedFirst
<1>2. TypeOK'
  BY <1>1 DEF TypeOK, StoreTypeOK, Steps
<1>3. Targets'
  BY DEF Targets, TypeOK
<1>4. \A v \in Worker, u \in Tx : Holds(v, u)' => Holds(v, u)
  BY DEF Holds, TypeOK
<1>5. RefundMutex'
  BY <1>4 DEF RefundMutex
<1>6. ReversalSteps'
  <2> SUFFICES ASSUME NEW v \in Worker, NEW u \in Tx, Holds(v, u)'
               PROVE  /\ \A c \in Credits \ left'[v] : debits'[u][c] > 0
                      /\ pc'[v] = "commitRefund" => left'[v] = {} /\ u \in revoked'
    BY DEF ReversalSteps
  <2>1. \A c \in Credits \ left[v] : debits[u][c] > 0
    BY <1>4 DEF ReversalSteps
  <2>2. CASE v = w
    <3>1. u = target[w]
      BY <2>2 DEF Holds
    <3> QED
      BY <2>1, <2>2, <3>1 DEF TypeOK
  <2>3. CASE v # w
    BY <1>4, <2>1, <2>3 DEF ReversalSteps, TypeOK
  <2> QED
    BY <2>2, <2>3
<1>7. RefundedIsReversed'
  BY DEF RefundedIsReversed, Reversed
<1>8. AskedFirst'
  BY DEF AskedFirst, TypeOK
<1>9. NoFreeReversal'
  BY <1>1 DEF NoFreeReversal
<1>10. RefundedStep
  BY DEF RefundedStep
<1> QED
  BY <1>2, <1>3, <1>5, <1>6, <1>7, <1>8, <1>9, <1>10 DEF Sound

\* Every step is sound.
LEMMA RefundNext == RInv /\ [Next]_vars => Sound
<1> SUFFICES ASSUME RInv, [Next]_vars PROVE Sound
  OBVIOUS
<1> USE RefundAssumption
<1>a. TypeOK /\ StoreTypeOK /\ Targets /\ RefundMutex /\ ReversalSteps /\ AskedFirst
  BY DEF RInv, TypeOK
<1>1. CASE UNCHANGED vars
  BY <1>1, <1>a, Stutter DEF vars, work, TypeOK
<1>2. ASSUME NEW t \in Tx, DashboardRefund(t) PROVE Sound
  <2> USE <1>2, <1>a DEF DashboardRefund, RefundStarts
  <2>1. rstate' \in [Tx -> RefundState]
    BY DEF TypeOK, RefundState
  <2>2. \A u \in Tx : rstate[u] # "NONE" => rstate'[u] # "NONE"
    BY DEF TypeOK
  <2> QED
    BY <2>1, <2>2, ProviderStep
<1>3. ASSUME NEW t \in Tx, RefundSettles(t) PROVE Sound
  <2> USE <1>3, <1>a DEF RefundSettles
  <2>1. rstate' \in [Tx -> RefundState]
    BY DEF TypeOK, RefundState
  <2>2. \A u \in Tx : rstate[u] # "NONE" => rstate'[u] # "NONE"
    BY DEF TypeOK
  <2> QED
    BY <2>1, <2>2, ProviderStep
<1>4. ASSUME NEW t \in Tx, WebhookRefundFailed(t) PROVE Sound
  <2>1. /\ StoreTypeOK'
        /\ \A u \in Tx : /\ docs'[u].refund = docs[u].refund
                         /\ docs'[u].providerRefunded = docs[u].providerRefunded
    BY <1>4, <1>a, MarkFailedWrites DEF WebhookRefundFailed
  <2>2. UNCHANGED <<rstate, debits, revoked, errors, crashes, pc, target,
                    fresh, left>>
    BY <1>4 DEF WebhookRefundFailed, work, ags
  <2>3. \A w \in Worker, u \in Tx : Holds(w, u)' => Holds(w, u)
    BY <2>2 DEF Holds
  <2>4. TypeOK' /\ Targets' /\ ReversalSteps'
    BY <1>a, <2>1, <2>2, <2>3 DEF TypeOK, Targets, ReversalSteps
  <2>5. RefundMutex' /\ AskedFirst'
    BY <1>a, <2>1, <2>2, <2>3 DEF RefundMutex, AskedFirst
  <2>6. RefundedIsReversed' /\ NoFreeReversal' /\ RefundedStep
    BY <2>1, <2>2 DEF RInv, RefundedIsReversed, Reversed, NoFreeReversal, RefundedStep
  <2> QED
    BY <2>4, <2>5, <2>6 DEF Sound, RInv
<1>5. ASSUME NEW a \in Admins, NEW t \in Tx, AdminReads(a, t) PROVE Sound
  <2> USE <1>5, <1>a DEF AdminReads
  <2>1. a \in Worker /\ "claim" \in Steps \ {"idle", "commitRefund"}
    BY DEF Worker, Steps
  <2>2. target'[a] = t /\ target' \in [Worker -> Tx \cup {None}]
    BY <2>1 DEF TypeOK
  <2>3. pc'[a] = "claim"
    BY <2>1 DEF TypeOK
  <2>4. \A u \in Tx : ~Holds(a, u)'
    BY <2>3 DEF Holds
  <2> QED
    BY <2>1, <2>2, <2>4, GoStep DEF TypeOK, AskedFirst, StoreTypeOK
<1>6. ASSUME NEW a \in Worker, AdminClaims(a) PROVE Sound
  <2> USE <1>6, <1>a DEF AdminClaims
  <2> DEFINE t == target[a]
  <2>1. a \in Worker /\ t \in Tx /\ fresh[a] \in BOOLEAN
    BY DEF Targets, TypeOK
  <2>2. CASE ~RefundClaimable(t) /\ Done(a) /\ UNCHANGED docs
    BY <2>1, <2>2, GiveUpStep DEF TypeOK
  <2>3. CASE /\ AtomicClaimRefunding(t, fresh[a])
             /\ Claimed(a, IF docs'[t].providerRefunded
                           THEN "reverse" ELSE "refundPayment")
    <3>1. docs'[t].providerRefunded => docs[t].providerRefunded
      BY <2>1, <2>3, RefundClaimWrites
    <3>2. docs'[t].providerRefunded => rstate[t] # "NONE"
      BY <2>1, <3>1 DEF AskedFirst
    <3>3. CASE docs'[t].providerRefunded
      <4>1. Claimed(a, "reverse")
        BY <2>3, <3>3
      <4> QED
        BY <2>1, <2>3, <3>2, <3>3, <4>1, ClaimStep
    <3>4. CASE ~docs'[t].providerRefunded
      <4>1. Claimed(a, "refundPayment")
        BY <2>3, <3>4
      <4> QED
        BY <2>1, <2>3, <3>4, <4>1, ClaimStep
    <3> QED
      BY <3>3, <3>4
  <2> QED
    BY <2>2, <2>3
<1>7. ASSUME NEW a \in Worker, RefundPayment(a) PROVE Sound
  <2> USE <1>7, <1>a DEF RefundPayment
  <2> DEFINE t == target[a]
  <2>1. t \in Tx
    BY DEF Targets
  <2>2. CASE Error
    <3>1. rstate' \in [Tx -> RefundState]
      BY DEF RefundStarts, TypeOK, RefundState
    <3>2. \A u \in Tx : rstate[u] # "NONE" => rstate'[u] # "NONE"
      BY DEF RefundStarts, TypeOK
    <3>3. Goto(a, "markRefundFailed") /\ errors' \in 0..MaxErrors
      BY <2>2 DEF Error, TypeOK
    <3>4. Holds(a, t)
      BY DEF Holds
    <3>5. "markRefundFailed" \in Steps \ {"idle", "commitRefund"}
      BY DEF Steps
    <3> QED
      BY <2>1, <3>1, <3>2, <3>3, <3>4, <3>5, GoStep
         DEF Goto, TypeOK, StoreTypeOK, AskedFirst, Holds
  <2>3. CASE Goto(a, "markSucceeded") /\ UNCHANGED errors
    <3>1. rstate' \in [Tx -> RefundState] /\ rstate'[t] # "NONE"
      BY <2>1, <2>3 DEF RefundStarts, TypeOK, RefundState, Goto, Error
    <3>2. \A u \in Tx : rstate[u] # "NONE" => rstate'[u] # "NONE"
      BY DEF RefundStarts, TypeOK
    <3>3. Holds(a, t)
      BY DEF Holds
    <3>4. "markSucceeded" \in Steps \ {"idle", "commitRefund"}
      BY DEF Steps
    <3> QED
      BY <2>1, <2>3, <3>1, <3>2, <3>3, <3>4, GoStep
         DEF Goto, TypeOK, StoreTypeOK, AskedFirst, Holds
  <2> QED
    BY <2>2, <2>3
<1>8. ASSUME NEW a \in Worker, MarkSucceeded(a) PROVE Sound
  <2> USE <1>8, <1>a DEF MarkSucceeded
  <2> DEFINE t == target[a]
  <2>1. t \in Tx /\ Holds(a, t) /\ rstate[t] # "NONE"
    BY DEF Targets, Holds, AskedFirst
  <2>2. /\ StoreTypeOK'
        /\ docs'[t].refund = docs[t].refund
        /\ \A u \in Tx \ {t} : docs'[u] = docs[u]
    BY <2>1, ProviderSucceededWrites
  <2>3. "reverse" \in Steps \ {"idle", "commitRefund"}
    BY DEF Steps
  <2> QED
    BY <2>1, <2>2, <2>3, GoStep DEF Goto, TypeOK, AskedFirst, Holds
<1>9. ASSUME NEW o \in Observers, NEW t \in Tx, rstate[t] # "NONE", Notice(o, t)
      PROVE  Sound
  <2> USE <1>9, <1>a DEF Notice, Idle
  <2>1. o \in Worker /\ "claimExternal" \in Steps \ {"idle", "commitRefund"}
    BY DEF Worker, Steps
  <2>2. target'[o] = t /\ target' \in [Worker -> Tx \cup {None}]
    BY <2>1 DEF TypeOK
  <2>3. \A u \in Tx : ~Holds(o, u)'
    BY <2>1 DEF Holds, TypeOK
  <2> QED
    BY <2>1, <2>2, <2>3, GoStep DEF TypeOK, AskedFirst, StoreTypeOK
<1>10. ASSUME NEW o \in Worker, ExternalClaims(o) PROVE Sound
  <2> USE <1>10, <1>a DEF ExternalClaims
  <2> DEFINE t == target[o]
  <2>1. t \in Tx /\ rstate[t] # "NONE"
    BY DEF Targets, AskedFirst
  <2>2. CASE AtomicClaimExternalRefunding(t) /\ Claimed(o, "reverse")
    BY <2>1, <2>2, ClaimStep
  <2>3. CASE Done(o) /\ UNCHANGED docs
    BY <2>1, <2>3, GiveUpStep DEF TypeOK
  <2> QED
    BY <2>2, <2>3
<1>11. ASSUME NEW w \in Worker, Debit(w) PROVE Sound
  <2>1. PICK c \in left[w] :
           TakeBack(target[w], c) /\ left' = [left EXCEPT ![w] = @ \ {c}]
    BY <1>11 DEF Debit
  <2>2. /\ pc[w] = "reverse"
        /\ UNCHANGED <<docs, rstate, revoked, errors, crashes, pc, target, fresh>>
    BY <1>11 DEF Debit
  <2>3. target[w] \in Tx /\ c \in Credits
    BY <1>a, <2>2 DEF Targets, TypeOK
  <2>4. /\ debits' \in [Tx -> [Credits -> 0..2]]
        /\ \A u \in Tx : \A d \in Credits : debits[u][d] > 0 => debits'[u][d] > 0
        /\ debits'[target[w]][c] > 0
        /\ \A u \in Tx \ {target[w]} : debits'[u] = debits[u]
    BY <1>a, <2>1, <2>3, TakeBackGrows
  <2>5. /\ left' \in [Worker -> SUBSET Credits]
        /\ \A v \in Worker \ {w} : left'[v] = left[v]
        /\ left[w] \ left'[w] \subseteq {c}
    BY <1>a, <2>1 DEF TypeOK
  <2>6. \A d \in left[w] \ left'[w] : debits'[target[w]][d] > 0
    BY <2>4, <2>5
  <2>7. pc' = [pc EXCEPT ![w] = "reverse"]
    BY <1>a, <2>2 DEF TypeOK
  <2>8. revoked \subseteq revoked' /\ revoked' \subseteq revoked \cup {target[w]}
    BY <2>2
  <2>9. errors' \in 0..MaxErrors
    BY <1>a, <2>2 DEF TypeOK
  <2> QED
    BY <2>2, <2>4, <2>5, <2>6, <2>7, <2>8, <2>9, ReverseStep
<1>12. ASSUME NEW w \in Worker, Revoke(w) PROVE Sound
  <2>1. /\ pc[w] = "reverse" /\ pc' = [pc EXCEPT ![w] = "commitRefund"]
        /\ revoked' = revoked \cup {target[w]}
        /\ left' = left /\ left[w] = {}
        /\ UNCHANGED <<docs, rstate, debits, errors, crashes, target, fresh>>
    BY <1>12 DEF Revoke, Goto
  <2>2. /\ left' \in [Worker -> SUBSET Credits]
        /\ debits' \in [Tx -> [Credits -> 0..2]]
        /\ errors' \in 0..MaxErrors
    BY <1>a, <2>1 DEF TypeOK
  <2>3. /\ \A v \in Worker \ {w} : left'[v] = left[v]
        /\ \A u \in Tx : \A d \in Credits : debits[u][d] > 0 => debits'[u][d] > 0
        /\ \A u \in Tx \ {target[w]} : debits'[u] = debits[u]
        /\ \A d \in left[w] \ left'[w] : debits'[target[w]][d] > 0
    BY <2>1
  <2>4. /\ revoked \subseteq revoked' /\ revoked' \subseteq revoked \cup {target[w]}
        /\ left'[w] = {} /\ target[w] \in revoked'
    BY <2>1
  <2> QED
    BY <2>1, <2>2, <2>3, <2>4, ReverseStep
<1>13. ASSUME NEW w \in Worker, ReverseFails(w) PROVE Sound
  <2> USE <1>13, <1>a DEF ReverseFails
  <2>1. errors' \in 0..MaxErrors /\ Goto(w, "markRefundFailed")
    BY DEF Error, TypeOK
  <2>2. CASE UNCHANGED ags
    BY <2>1, <2>2, ReverseStep DEF Goto, TypeOK, ags
  <2>3. ASSUME NEW c \in left[w], TakeBack(target[w], c), UNCHANGED revoked
        PROVE  Sound
    <3>1. target[w] \in Tx /\ c \in Credits
      BY DEF Targets, TypeOK
    <3>2. /\ debits' \in [Tx -> [Credits -> 0..2]]
          /\ \A u \in Tx : \A d \in Credits : debits[u][d] > 0 => debits'[u][d] > 0
          /\ \A u \in Tx \ {target[w]} : debits'[u] = debits[u]
      BY <2>3, <3>1, TakeBackGrows
    <3> QED
      BY <2>1, <2>3, <3>2, ReverseStep DEF Goto, TypeOK
  <2>4. CASE revoked' = revoked \cup {target[w]} /\ UNCHANGED debits
    BY <2>1, <2>4, ReverseStep DEF Goto, TypeOK
  <2> QED
    BY <2>2, <2>3, <2>4
<1>14. ASSUME NEW w \in Worker, Commit(w) PROVE Sound
  <2> USE <1>14, <1>a DEF Commit
  <2> DEFINE t == target[w]
  <2>1. t \in Tx /\ Holds(w, t) /\ rstate[t] # "NONE"
    BY DEF Targets, Holds, AskedFirst
  <2>2. StoreTypeOK' /\ \A u \in Tx \ {t} : docs'[u] = docs[u]
    BY <2>1, CommitRefundWrites
  <2>3. Reversed(t)
    BY <2>1 DEF ReversalSteps, Reversed
  <2> QED
    BY <2>1, <2>2, <2>3, EndStep
<1>15. ASSUME NEW w \in Worker, Fail(w) PROVE Sound
  <2> USE <1>15, <1>a DEF Fail
  <2> DEFINE t == target[w]
  <2>1. t \in Tx /\ Holds(w, t)
    BY DEF Targets, Holds
  <2>2. /\ StoreTypeOK'
        /\ docs'[t].refund = "REFUND_FAILED" \/ docs' = docs
        /\ docs'[t].providerRefunded = docs[t].providerRefunded
        /\ \A u \in Tx \ {t} : docs'[u] = docs[u]
    BY <2>1, RefundFailedWrites
  <2>3. docs'[t].refund # "REFUNDED" /\ (docs'[t].providerRefunded => rstate[t] # "NONE")
    BY <2>1, <2>2 DEF RefundMutex, AskedFirst
  <2> QED
    BY <2>1, <2>2, <2>3, EndStep DEF TypeOK
<1>16. ASSUME NEW w \in Worker, Crash(w) PROVE Sound
  BY <1>16, <1>a, GiveUpStep DEF Crash, TypeOK
<1>17. ASSUME Starts PROVE Sound
  <2>1. ASSUME NEW o \in Observers, NEW t \in Tx, WebhookRefunded(o, t)
        PROVE  Sound
    BY <1>9, <2>1 DEF WebhookRefunded
  <2>2. ASSUME NEW o \in Observers, NEW t \in Tx, SyncRefunded(o, t)
        PROVE  Sound
    BY <1>9, <2>2 DEF SyncRefunded
  <2> QED
    BY <1>5, <1>17, <2>1, <2>2 DEF Starts
<1>18. ASSUME NEW w \in Worker, Step(w) PROVE Sound
  BY <1>6, <1>7, <1>8, <1>10, <1>11, <1>12, <1>13, <1>14, <1>15, <1>18 DEF Step
<1> QED
  BY <1>1, <1>2, <1>3, <1>4, <1>16, <1>17, <1>18 DEF Next, Provider

-----------------------------------------------------------------------------
\* The theorems

\* RInv is an invariant: the claim, the record of the provider's refund and the
\* progress of the reversal fit together in every reachable state.
THEOREM RefundInvariant == Spec => []RInv
<1>1. Init => RInv
  BY InitRInv
<1>2. RInv /\ [Next]_vars => RInv'
  BY RefundNext DEF Sound
<1> QED
  BY <1>1, <1>2, PTL DEF Spec

\* The variables keep their types.
THEOREM RefundTypeCorrect == Spec => []TypeOK
<1>1. RInv => TypeOK
  BY DEF RInv
<1> QED
  BY <1>1, RefundInvariant, PTL

\* The admin, the webhook and the sync never refund one transaction together,
\* and the row says REFUNDING while one of them does.
THEOREM RefundMutexHolds == Spec => []RefundMutex
<1>1. RInv => RefundMutex
  BY DEF RInv
<1> QED
  BY <1>1, RefundInvariant, PTL

\* A refund is committed only after every credit was debited and the
\* entitlements were revoked.
THEOREM RefundedIsReversedHolds == Spec => []RefundedIsReversed
<1>1. RInv => RefundedIsReversed
  BY DEF RInv
<1> QED
  BY <1>1, RefundInvariant, PTL

\* Nothing is taken back from the player before the provider was asked to
\* refund, or has done so by itself.
THEOREM NoFreeReversalHolds == Spec => []NoFreeReversal
<1>1. RInv => NoFreeReversal
  BY DEF RInv
<1> QED
  BY <1>1, RefundInvariant, PTL

\* A committed refund is never turned back into a failed or a running one.
THEOREM RefundedIsFinalHolds == Spec => RefundedIsFinal
<1>1. RInv /\ [Next]_vars => [RefundedStep]_docs
  BY RefundNext DEF Sound
<1> QED
  BY <1>1, RefundInvariant, PTL DEF Spec, RefundedIsFinal

-----------------------------------------------------------------------------
\* The contract

\* What the contract sees of the rows, the provider and AGS.
SameStatus(u) == docs'[u].status = docs[u].status
SameRefund(u) == docs'[u].refund = docs[u].refund
SameRows  == \A u \in Tx : SameStatus(u) /\ SameRefund(u)
SameAsked == \A u \in Tx : rstate'[u] # "NONE" <=> rstate[u] # "NONE"
SameBack  == \A u \in Tx : Reversed(u)' <=> Reversed(u)

Implements == Contract!Next \/ UNCHANGED Contract!vars

-----------------------------------------------------------------------------
\* Steps by kind

\* What the contract sees, when it does not change.
LEMMA SameSeen ==
  /\ (\A u \in Tx : SameStatus(u)) =>
        [u \in Tx |-> docs[u].status]' = [u \in Tx |-> docs[u].status]
  /\ (\A u \in Tx : SameRefund(u)) =>
        [u \in Tx |-> docs[u].refund]' = [u \in Tx |-> docs[u].refund]
  /\ SameAsked => {u \in Tx : rstate[u] # "NONE"}' = {u \in Tx : rstate[u] # "NONE"}
  /\ SameBack => {u \in Tx : Reversed(u)}' = {u \in Tx : Reversed(u)}
<1>1. (\A u \in Tx : SameStatus(u)) =>
        [u \in Tx |-> docs[u].status]' = [u \in Tx |-> docs[u].status]
  BY DEF SameStatus
<1>2. (\A u \in Tx : SameRefund(u)) =>
        [u \in Tx |-> docs[u].refund]' = [u \in Tx |-> docs[u].refund]
  BY DEF SameRefund
<1>3. SameAsked => {u \in Tx : rstate[u] # "NONE"}' = {u \in Tx : rstate[u] # "NONE"}
  BY DEF SameAsked
<1>4. SameBack => {u \in Tx : Reversed(u)}' = {u \in Tx : Reversed(u)}
  BY DEF SameBack
<1> QED
  BY <1>1, <1>2, <1>3, <1>4

\* A step the contract does not see is a stutter.
LEMMA UnseenStep ==
  ASSUME SameRows, SameAsked, SameBack
  PROVE  Implements
  BY SameSeen DEF Implements, Contract!vars, SameRows

\* A refund that starts at the provider, for a first or another time.
LEMMA AskStep ==
  ASSUME NEW t \in Tx, RefundStarts(t), rstate \in [Tx -> RefundState],
         SameRows, SameBack
  PROVE  Implements
<1>1. {u \in Tx : rstate[u] # "NONE"}' = {u \in Tx : rstate[u] # "NONE"} \cup {t}
  BY DEF RefundStarts
<1>2. Contract!AskRefund(t)
  BY <1>1, SameSeen DEF Contract!AskRefund, Contract!money, SameRows
<1> QED
  BY <1>2 DEF Implements, Contract!Next

\* A row that fails.
LEMMA FailStep ==
  ASSUME NEW t \in Tx, StoreTypeOK, MarkFailed(t), SameAsked, SameBack
  PROVE  Implements
<1> DEFINE status == [u \in Tx |-> docs[u].status]
<1>1. CASE Exists(t)
  <2>1. /\ docs'[t].status = "FAILED"
        /\ \A u \in Tx \ {t} : docs'[u].status = docs[u].status
        /\ \A u \in Tx : SameRefund(u)
    BY <1>1 DEF MarkFailed, StoreTypeOK, Doc, SameRefund
  <2>2. status' = [status EXCEPT ![t] = "FAILED"]
    BY <2>1
  <2>3. status[t] \notin {"ABSENT", "GONE"}
    BY <1>1 DEF Exists
  <2> HIDE DEF status
  <2>4. Contract!Becomes(t, "FAILED")
    BY <2>1, <2>2, SameSeen
       DEF Contract!Becomes, Contract!money, Contract!back, status
  <2>5. Contract!Fail(t)
    BY <2>3, <2>4 DEF Contract!Fail, Contract!Existing, status
  <2> QED
    BY <2>5 DEF Implements, Contract!Next
<1>2. CASE ~Exists(t)
  BY <1>2, UnseenStep DEF MarkFailed, SameRows, SameStatus, SameRefund
<1> QED
  BY <1>1, <1>2

\* The refund of one row turns from one status to another, as allowed.
LEMMA RefundStep ==
  ASSUME NEW t \in Tx, NEW new, docs'[t].refund = new,
         \A u \in Tx \ {t} : docs'[u] = docs[u], SameStatus(t),
         \/ /\ docs[t].status = "FULFILLED"
            /\ docs[t].refund \in {"NONE", "REFUND_FAILED"}
            /\ new = "REFUNDING"
         \/ docs[t].refund = "REFUNDING" /\ Reversed(t) /\ new = "REFUNDED"
         \/ docs[t].refund = "REFUNDING" /\ new = "REFUND_FAILED",
         SameAsked, SameBack
  PROVE  Implements
<1> DEFINE refund == [u \in Tx |-> docs[u].refund]
<1> DEFINE status == [u \in Tx |-> docs[u].status]
<1> DEFINE returned == {u \in Tx : Reversed(u)}
<1>1. refund' = [refund EXCEPT ![t] = new]
  OBVIOUS
<1>2. \A u \in Tx : SameStatus(u)
  BY DEF SameStatus
<1>3. refund[t] = docs[t].refund /\ status[t] = docs[t].status
  OBVIOUS
<1>4. t \in returned <=> Reversed(t)
  OBVIOUS
<1> HIDE DEF refund, status, returned
<1>5. Contract!RefundBecomes(t, new)
  BY <1>1, <1>2, SameSeen
     DEF Contract!RefundBecomes, Contract!money, Contract!back, refund
<1>6. Contract!ClaimRefund(t) \/ Contract!CommitRefund(t) \/ Contract!FailRefund(t)
  BY <1>3, <1>4, <1>5
     DEF Contract!ClaimRefund, Contract!CommitRefund, Contract!FailRefund,
         refund, status, returned
<1> QED
  BY <1>6 DEF Implements, Contract!Next

\* A step of the reversal of a row that is claimed and was asked about.
LEMMA BackStep ==
  ASSUME NEW t \in Tx, docs[t].refund = "REFUNDING", rstate[t] # "NONE",
         \A u \in Tx \ {t} : Reversed(u)' <=> Reversed(u),
         Reversed(t) => Reversed(t)',
         SameRows, SameAsked
  PROVE  Implements
<1>1. CASE Reversed(t)' <=> Reversed(t)
  BY <1>1, UnseenStep DEF SameBack
<1>2. CASE Reversed(t)' /\ ~Reversed(t)
  <2>1. {u \in Tx : Reversed(u)}' = {u \in Tx : Reversed(u)} \cup {t}
    BY <1>2
  <2>2. Contract!TakeBack(t)
    BY <2>1, SameSeen DEF Contract!TakeBack, Contract!money, SameRows
  <2> QED
    BY <2>2 DEF Implements, Contract!Next
<1> QED
  BY <1>1, <1>2

\* The operations on the refund leave the status of the row alone.
LEMMA StatusKept ==
  ASSUME StoreTypeOK, NEW t \in Tx, NEW f \in BOOLEAN,
         \/ AtomicClaimRefunding(t, f) \/ AtomicClaimExternalRefunding(t)
         \/ MarkRefundProviderSucceeded(t) \/ CommitRefund(t) \/ MarkRefundFailed(t)
  PROVE  SameStatus(t)
<1>1. CASE AtomicClaimRefunding(t, f)
  BY <1>1 DEF AtomicClaimRefunding, SameStatus, StoreTypeOK, Doc
<1>2. CASE AtomicClaimExternalRefunding(t)
  BY <1>2 DEF AtomicClaimExternalRefunding, SameStatus, StoreTypeOK, Doc
<1>3. CASE MarkRefundProviderSucceeded(t)
  BY <1>3 DEF MarkRefundProviderSucceeded, SameStatus, StoreTypeOK, Doc
<1>4. CASE CommitRefund(t)
  BY <1>4 DEF CommitRefund, SameStatus, StoreTypeOK, Doc
<1>5. CASE MarkRefundFailed(t)
  BY <1>5 DEF MarkRefundFailed, SameStatus, StoreTypeOK, Doc
<1> QED
  BY <1>1, <1>2, <1>3, <1>4, <1>5

\* What does not touch provider and AGS leaves what the contract sees of them.
LEMMA SameOutside ==
  /\ UNCHANGED rstate => SameAsked
  /\ UNCHANGED ags => SameBack
  BY DEF SameAsked, SameBack, Reversed, ags

\* A granted claim.
LEMMA ClaimImplements ==
  ASSUME StoreTypeOK, NEW t \in Tx, NEW f \in BOOLEAN,
         AtomicClaimRefunding(t, f) \/ AtomicClaimExternalRefunding(t),
         UNCHANGED <<rstate, ags>>
  PROVE  Implements
<1>1. /\ docs'[t].refund = "REFUNDING"
      /\ \A u \in Tx \ {t} : docs'[u] = docs[u]
  BY RefundClaimWrites
<1>2. SameStatus(t)
  BY StatusKept
<1>3. docs[t].status = "FULFILLED" /\ docs[t].refund \in {"NONE", "REFUND_FAILED"}
  BY DEF AtomicClaimRefunding, AtomicClaimExternalRefunding, RefundClaimable
<1>4. SameAsked /\ SameBack
  BY SameOutside
<1> QED
  BY <1>1, <1>2, <1>3, <1>4, RefundStep

\* The end of a claim: committed when all is taken back, or failed.
LEMMA EndImplements ==
  ASSUME StoreTypeOK, NEW t \in Tx, docs[t].refund = "REFUNDING",
         (CommitRefund(t) /\ Reversed(t)) \/ MarkRefundFailed(t),
         UNCHANGED <<rstate, ags>>
  PROVE  Implements
<1>1. SameAsked /\ SameBack
  BY SameOutside
<1>2. CASE UNCHANGED docs
  BY <1>1, <1>2, UnseenStep DEF SameRows, SameStatus, SameRefund
<1>3. CASE CommitRefund(t) /\ Reversed(t) /\ docs' # docs
  <2>1. \A u \in Tx \ {t} : docs'[u] = docs[u]
    BY <1>3, CommitRefundWrites
  <2>2. docs'[t].refund = "REFUNDED"
    BY <1>3 DEF CommitRefund, StoreTypeOK, Doc
  <2>3. SameStatus(t)
    BY <1>3, StatusKept
  <2> QED
    BY <1>1, <1>3, <2>1, <2>2, <2>3, RefundStep
<1>4. CASE MarkRefundFailed(t) /\ docs' # docs
  <2>1. docs'[t].refund = "REFUND_FAILED" /\ \A u \in Tx \ {t} : docs'[u] = docs[u]
    BY <1>4, RefundFailedWrites
  <2>2. SameStatus(t)
    BY <1>4, StatusKept
  <2> QED
    BY <1>1, <2>1, <2>2, RefundStep
<1> QED
  BY <1>2, <1>3, <1>4

\* A step of a reversal by whoever holds the claim: it takes back from that row
\* only, and what was taken back stays so.
LEMMA ReversalImplements ==
  ASSUME RInv, NEW w \in Worker, pc[w] = "reverse",
         \/ UNCHANGED ags
         \/ \E c \in left[w] : TakeBack(target[w], c) /\ UNCHANGED revoked
         \/ revoked' = revoked \cup {target[w]} /\ UNCHANGED debits,
         UNCHANGED <<docs, rstate>>
  PROVE  Implements
<1> USE DEF RInv
<1>1. PICK t \in Tx : t = target[w]
  BY DEF Targets
<1>2. docs[t].refund = "REFUNDING" /\ rstate[t] # "NONE"
  BY <1>1 DEF RefundMutex, AskedFirst, Holds
<1>3. SameAsked /\ SameRows
  BY SameOutside DEF SameRows, SameStatus, SameRefund
<1>4. CASE UNCHANGED ags
  BY <1>3, <1>4, SameOutside, UnseenStep
<1>5. CASE \E c \in left[w] : TakeBack(target[w], c) /\ UNCHANGED revoked
  <2>1. PICK c \in Credits : TakeBack(t, c) /\ UNCHANGED revoked
    BY <1>1, <1>5 DEF TypeOK
  <2>2. /\ \A u \in Tx : \A d \in Credits : debits[u][d] > 0 => debits'[u][d] > 0
        /\ \A u \in Tx \ {t} : debits'[u] = debits[u]
    BY <2>1, TakeBackGrows
  <2>3. /\ \A u \in Tx \ {t} : Reversed(u)' <=> Reversed(u)
        /\ Reversed(t) => Reversed(t)'
    BY <2>1, <2>2 DEF Reversed
  <2> QED
    BY <1>2, <1>3, <2>3, BackStep
<1>6. CASE revoked' = revoked \cup {target[w]} /\ UNCHANGED debits
  <2>1. /\ \A u \in Tx \ {t} : Reversed(u)' <=> Reversed(u)
        /\ Reversed(t) => Reversed(t)'
    BY <1>1, <1>6 DEF Reversed
  <2> QED
    BY <1>2, <1>3, <2>1, BackStep
<1> QED
  BY <1>4, <1>5, <1>6

-----------------------------------------------------------------------------
\* Every action

LEMMA RefundContractNext == RInv /\ [Next]_vars => Implements
<1> SUFFICES ASSUME RInv, [Next]_vars PROVE Implements
  OBVIOUS
<1>a. StoreTypeOK /\ rstate \in [Tx -> RefundState]
  BY DEF RInv, TypeOK
<1>b. \A w \in Worker : pc[w] # "idle" => target[w] \in Tx
  BY DEF RInv, Targets
<1>c. \A w \in Worker : fresh[w] \in BOOLEAN
  BY DEF RInv, TypeOK
<1>d. \A w \in Worker :
        pc[w] \in {"commitRefund", "markRefundFailed"} =>
           /\ target[w] \in Tx
           /\ docs[target[w]].refund = "REFUNDING"
           /\ pc[w] = "commitRefund" => Reversed(target[w])
  BY <1>b DEF RInv, RefundMutex, ReversalSteps, Holds, Reversed
<1>q. UNCHANGED docs => SameRows
  BY DEF SameRows, SameStatus, SameRefund
<1> USE SameOutside
<1>1. CASE UNCHANGED vars
  BY <1>1, <1>q, UnseenStep DEF vars, ags
<1>2. ASSUME NEW t \in Tx, DashboardRefund(t) PROVE Implements
  BY <1>2, <1>a, <1>q, AskStep DEF DashboardRefund
<1>3. ASSUME NEW t \in Tx, RefundSettles(t) PROVE Implements
  <2>1. SameAsked
    BY <1>3, <1>a DEF RefundSettles, SameAsked
  <2> QED
    BY <1>3, <1>q, <2>1, UnseenStep DEF RefundSettles
<1>4. ASSUME NEW t \in Tx, WebhookRefundFailed(t) PROVE Implements
  BY <1>4, <1>a, FailStep DEF WebhookRefundFailed
<1>5. ASSUME NEW a \in Admins, NEW t \in Tx, AdminReads(a, t) PROVE Implements
  BY <1>5, <1>q, UnseenStep DEF AdminReads
<1>6. ASSUME NEW w \in Worker, AdminClaims(w) PROVE Implements
  <2>1. CASE AtomicClaimRefunding(target[w], fresh[w])
    <3>1. target[w] \in Tx
      BY <1>6, <1>b DEF AdminClaims
    <3> QED
      BY <1>6, <1>a, <1>c, <2>1, <3>1, ClaimImplements DEF AdminClaims
  <2>2. CASE UNCHANGED docs
    BY <1>6, <1>q, <2>2, UnseenStep DEF AdminClaims
  <2> QED
    BY <1>6, <2>1, <2>2 DEF AdminClaims
<1>7. ASSUME NEW w \in Worker, RefundPayment(w) PROVE Implements
  <2>1. target[w] \in Tx /\ SameRows /\ SameBack
    BY <1>7, <1>b, <1>q DEF RefundPayment
  <2>2. CASE RefundStarts(target[w])
    BY <1>a, <2>1, <2>2, AskStep
  <2>3. CASE UNCHANGED rstate
    BY <2>1, <2>3, UnseenStep
  <2> QED
    BY <1>7, <2>2, <2>3 DEF RefundPayment
<1>8. ASSUME NEW w \in Worker, MarkSucceeded(w) PROVE Implements
  <2>1. PICK t \in Tx : t = target[w]
    BY <1>8, <1>b DEF MarkSucceeded
  <2>2. MarkRefundProviderSucceeded(t) /\ UNCHANGED <<rstate, ags>>
    BY <1>8, <2>1 DEF MarkSucceeded
  <2>3. docs'[t].refund = docs[t].refund /\ \A u \in Tx \ {t} : docs'[u] = docs[u]
    BY <1>a, <2>2, ProviderSucceededWrites
  <2>4. SameStatus(t)
    BY <1>a, <2>2, StatusKept
  <2>5. SameRows
    BY <2>3, <2>4 DEF SameRows, SameStatus, SameRefund
  <2> QED
    BY <2>2, <2>5, UnseenStep
<1>9. ASSUME NEW o \in Observers, NEW t \in Tx, Notice(o, t) PROVE Implements
  BY <1>9, <1>q, UnseenStep DEF Notice
<1>10. ASSUME NEW w \in Worker, ExternalClaims(w) PROVE Implements
  <2>1. CASE AtomicClaimExternalRefunding(target[w])
    <3>1. target[w] \in Tx
      BY <1>10, <1>b DEF ExternalClaims
    <3> QED
      BY <1>10, <1>a, <2>1, <3>1, ClaimImplements DEF ExternalClaims
  <2>2. CASE UNCHANGED docs
    BY <1>10, <1>q, <2>2, UnseenStep DEF ExternalClaims
  <2> QED
    BY <1>10, <2>1, <2>2 DEF ExternalClaims
<1>11. ASSUME NEW w \in Worker, Debit(w) PROVE Implements
  BY <1>11, ReversalImplements DEF Debit
<1>12. ASSUME NEW w \in Worker, Revoke(w) PROVE Implements
  BY <1>12, ReversalImplements DEF Revoke
<1>13. ASSUME NEW w \in Worker, ReverseFails(w) PROVE Implements
  BY <1>13, ReversalImplements DEF ReverseFails
<1>14. ASSUME NEW w \in Worker, Commit(w) PROVE Implements
  BY <1>14, <1>a, <1>d, EndImplements DEF Commit
<1>15. ASSUME NEW w \in Worker, Fail(w) PROVE Implements
  BY <1>15, <1>a, <1>d, EndImplements DEF Fail
<1>16. ASSUME NEW w \in Worker, Crash(w) PROVE Implements
  BY <1>16, <1>q, UnseenStep DEF Crash
<1>17. ASSUME Starts PROVE Implements
  BY <1>5, <1>9, <1>17 DEF Starts, WebhookRefunded, SyncRefunded, Observers
<1>18. ASSUME NEW w \in Worker, Step(w) PROVE Implements
  BY <1>6, <1>7, <1>8, <1>10, <1>11, <1>12, <1>13, <1>14, <1>15, <1>18 DEF Step
<1> QED
  BY <1>1, <1>2, <1>3, <1>4, <1>16, <1>17, <1>18 DEF Next, Provider

\* Fulfilled rows that nobody refunded are an initial state of the contract.
LEMMA RefundContractInit == Init => Contract!Init
<1> SUFFICES ASSUME Init PROVE Contract!Init
  OBVIOUS
<1>1. \A u \in Tx : docs[u].status = "FULFILLED" /\ docs[u].refund = "NONE"
  <2>1. \A s \in Session : FulfilledRow(s).status = "FULFILLED"
                           /\ FulfilledRow(s).refund = "NONE"
    BY DEF FulfilledRow, NoRow
  <2> QED
    BY <2>1 DEF Init
<1>2. {u \in Tx : rstate[u] # "NONE"} = {}
  BY DEF Init
<1>3. {u \in Tx : Reversed(u)} = {}
  BY DEF Init, Reversed
<1> QED
  BY <1>1, <1>2, <1>3 DEF Contract!Init

\* Whoever refunds, and however often it is retried, crashes or is reported
\* again, a row changes only as the contract allows.
THEOREM RefundKeepsContract == Spec => KeepsContract
<1>1. RInv /\ [Next]_vars => [Contract!Next]_(Contract!vars)
  BY RefundContractNext DEF Implements
<1> QED
  BY <1>1, RefundContractInit, RefundInvariant, PTL
     DEF Spec, KeepsContract, Contract!Spec

=============================================================================
