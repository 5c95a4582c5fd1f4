------------------------- MODULE PaymentInvariants -------------------------
(***************************************************************************)
(* The inductive invariant of PaymentLifecycle: what has to hold besides   *)
(* the properties themselves for every step of every process to preserve   *)
(* them.                                                                   *)
(***************************************************************************)
EXTENDS PaymentLifecycle

\* A process that is not idle works on a transaction, and so does a session.
Targets ==
    /\ \A p \in Proc : pc[p] # "idle" => target[p] \in Tx
    /\ \A s \in Session : sstate[s] # "UNUSED" => stx[s] \in Tx

\* Which process can be where: only the stuck-row job recovers rows it did not
\* claim, and only a request resets a row.
Roles ==
    /\ \A p \in Proc : pc[p] = "recover" => p \in Stuckers
    /\ \A p \in Proc : pc[p] = "resetToPending" => p \in Requests
    /\ \A k \in Stuckers :
          pc[k] \in {"idle", "recover", "commit", "incrementRetries", "markFailed"}
    /\ \A j \in Jobs : \A item \in todo[j] : item.step = "recover" <=> j \in Stuckers

\* Rows nobody can be working on.
Unclaimable == {"ABSENT", "PENDING", "CANCELED", "EXPIRED"}

OneHolder == \A t \in Tx : \A p, q \in Proc : Holds(p, t) /\ Holds(q, t) => p = q

NoHolder == \A t \in Tx : docs[t].status \in Unclaimable => \A p \in Proc : ~Holds(p, t)

\* s, unless absent, is a session that was opened for t.
OpenedFor(s, t) == s # None => s \in Session /\ stx[s] = t /\ sstate[s] # "UNUSED"

\* Every copy of a provider id is one of a session of that very transaction:
\* in the store, in what a process read or a provider answered, and in what a
\* job listed.
RowSessions == \A t \in Tx : OpenedFor(docs[t].providerTxID, t)

ProcSessions ==
    \A p \in Proc : /\ OpenedFor(snap[p].providerTxID, target[p])
                    /\ OpenedFor(intent[p], target[p])
                    /\ pc[p] # "attach" => intent[p] = None

ListedSessions ==
    \A j \in Jobs : \A item \in todo[j] : OpenedFor(item.doc.providerTxID, item.tx)

OwnSessions == RowSessions /\ ProcSessions /\ ListedSessions

\* A sync only runs for a document with a provider id.
SyncsAttached ==
    \A p \in Proc : pc[p] \in {"sync", "cancelProvider"} => snap[p].providerTxID # None

\* Steps that are only reached once a session of the target was paid.
PaidSteps == {"claim", "idThenClaim", "fulfill", "recover", "resetToPending"}

OnlyPaid ==
    /\ NoUnpaidGrant
    /\ \A p \in Proc : pc[p] \in PaidSteps => Paid(target[p])
    /\ \A j \in Jobs : \A item \in todo[j] : item.step = "recover" => Paid(item.tx)

GrantBeforeCommit ==
    /\ FulfilledIsGranted
    /\ \A p \in Proc : pc[p] = "commit" => target[p] \in granted

IInv == /\ TypeOK
        /\ Targets
        /\ Roles
        /\ OneHolder
        /\ NoHolder
        /\ OwnSessions
        /\ SyncsAttached
        /\ OnlyPaid
        /\ GrantBeforeCommit

\* With one loop of the stuck-row job, the retries in a copy it has listed are
\* still those of the row, because nobody else counts them and a listing holds
\* a row once.
FreshRetries ==
    /\ \A p \in Proc : pc[p] = "incrementRetries" => p \in Stuckers
    /\ \A k \in Stuckers : \A item \in todo[k] :
          /\ item.doc.retries = docs[item.tx].retries
          /\ \A other \in todo[k] : other.tx = item.tx => other = item
          /\ pc[k] \in {"recover", "incrementRetries"} => target[k] # item.tx
    /\ \A k \in Stuckers :
          /\ pc[k] = "recover" => snap[k].retries = docs[target[k]].retries
          /\ pc[k] = "incrementRetries" => docs[target[k]].retries < MaxRetries
    /\ RetryLimit

=============================================================================
