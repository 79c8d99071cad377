----------------------------- MODULE LedgerBook -----------------------------
(***************************************************************************)
(* What ledger-service promises its callers: a book in which request bodies *)
(* are recorded whole and one at a time, each under a fresh referenceId and *)
(* only when the balances of that moment cover every debit, and which       *)
(* announces a recorded reference at most once.                             *)
(***************************************************************************)
EXTENDS LedgerEntries

VARIABLES
    balance,   \* balance[a] of the recorded bodies
    recorded,  \* references recorded
    announced  \* references announced by ledger.transaction_posted

Init ==
    /\ balance = Opening
    /\ recorded = {}
    /\ announced = {}

Post(d) ==
    /\ Valid(d)
    /\ d.referenceId \notin recorded
    /\ \A i \in Lines(d, "DEBIT") :
          d.entries[i].amountPaise <= balance[d.entries[i].accountId]
    /\ balance' = [a \in Accounts |-> balance[a] + NetChange(d, a)]
    /\ recorded' = recorded \union {d.referenceId}
    /\ UNCHANGED announced

Announce(ref) ==
    /\ ref \in recorded \ announced
    /\ announced' = announced \union {ref}
    /\ UNCHANGED <<balance, recorded>>

Next == \/ \E d \in Dtos : Post(d)
        \/ \E ref \in References : Announce(ref)

Spec == Init /\ [][Next]_<<balance, recorded, announced>>
=============================================================================
