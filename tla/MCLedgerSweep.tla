---------------------------- MODULE MCLedgerSweep ----------------------------
(***************************************************************************)
(* Instances of LedgerSweep for TLC.                                        *)
(***************************************************************************)
EXTENDS LedgerSweep, TLC

CONSTANTS a, b, x, y, INR, e1, e2, r1, r2, q

MCAccounts == {a, b}
MCReferences == {x, y}

Transfer(ref, from, to, amount) ==
    [referenceId |-> ref, purpose |-> "USER_TRANSFER", currency |-> INR,
     entries |-> << [accountId |-> from, amountPaise |-> amount,
                     direction |-> "DEBIT"],
                    [accountId |-> to, amountPaise |-> amount,
                     direction |-> "CREDIT"] >>]

\* the lines of the two name the accounts in opposite orders
MCDtos == {Transfer(x, a, b, 1), Transfer(y, b, a, 2)}

\* a was seeded with a snapshot, b never was
MCOpening == (a :> 3 @@ b :> 0)

MCEvents == {e1, e2}

\* two events for two days, or two for one
TwoDays == (e1 :> 1 @@ e2 :> 2)
OneDay == (e1 :> 1 @@ e2 :> 1)

\* e1 is published twice
TwiceAndOnce == (e1 :> 2 @@ e2 :> 1)

OnceEach == (e1 :> 1 @@ e2 :> 1)

RequestSymmetry == Permutations(Requests)
=============================================================================
