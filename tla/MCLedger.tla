------------------------------ MODULE MCLedger ------------------------------
(***************************************************************************)
(* Instances of Ledger for TLC.                                             *)
(***************************************************************************)
EXTENDS Ledger, TLC

CONSTANTS a, b, x, y, z, INR

MCAccounts == {a, b}
MCReferences == {x, y, z}

Debit(account, amount) ==
    [accountId |-> account, amountPaise |-> amount, direction |-> "DEBIT"]
Credit(account, amount) ==
    [accountId |-> account, amountPaise |-> amount, direction |-> "CREDIT"]

Body(ref, lines) == [referenceId |-> ref, purpose |-> "USER_TRANSFER",
                     currency |-> INR, entries |-> lines]

\* Both directions between the accounts, so that requests debit what others
\* credit; a second body under reference x; a debit line repeated, so that
\* each line is covered alone and the two are not; an unbalanced body.
MCDtos ==
    { Body(x, <<Debit(a, 2), Credit(b, 2)>>),
      Body(x, <<Debit(b, 1), Credit(a, 1)>>),
      Body(y, <<Debit(a, 1), Credit(b, 1)>>),
      Body(z, <<Debit(a, 2), Debit(a, 2), Credit(b, 4)>>),
      Body(z, <<Debit(a, 1), Credit(b, 2)>>) }

MCOpening == (a :> 2 @@ b :> 1)
=============================================================================
