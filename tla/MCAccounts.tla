------------------------------ MODULE MCAccounts ------------------------------
(***************************************************************************)
(* Instances of Accounts for TLC.                                           *)
(***************************************************************************)
EXTENDS Accounts, TLC

CONSTANTS checking, savings, fresh1, fresh2, e1, c1, c2

Ask(op, role, account) ==
    [op |-> op, role |-> role, account |-> account, to |-> account]

Transfer(from, to) ==
    [op |-> "transfer", role |-> "CUSTOMER", account |-> from, to |-> to]

\* every operation on one account, an opening, and a transfer into it of the
\* only money
RaceInputs ==
    { Ask("freeze", "SUPPORT", checking),
      Ask("unfreeze", "OPERATIONS", checking),
      Ask("close", "CUSTOMER", checking),
      Ask("create", "CUSTOMER", fresh1),
      Transfer(savings, checking) }

\* the two calls are interchangeable: each pair of inputs is tried once
Rank == [input \in RaceInputs |->
    CASE input.op = "freeze" -> 1
      [] input.op = "unfreeze" -> 2
      [] input.op = "close" -> 3
      [] input.op = "create" -> 4
      [] input.op = "transfer" -> 5]

MCInit == Init /\ Rank[request[c1]] <= Rank[request[c2]]

MCSpec == MCInit /\ [][Next]_vars /\ WF_vars(Sync)

MCFunds == [account \in Accounts |-> IF account = savings THEN 1 ELSE 0]

MCRejected == (e1 :> "REJECTED")

=============================================================================
