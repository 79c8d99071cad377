---------------------------- MODULE LedgerEntries ----------------------------
(***************************************************************************)
(* The body of POST /v1/internal/ledger/entry: what its entry lines debit   *)
(* and credit, when CreateLedgerTransactionSchema and recordTransaction     *)
(* accept it, and what the unique index on ledger_entries refuses.  Shared  *)
(* by the specifications of ledger-service.                                 *)
(***************************************************************************)
EXTENDS Integers, Sequences, FiniteSets, Functions

CONSTANTS
    Accounts,
    References, \* reference_id values
    Currencies,
    Dtos,       \* the request bodies (CreateLedgerTransactionDto) that arrive
    Opening     \* Opening[a]: the balance a seeded balance_snapshots row holds

Direction == {"DEBIT", "CREDIT"}
Purpose == {"USER_TRANSFER", "DEPOSIT", "FEE", "REVERSAL"}

Entry == [accountId : Accounts, amountPaise : Int, direction : Direction]

Dto == [referenceId : References, purpose : Purpose, currency : Currencies,
        entries : Seq(Entry)]

ASSUME DtosAssumption == \A d \in Dtos : d \in Dto
ASSUME OpeningAssumption == Opening \in [Accounts -> Nat]
ASSUME AccountsAssumption == IsFiniteSet(Accounts)

Lines(d, direction) ==
    {i \in DOMAIN d.entries : d.entries[i].direction = direction}

DebitedAccounts(d) == {d.entries[i].accountId : i \in Lines(d, "DEBIT")}
TouchedAccounts(d) == {d.entries[i].accountId : i \in DOMAIN d.entries}

AmountsOf(d, direction) ==
    [i \in DOMAIN d.entries |->
        IF d.entries[i].direction = direction THEN d.entries[i].amountPaise ELSE 0]

Total(d, direction) == SumFunction(AmountsOf(d, direction))

\* Mutant: the equation guard is missing
ValidWithoutEquation(d) ==
    /\ Len(d.entries) >= 2
    /\ \A i \in DOMAIN d.entries : d.entries[i].amountPaise > 0

\* CreateLedgerTransactionSchema, then the loop and the equation guard
Valid(d) ==
    /\ Len(d.entries) >= 2
    /\ \A i \in DOMAIN d.entries : d.entries[i].amountPaise > 0
    /\ Total(d, "DEBIT") = Total(d, "CREDIT")

Signed(e) == IF e.direction = "CREDIT" THEN e.amountPaise ELSE -e.amountPaise

\* what the lines of d, and all of them together, add to account a
ChangesOf(d, a) ==
    [i \in DOMAIN d.entries |->
        IF d.entries[i].accountId = a THEN Signed(d.entries[i]) ELSE 0]

NetChange(d, a) == SumFunction(ChangesOf(d, a))

\* unique(transaction_id, account_id, direction) on ledger_entries
ViolatesEntryIndex(d, k) ==
    \E i \in 1 .. k - 1 : /\ d.entries[i].accountId = d.entries[k].accountId
                          /\ d.entries[i].direction = d.entries[k].direction
=============================================================================
