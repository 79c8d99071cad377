---------------------------- MODULE LedgerProofs ----------------------------
(***************************************************************************)
(* Theorems about Ledger: for every set of requests, bodies and accounts    *)
(* and every seeded balance, the state is well typed, no account is ever    *)
(* overdrawn, no referenceId is recorded twice, what is published is true,  *)
(* the books balance, and the whole implements LedgerBook.                  *)
(***************************************************************************)
EXTENDS Ledger, FiniteSums, SequenceTheorems, TLAPS

-----------------------------------------------------------------------------
(* Lemmas about the request body. *)

\* The lines of a body are a finite sequence.
LEMMA EntriesIsSeq ==
    ASSUME NEW d \in Dtos
    PROVE  /\ d.entries \in Seq(Entry)
           /\ Len(d.entries) \in Nat
           /\ DOMAIN d.entries = 1 .. Len(d.entries)
<1>1. d \in Dto
    BY DtosAssumption
<1>2. d.entries \in Seq(Entry)
    BY <1>1 DEF Dto
<1>. QED
    BY <1>2, LenProperties

\* every line of a body is an entry
LEMMA LinesAreEntries ==
    ASSUME NEW d \in Dtos, NEW i \in DOMAIN d.entries
    PROVE  /\ d.entries[i].accountId \in Accounts
           /\ d.entries[i].amountPaise \in Int
           /\ d.entries[i].direction \in {"DEBIT", "CREDIT"}
<1>1. d.entries[i] \in Entry
    BY EntriesIsSeq, ElementOfSeq
<1>. QED
    BY <1>1 DEF Entry, Direction

\* A line changes a balance by an integer.
LEMMA SignedIsInt ==
    ASSUME NEW d \in Dtos, NEW i \in DOMAIN d.entries
    PROVE  Signed(d.entries[i]) \in Int
BY LinesAreEntries DEF Signed

\* The amounts of a body and what its lines change are integers.
LEMMA BodyFunctions ==
    ASSUME NEW d \in Dtos, NEW a \in Accounts, NEW direction \in Direction
    PROVE  /\ IsFiniteSet(DOMAIN d.entries)
           /\ DOMAIN AmountsOf(d, direction) = DOMAIN d.entries
           /\ DOMAIN ChangesOf(d, a) = DOMAIN d.entries
           /\ \A i \in DOMAIN d.entries : /\ AmountsOf(d, direction)[i] \in Int
                                          /\ ChangesOf(d, a)[i] \in Int
BY EntriesIsSeq, LinesAreEntries, SignedIsInt, FS_Interval
   DEF AmountsOf, ChangesOf

\* what the lines S of body d do to account a
Part(d, S) == [a \in Accounts |-> SumFunctionOnSet(ChangesOf(d, a), S)]

\* What lines S do to all accounts together is what they credit less what
\* they debit.
LEMMA ChangesAddUp ==
    ASSUME NEW d \in Dtos, NEW S \in SUBSET DOMAIN d.entries
    PROVE  SumFunctionOnSet(Part(d, S), Accounts)
             = SumFunctionOnSet(AmountsOf(d, "CREDIT"), S)
               - SumFunctionOnSet(AmountsOf(d, "DEBIT"), S)
<1> DEFINE credits == AmountsOf(d, "CREDIT")
           debits == AmountsOf(d, "DEBIT")
           Wrong(s) == SumFunctionOnSet(Part(d, s), Accounts)
                       # SumFunctionOnSet(credits, s) - SumFunctionOnSet(debits, s)
           F == {s \in SUBSET S : Wrong(s)}
<1> SUFFICES ASSUME Wrong(S) PROVE FALSE
    OBVIOUS
<1>1. IsFiniteSet(Accounts)
    BY AccountsAssumption
<1>2. IsFiniteSet(S)
    BY EntriesIsSeq, FS_Interval, FS_Subset
<1>3. F \in SUBSET SUBSET S /\ F # {}
    OBVIOUS
<1> HIDE DEF F
<1>4. PICK s \in F : \A t \in F : t \subseteq s => t = s
    BY <1>2, <1>3, SmallestSet
<1> USE DEF F
<1>5. s \in SUBSET S /\ IsFiniteSet(s) /\ Wrong(s)
    BY <1>2, <1>4, FS_Subset
<1>6. s # {}
    <2>1. ASSUME s = {} PROVE FALSE
        <3>1. \A a \in Accounts : Part(d, s)[a] = 0
            BY <2>1, SumEmpty DEF Part
        <3>2. SumFunctionOnSet(Part(d, s), Accounts) = 0
            BY <1>1, <3>1, SumZero
        <3>3. SumFunctionOnSet(credits, s) = 0 /\ SumFunctionOnSet(debits, s) = 0
            BY <2>1, SumEmpty
        <3>. QED
            BY <1>5, <3>2, <3>3
    <2>. QED
        BY <2>1
<1>7. PICK x \in s : TRUE
    BY <1>6
<1> DEFINE t == s \ {x}
           e == d.entries[x]
           step == [a \in Accounts |-> ChangesOf(d, a)[x]]
<1>8. ~Wrong(t)
    BY <1>4, <1>5, <1>7
<1>9. x \in DOMAIN d.entries /\ e.accountId \in Accounts /\ Signed(e) \in Int
    BY <1>5, LinesAreEntries, SignedIsInt
<1>10. /\ \A i \in s : credits[i] \in Int /\ debits[i] \in Int
       /\ \A a \in Accounts : \A i \in s : ChangesOf(d, a)[i] \in Int
    BY <1>5, BodyFunctions, LinesAreEntries, SignedIsInt DEF ChangesOf, AmountsOf
<1>11. IsFiniteSet(t) /\ t \subseteq s
    BY <1>5, FS_Subset
<1>12. /\ SumFunctionOnSet(credits, s) = credits[x] + SumFunctionOnSet(credits, t)
       /\ SumFunctionOnSet(debits, s) = debits[x] + SumFunctionOnSet(debits, t)
    BY <1>5, <1>10, SumWithout
<1>13. /\ credits[x] \in Int /\ debits[x] \in Int
       /\ SumFunctionOnSet(credits, t) \in Int /\ SumFunctionOnSet(debits, t) \in Int
    BY <1>10, <1>11, SumInt
<1>14. Signed(e) = credits[x] - debits[x]
    BY <1>9, LinesAreEntries DEF Signed, AmountsOf
<1>15. SumFunctionOnSet(step, Accounts) = Signed(e)
    <2>1. step[e.accountId] = Signed(e) /\ \A a \in Accounts \ {e.accountId} : step[a] = 0
        BY <1>9 DEF ChangesOf
    <2> HIDE DEF step, e
    <2>. QED
        BY <1>1, <1>9, <2>1, SumOne
<1>16. \A a \in Accounts : /\ step[a] \in Int /\ Part(d, t)[a] \in Int
                           /\ Part(d, s)[a] = step[a] + Part(d, t)[a]
    <2> SUFFICES ASSUME NEW a \in Accounts
        PROVE  /\ ChangesOf(d, a)[x] \in Int
               /\ SumFunctionOnSet(ChangesOf(d, a), t) \in Int
               /\ SumFunctionOnSet(ChangesOf(d, a), s)
                    = ChangesOf(d, a)[x] + SumFunctionOnSet(ChangesOf(d, a), t)
        BY DEF Part
    <2>1. \A i \in s : ChangesOf(d, a)[i] \in Int
        BY <1>10
    <2>. QED
        BY <1>5, <1>11, <2>1, SumInt, SumWithout
<1>17. SumFunctionOnSet(Part(d, s), Accounts)
         = SumFunctionOnSet(step, Accounts) + SumFunctionOnSet(Part(d, t), Accounts)
    <2> HIDE DEF step, t
    <2>. QED
        BY <1>1, <1>16, SumPlus
<1>18. SumFunctionOnSet(Part(d, t), Accounts) \in Int
    BY <1>1, <1>16, SumInt
<1>. QED
    BY <1>5, <1>8, <1>12, <1>13, <1>14, <1>15, <1>17, <1>18

\* A body that recordTransaction accepts moves money and makes none: what it
\* does to all the accounts together is nothing.
LEMMA ValidBodyMovesMoney ==
    ASSUME NEW d \in Dtos, Valid(d)
    PROVE  /\ [a \in Accounts |-> NetChange(d, a)] \in [Accounts -> Int]
           /\ SumFunctionOnSet([a \in Accounts |-> NetChange(d, a)], Accounts) = 0
<1> DEFINE S == DOMAIN d.entries
<1>1. \A a \in Accounts : NetChange(d, a) = SumFunctionOnSet(ChangesOf(d, a), S)
    BY DEF NetChange, SumFunction, ChangesOf
<1>2. [a \in Accounts |-> NetChange(d, a)] = Part(d, S)
    BY <1>1 DEF Part
<1>3. \A a \in Accounts : Part(d, S)[a] \in Int
    <2> SUFFICES ASSUME NEW a \in Accounts
        PROVE  SumFunctionOnSet(ChangesOf(d, a), S) \in Int
        BY DEF Part
    <2>1. IsFiniteSet(S) /\ \A i \in S : ChangesOf(d, a)[i] \in Int
        BY BodyFunctions DEF Direction
    <2>. QED
        BY <2>1, SumInt
<1>4. \A direction \in Direction :
        /\ Total(d, direction) = SumFunctionOnSet(AmountsOf(d, direction), S)
        /\ Total(d, direction) \in Int
    <2> SUFFICES ASSUME NEW direction \in Direction
        PROVE  /\ Total(d, direction) = SumFunctionOnSet(AmountsOf(d, direction), S)
               /\ Total(d, direction) \in Int
        OBVIOUS
    <2>1. Total(d, direction) = SumFunctionOnSet(AmountsOf(d, direction), S)
        BY DEF Total, SumFunction, AmountsOf
    <2>2. IsFiniteSet(S) /\ \A i \in S : AmountsOf(d, direction)[i] \in Int
        BY EntriesIsSeq, LinesAreEntries, FS_Interval DEF AmountsOf
    <2>. QED
        BY <2>1, <2>2, SumInt
<1>5. SumFunctionOnSet(Part(d, S), Accounts) = Total(d, "CREDIT") - Total(d, "DEBIT")
    BY <1>4, ChangesAddUp DEF Direction
<1>. QED
    BY <1>2, <1>3, <1>4, <1>5 DEF Valid, Direction, Part

-----------------------------------------------------------------------------
(* Type correctness. *)

\* Rolling back keeps the types.
LEMMA RollbackKeepsType ==
    ASSUME TypeOK, NEW r \in Requests, NEW answer \in Answered,
           Rollback(r, answer), breached' \in SUBSET Requests
    PROVE  TypeOK'
BY DEF TypeOK, Rollback, Finish, NoBalances, Phase

\* Inserting a row keeps the types, whether the index refuses it or not.
LEMMA CreateEntryKeepsType ==
    ASSUME TypeOK, NEW r \in Requests, CreateEntry(r)
    PROVE  TypeOK'
<1> DEFINE k == inserted[r] + 1
           e == dto[r].entries[k]
<1>1. dto[r] \in Dtos
    BY DEF TypeOK
<1>2. k \in Nat /\ k \in DOMAIN dto[r].entries
    BY <1>1, EntriesIsSeq DEF TypeOK, CreateEntry
<1>3. CASE ViolatesEntryIndex(dto[r], k)
    <2>1. Rollback(r, "failed") /\ UNCHANGED breached
        BY <1>3 DEF CreateEntry
    <2>. QED
        BY <2>1, RollbackKeepsType DEF TypeOK, Answered
<1>4. CASE ~ViolatesEntryIndex(dto[r], k)
    <2>1. /\ inserted' = [inserted EXCEPT ![r] = k]
          /\ delta' = [delta EXCEPT ![r][e.accountId] = @ + Signed(e)]
          /\ UNCHANGED <<pc, dto, sees, readBalance, posted, balance,
                         announced, breached>>
        BY <1>4 DEF CreateEntry
    <2>2. Signed(e) \in Int /\ e.accountId \in Accounts
        BY <1>1, <1>2, SignedIsInt, LinesAreEntries
    <2>3. delta \in [Requests -> [Accounts -> Int]]
        BY DEF TypeOK
    <2> HIDE DEF e, k
    <2>5. delta' \in [Requests -> [Accounts -> Int]]
        BY <2>1, <2>2, <2>3
    <2>. QED
        BY <2>1, <2>5, <1>2 DEF TypeOK
<1>. QED
    BY <1>3, <1>4

\* Every step keeps the types.
LEMMA TypeInductive ==
    ASSUME TypeOK, [Next]_vars
    PROVE  TypeOK'
<1>1. CASE UNCHANGED vars
    BY <1>1 DEF TypeOK, vars
<1>2. ASSUME NEW r \in Requests, Receive(r)
      PROVE  TypeOK'
    BY <1>2 DEF TypeOK, Receive, Phase, Answered
<1>3. ASSUME NEW r \in Requests, LookupReference(r)
      PROVE  TypeOK'
    <2>1. CASE ReferenceTaken(r, posted)
        BY <1>3, <2>1, RollbackKeepsType DEF LookupReference, TypeOK, Answered
    <2>2. CASE ~ReferenceTaken(r, posted)
        BY <1>3, <2>2 DEF LookupReference, TypeOK, Phase, InTransaction
    <2>. QED
        BY <2>1, <2>2
<1>4. ASSUME NEW r \in Requests, RefuseDebit(r)
      PROVE  TypeOK'
    BY <1>4, RollbackKeepsType DEF RefuseDebit, TypeOK, Answered
<1>5. ASSUME NEW r \in Requests, CreateTransaction(r)
      PROVE  TypeOK'
    <2>1. CASE ReferenceTaken(r, posted)
        BY <1>5, <2>1, RollbackKeepsType DEF CreateTransaction, TypeOK, Answered
    <2>2. CASE ~ReferenceTaken(r, posted)
        BY <1>5, <2>2 DEF CreateTransaction, TypeOK, Phase, InTransaction
    <2>. QED
        BY <2>1, <2>2
<1>6. ASSUME NEW r \in Requests, CreateEntry(r)
      PROVE  TypeOK'
    BY <1>6, CreateEntryKeepsType
<1>7. ASSUME NEW r \in Requests, Commit(r)
      PROVE  TypeOK'
    <2>1. balance' \in [Accounts -> Int]
        BY <1>7 DEF Commit, TypeOK
    <2>. QED
        BY <1>7, <2>1 DEF Commit, Finish, NoBalances, TypeOK, Phase
<1>8. ASSUME NEW r \in Requests, SerializationFailure(r)
      PROVE  TypeOK'
    BY <1>8, RollbackKeepsType DEF SerializationFailure, TypeOK, Answered
<1>9. ASSUME NEW r \in Requests, Abort(r)
      PROVE  TypeOK'
    BY <1>9, RollbackKeepsType DEF Abort, TypeOK, Answered
<1>10. ASSUME NEW r \in Requests, PublishPosted(r)
       PROVE  TypeOK'
    BY <1>10 DEF PublishPosted, TypeOK, Phase, Answered
<1>11. ASSUME NEW r \in Requests, LosePublish(r)
       PROVE  TypeOK'
    BY <1>11 DEF LosePublish, TypeOK, Phase, Answered
<1>. QED
    BY <1>1, <1>2, <1>3, <1>4, <1>5, <1>6, <1>7, <1>8, <1>9, <1>10, <1>11
    DEF Next, Progress

\* The state stays well typed whatever the requests are.
THEOREM TypeCorrect == Spec => []TypeOK
<1>1. Init => TypeOK
    BY OpeningAssumption DEF Init, TypeOK, NoBalances, Phase
<1>2. TypeOK /\ [Next]_vars => TypeOK'
    BY TypeInductive
<1>. QED
    BY <1>1, <1>2, PTL DEF Spec

-----------------------------------------------------------------------------
(* The safety invariant. *)

\* With nothing posted and the seeded balances, the invariant holds.
LEMMA SafetyInvInit ==
    ASSUME Init
    PROVE  SafetyInv
<1>1. TypeOK
    BY OpeningAssumption DEF Init, TypeOK, NoBalances, Phase
<1>2. NoOverdraft
    BY OpeningAssumption DEF Init, NoOverdraft
<1>. QED
    BY <1>1, <1>2
    DEF Init, SafetyInv, BodiesValid, PostedIsPast, NothingPending, ReadsCoverDebits,
        OneDebitPerAccount, StaleOnlyByDebit, ReferenceReserved,
        ReferenceRecordedOnce, InTransaction

\* Rolling back leaves the committed state alone and r with nothing open.
LEMMA RollbackIsSafe ==
    ASSUME SafetyInv, NEW r \in Requests, NEW answer \in Answered,
           pc[r] \in {"begin"} \union InTransaction,
           answer \notin {"recorded", "unannounced", "invalid"},
           Rollback(r, answer), breached' \in SUBSET Requests
    PROVE  SafetyInv'
<1> USE DEF SafetyInv, Rollback, Finish, InTransaction
<1>1. TypeOK /\ TypeOK'
    BY RollbackKeepsType
<1>2. /\ pc' = [pc EXCEPT ![r] = answer]
      /\ sees' = [sees EXCEPT ![r] = {}]
      /\ UNCHANGED <<dto, posted, balance>>
      /\ answer \notin {"checking", "recording"}
    BY DEF Answered
<1>3. \A s \in Requests \ {r} :
        /\ pc'[s] = pc[s] /\ sees'[s] = sees[s] /\ delta'[s] = delta[s]
        /\ readBalance'[s] = readBalance[s] /\ inserted'[s] = inserted[s]
    BY <1>1 DEF TypeOK
<1>4. pc'[r] = answer /\ sees'[r] = {}
    BY <1>1, <1>2 DEF TypeOK
<1>5. BodiesValid'
    BY <1>2, <1>3, <1>4 DEF BodiesValid, Answered
<1>6. PostedIsPast'
    BY <1>2, <1>3, <1>4 DEF PostedIsPast
<1>7. ReadsCoverDebits' /\ NothingPending'
    <2>1. inserted'[r] = 0 /\ delta'[r] = NoBalances
        BY DEF TypeOK
    <2>. QED
        BY <1>2, <1>3, <1>4, <2>1 DEF ReadsCoverDebits, Covered, NothingPending
<1>8. OneDebitPerAccount'
    BY <1>2, <1>3, <1>4 DEF OneDebitPerAccount
<1>9. StaleOnlyByDebit'
    BY <1>2, <1>3, <1>4 DEF StaleOnlyByDebit
<1>10. ReferenceReserved'
    BY <1>2, <1>3, <1>4 DEF ReferenceReserved
<1>11. NoOverdraft' /\ ReferenceRecordedOnce'
    BY <1>2 DEF NoOverdraft, ReferenceRecordedOnce
<1>. QED
    BY <1>1, <1>5, <1>6, <1>7, <1>8, <1>9, <1>10, <1>11

\* Steps that open no transaction and change no committed state but pc.
LEMMA QuietStepIsSafe ==
    ASSUME SafetyInv, TypeOK', NEW r \in Requests, NEW next \in Phase,
           pc' = [pc EXCEPT ![r] = next],
           pc[r] \notin InTransaction, next \notin InTransaction,
           next \notin {"idle", "invalid"} => Valid(dto[r]),
           r \in posted => next \in {"publishing", "recorded", "unannounced"},
           UNCHANGED <<dto, sees, readBalance, inserted, delta, posted, balance>>
    PROVE  SafetyInv'
<1> USE DEF SafetyInv
<1>1. /\ pc'[r] = next
      /\ \A s \in Requests \ {r} : pc'[s] = pc[s]
    BY DEF TypeOK
<1>2. BodiesValid'
    BY <1>1 DEF BodiesValid
<1>3. PostedIsPast'
    BY <1>1 DEF PostedIsPast
<1>4. ReadsCoverDebits' /\ OneDebitPerAccount' /\ NothingPending'
    BY <1>1 DEF NothingPending, ReadsCoverDebits, OneDebitPerAccount, Covered, InTransaction
<1>5. StaleOnlyByDebit' /\ ReferenceReserved'
    BY <1>1 DEF StaleOnlyByDebit, ReferenceReserved, InTransaction
<1>6. NoOverdraft' /\ ReferenceRecordedOnce'
    BY DEF NoOverdraft, ReferenceRecordedOnce
<1>. QED
    BY <1>2, <1>3, <1>4, <1>5, <1>6

\* A fresh snapshot agrees with the committed balances.
LEMMA LookupReferenceIsSafe ==
    ASSUME SafetyInv, TypeOK', NEW r \in Requests, LookupReference(r)
    PROVE  SafetyInv'
<1> USE DEF SafetyInv
<1>1. CASE ReferenceTaken(r, posted)
    BY <1>1, RollbackIsSafe DEF LookupReference, TypeOK, Answered
<1>2. CASE ~ReferenceTaken(r, posted)
    <2>1. /\ pc[r] = "begin"
          /\ pc' = [pc EXCEPT ![r] = "checking"]
          /\ sees' = [sees EXCEPT ![r] = posted]
          /\ readBalance' = [readBalance EXCEPT ![r] = balance]
          /\ UNCHANGED <<dto, inserted, delta, posted, balance>>
        BY <1>2 DEF LookupReference
    <2>2. /\ pc'[r] = "checking" /\ sees'[r] = posted /\ readBalance'[r] = balance
          /\ \A s \in Requests \ {r} : /\ pc'[s] = pc[s] /\ sees'[s] = sees[s]
                                      /\ readBalance'[s] = readBalance[s]
        BY <2>1 DEF TypeOK
    <2>3. BodiesValid' /\ PostedIsPast'
        BY <2>1, <2>2 DEF BodiesValid, PostedIsPast
    <2>4. ReadsCoverDebits' /\ OneDebitPerAccount' /\ NothingPending'
        BY <2>1, <2>2 DEF NothingPending, ReadsCoverDebits, OneDebitPerAccount, Covered
    <2>5. StaleOnlyByDebit'
        <3>1. \A a \in Accounts : balance[a] >= readBalance'[r][a]
            BY <2>2 DEF TypeOK
        <3>. QED
            BY <2>1, <2>2, <3>1 DEF StaleOnlyByDebit, InTransaction
    <2>6. ReferenceReserved'
        BY <2>1, <2>2 DEF ReferenceReserved
    <2>7. NoOverdraft' /\ ReferenceRecordedOnce'
        BY <2>1 DEF NoOverdraft, ReferenceRecordedOnce
    <2>. QED
        BY <2>3, <2>4, <2>5, <2>6, <2>7
<1>. QED
    BY <1>1, <1>2

\* The check of every debit line and the unique index on reference_id
\* establish what the inserts rely on.
LEMMA CreateTransactionIsSafe ==
    ASSUME SafetyInv, TypeOK', NEW r \in Requests, CreateTransaction(r)
    PROVE  SafetyInv'
<1> USE DEF SafetyInv
<1>1. CASE ReferenceTaken(r, posted)
    BY <1>1, RollbackIsSafe
    DEF CreateTransaction, TypeOK, Answered, InTransaction
<1>2. CASE ~ReferenceTaken(r, posted)
    <2>1. /\ pc[r] = "checking"
          /\ \A i \in Lines(dto[r], "DEBIT") : Covered(r, i)
          /\ ~ReferenceLocked(r)
          /\ pc' = [pc EXCEPT ![r] = "recording"]
          /\ UNCHANGED <<dto, sees, readBalance, inserted, delta, posted, balance>>
        BY <1>2 DEF CreateTransaction
    <2>2. /\ pc'[r] = "recording"
          /\ \A s \in Requests \ {r} : pc'[s] = pc[s]
        BY <2>1 DEF TypeOK
    <2>3. BodiesValid' /\ PostedIsPast' /\ NothingPending'
        BY <2>1, <2>2 DEF BodiesValid, PostedIsPast, NothingPending
    <2>4. ReadsCoverDebits'
        BY <2>1, <2>2 DEF ReadsCoverDebits, Covered
    <2>5. OneDebitPerAccount'
        <3>1. \A a \in Accounts : delta'[r][a] >= 0
            BY <2>1 DEF NothingPending, NoBalances
        <3>. QED
            BY <2>1, <2>2, <3>1 DEF OneDebitPerAccount
    <2>6. StaleOnlyByDebit'
        BY <2>1, <2>2 DEF StaleOnlyByDebit, InTransaction
    <2>7. ReferenceReserved'
        BY <1>2, <2>1, <2>2
        DEF ReferenceReserved, ReferenceLocked, ReferenceTaken
    <2>8. NoOverdraft' /\ ReferenceRecordedOnce'
        BY <2>1 DEF NoOverdraft, ReferenceRecordedOnce
    <2>. QED
        BY <2>3, <2>4, <2>5, <2>6, <2>7, <2>8
<1>. QED
    BY <1>1, <1>2

\* The unique index on entries keeps an account to one debit line.
LEMMA CreateEntryIsSafe ==
    ASSUME SafetyInv, TypeOK', NEW r \in Requests, CreateEntry(r)
    PROVE  SafetyInv'
<1> USE DEF SafetyInv
<1> DEFINE k == inserted[r] + 1
           e == dto[r].entries[k]
<1>1. CASE ViolatesEntryIndex(dto[r], k)
    BY <1>1, RollbackIsSafe DEF CreateEntry, TypeOK, Answered, InTransaction
<1>2. CASE ~ViolatesEntryIndex(dto[r], k)
    <2>1. /\ pc[r] = "recording"
          /\ k <= Len(dto[r].entries)
          /\ inserted' = [inserted EXCEPT ![r] = k]
          /\ delta' = [delta EXCEPT ![r][e.accountId] = @ + Signed(e)]
          /\ UNCHANGED <<pc, dto, sees, readBalance, posted, balance>>
        BY <1>2 DEF CreateEntry
    <2>2. dto[r] \in Dtos /\ k \in DOMAIN dto[r].entries /\ inserted[r] \in Nat
        BY <2>1, EntriesIsSeq DEF TypeOK
    <2>3. /\ e.accountId \in Accounts
          /\ e.amountPaise \in Int
          /\ e.direction \in {"DEBIT", "CREDIT"}
        BY <2>2, LinesAreEntries
    <2>4. e.amountPaise > 0
        BY <2>1, <2>2 DEF BodiesValid, Valid
    <2>5. /\ inserted'[r] = k
          /\ \A s \in Requests \ {r} : /\ inserted'[s] = inserted[s]
                                      /\ delta'[s] = delta[s]
        BY <2>1 DEF TypeOK
    <2>6. /\ delta'[r][e.accountId] = delta[r][e.accountId] + Signed(e)
          /\ \A a \in Accounts \ {e.accountId} : delta'[r][a] = delta[r][a]
          /\ \A a \in Accounts : delta[r][a] \in Int
        <3>1. delta \in [Requests -> [Accounts -> Int]]
            BY DEF TypeOK
        <3>2. /\ delta' = [delta EXCEPT ![r][e.accountId] = @ + Signed(e)]
              /\ e.accountId \in Accounts
            BY <2>1, <2>3
        <3> HIDE DEF e, k
        <3>. QED
            BY <3>1, <3>2
    <2>7. OneDebitPerAccount'
        <3>1. ASSUME NEW s \in Requests \ {r}, pc'[s] = "recording",
                     NEW a \in Accounts
              PROVE  \/ delta'[s][a] >= 0
                     \/ \E i \in Lines(dto'[s], "DEBIT") :
                           /\ i <= inserted'[s]
                           /\ dto'[s].entries[i].accountId = a
                           /\ delta'[s][a] >= -dto'[s].entries[i].amountPaise
            <4>1. /\ delta'[s][a] = delta[s][a] /\ inserted'[s] = inserted[s]
                  /\ dto' = dto /\ pc[s] = "recording"
                BY <2>1, <2>5, <3>1
            <4>. QED
                BY <4>1 DEF OneDebitPerAccount
        <3>2. ASSUME NEW a \in Accounts
              PROVE  \/ delta'[r][a] >= 0
                     \/ \E i \in Lines(dto[r], "DEBIT") :
                           /\ i <= k
                           /\ dto[r].entries[i].accountId = a
                           /\ delta'[r][a] >= -dto[r].entries[i].amountPaise
            <4>1. \/ delta[r][a] >= 0
                  \/ \E i \in Lines(dto[r], "DEBIT") :
                        /\ i <= inserted[r]
                        /\ dto[r].entries[i].accountId = a
                        /\ delta[r][a] >= -dto[r].entries[i].amountPaise
                BY <2>1 DEF OneDebitPerAccount
            <4>2. \A i \in Lines(dto[r], "DEBIT") :
                    /\ i \in DOMAIN dto[r].entries /\ i \in Nat /\ i >= 1
                    /\ dto[r].entries[i].amountPaise \in Int
                    /\ i <= inserted[r] => i <= k
                BY <2>2, EntriesIsSeq, LinesAreEntries DEF Lines
            <4>3. delta[r][a] \in Int
                BY <2>6
            <4>4. CASE a # e.accountId
                <5>1. delta'[r][a] = delta[r][a]
                    BY <2>6, <4>4
                <5> HIDE DEF e, k
                <5>. QED
                    BY <4>1, <4>2, <5>1
            <4>5. CASE a = e.accountId /\ e.direction = "CREDIT"
                <5>1. delta'[r][a] >= delta[r][a] /\ delta'[r][a] \in Int
                    BY <2>3, <2>4, <2>6, <4>5 DEF Signed
                <5> HIDE DEF e, k
                <5>2. CASE delta[r][a] >= 0
                    BY <4>3, <5>1, <5>2
                <5>3. ASSUME NEW i \in Lines(dto[r], "DEBIT"), i <= inserted[r],
                             dto[r].entries[i].accountId = a,
                             delta[r][a] >= -dto[r].entries[i].amountPaise
                      PROVE  /\ i <= k
                             /\ delta'[r][a] >= -dto[r].entries[i].amountPaise
                    BY <4>2, <4>3, <5>1, <5>3
                <5>. QED
                    BY <4>1, <5>2, <5>3
            <4>6. CASE a = e.accountId /\ e.direction = "DEBIT"
                <5>1. ~\E i \in Lines(dto[r], "DEBIT") :
                          i <= inserted[r] /\ dto[r].entries[i].accountId = a
                    BY <1>2, <2>2, <4>2, <4>6 DEF ViolatesEntryIndex, Lines
                <5>2. delta[r][a] >= 0
                    BY <4>1, <5>1
                <5>3. k \in Lines(dto[r], "DEBIT") /\ k <= k
                    BY <2>2, <4>6 DEF Lines
                <5>4. delta'[r][a] >= -e.amountPaise
                    BY <2>3, <2>6, <4>6, <5>2 DEF Signed
                <5>. QED
                    BY <4>6, <5>3, <5>4
            <4>. QED
                BY <2>3, <4>4, <4>5, <4>6
        <3>3. inserted'[r] = k /\ dto' = dto
            BY <2>1, <2>5
        <3>. QED
            BY <3>1, <3>2, <3>3 DEF OneDebitPerAccount
    <2>8. BodiesValid' /\ PostedIsPast'
        BY <2>1 DEF BodiesValid, PostedIsPast
    <2>9. NothingPending' /\ ReadsCoverDebits'
        BY <2>1, <2>5 DEF NothingPending, ReadsCoverDebits, Covered
    <2>10. StaleOnlyByDebit' /\ ReferenceReserved'
        BY <2>1 DEF StaleOnlyByDebit, ReferenceReserved, InTransaction
    <2>11. NoOverdraft' /\ ReferenceRecordedOnce'
        BY <2>1 DEF NoOverdraft, ReferenceRecordedOnce
    <2>. QED
        BY <2>7, <2>8, <2>9, <2>10, <2>11
<1>. QED
    BY <1>1, <1>2

\* Two committed debits of one account see each other, so when a transaction
\* commits, the accounts it debits hold what its snapshot says.
LEMMA CommitReadsCurrent ==
    ASSUME SafetyInv, NEW r \in Requests, pc[r] = "recording", Serializable(r),
           NEW a \in Accounts, a \in DebitedAccounts(dto[r])
    PROVE  balance[a] >= readBalance[r][a]
<1> USE DEF SafetyInv
<1>1. a \in TouchedAccounts(dto[r])
    BY DEF DebitedAccounts, TouchedAccounts, Lines
<1>2. ASSUME NEW u \in posted \ sees[r], a \in DebitedAccounts(dto[u])
      PROVE  FALSE
    <2>1. a \in TouchedAccounts(dto[u])
        BY <1>2 DEF DebitedAccounts, TouchedAccounts, Lines
    <2>2. r \notin sees[u]
        BY DEF PostedIsPast, TypeOK
    <2>3. Precedes(u, r) /\ Precedes(r, u)
        BY <1>1, <1>2, <2>1, <2>2 DEF Precedes
    <2>. QED
        BY <2>3 DEF Serializable
<1>. QED
    BY <1>2 DEF StaleOnlyByDebit, InTransaction

\* What the snapshot covered is still there when the debit lands.
LEMMA CommitSpendsWhatIsThere ==
    ASSUME SafetyInv, NEW r \in Requests, Commit(r), NEW a \in Accounts
    PROVE  balance[a] + delta[r][a] >= 0
<1> USE DEF SafetyInv
<1>1. /\ pc[r] = "recording" /\ dto[r] \in Dtos
      /\ balance[a] \in Int /\ balance[a] >= 0
      /\ delta[r][a] \in Int /\ readBalance[r][a] \in Int
    BY DEF Commit, TypeOK, NoOverdraft
<1>2. CASE delta[r][a] >= 0
    BY <1>1, <1>2
<1>3. CASE ~(delta[r][a] >= 0)
    <2>1. PICK i \in Lines(dto[r], "DEBIT") :
            /\ dto[r].entries[i].accountId = a
            /\ delta[r][a] >= -dto[r].entries[i].amountPaise
        BY <1>1, <1>3 DEF OneDebitPerAccount
    <2>2. i \in DOMAIN dto[r].entries /\ dto[r].entries[i].amountPaise \in Int
        BY <1>1, LinesAreEntries DEF Lines
    <2>3. a \in DebitedAccounts(dto[r])
        BY <2>1 DEF DebitedAccounts
    <2>4. dto[r].entries[i].amountPaise <= readBalance[r][a]
        BY <1>1, <2>1 DEF ReadsCoverDebits, Covered
    <2>5. balance[a] >= readBalance[r][a]
        BY <1>1, <2>3, CommitReadsCurrent DEF Commit
    <2>. QED
        BY <1>1, <2>1, <2>2, <2>4, <2>5
<1>. QED
    BY <1>2, <1>3

\* A commit moves what was pending into the balances and keeps the rest.
LEMMA CommitIsSafe ==
    ASSUME SafetyInv, TypeOK', NEW r \in Requests, Commit(r)
    PROVE  SafetyInv'
<1> USE DEF SafetyInv
<1>1. /\ pc[r] = "recording"
      /\ posted' = posted \union {r}
      /\ balance' = [a \in Accounts |-> balance[a] + delta[r][a]]
      /\ UNCHANGED <<dto, sees>>
      /\ pc' = [pc EXCEPT ![r] = "publishing"]
      /\ readBalance' = [readBalance EXCEPT ![r] = NoBalances]
      /\ inserted' = [inserted EXCEPT ![r] = 0]
      /\ delta' = [delta EXCEPT ![r] = NoBalances]
    BY DEF Commit, Finish
<1>2. /\ pc'[r] = "publishing" /\ inserted'[r] = 0 /\ delta'[r] = NoBalances
      /\ \A s \in Requests \ {r} :
            /\ pc'[s] = pc[s] /\ readBalance'[s] = readBalance[s]
            /\ inserted'[s] = inserted[s] /\ delta'[s] = delta[s]
    BY <1>1 DEF TypeOK
<1>3. NoOverdraft'
    BY <1>1, CommitSpendsWhatIsThere DEF NoOverdraft
<1>4. ReferenceRecordedOnce'
    BY <1>1 DEF ReferenceRecordedOnce, ReferenceReserved, TypeOK
<1>5. ReferenceReserved'
    BY <1>1, <1>2 DEF ReferenceReserved, TypeOK
<1>6. StaleOnlyByDebit'
    <2> SUFFICES ASSUME NEW s \in Requests, pc[s] \in InTransaction, s # r,
                        NEW a \in Accounts
        PROVE  \/ balance'[a] >= readBalance[s][a]
               \/ \E u \in posted' \ sees[s] : a \in DebitedAccounts(dto[u])
        BY <1>1, <1>2 DEF StaleOnlyByDebit, InTransaction
    <2>1. /\ balance[a] \in Int /\ readBalance[s][a] \in Int
          /\ delta[r][a] \in Int /\ balance'[a] = balance[a] + delta[r][a]
        BY <1>1 DEF TypeOK
    <2>2. CASE \E u \in posted \ sees[s] : a \in DebitedAccounts(dto[u])
        BY <1>1, <2>2
    <2>3. CASE balance[a] >= readBalance[s][a] /\ delta[r][a] >= 0
        BY <2>1, <2>3
    <2>4. CASE ~(delta[r][a] >= 0)
        <3>1. a \in DebitedAccounts(dto[r])
            BY <1>1, <2>4 DEF OneDebitPerAccount, DebitedAccounts
        <3>2. r \notin sees[s]
            BY <1>1 DEF PostedIsPast
        <3>. QED
            BY <1>1, <3>1, <3>2
    <2>. QED
        BY <2>2, <2>3, <2>4 DEF StaleOnlyByDebit
<1>7. BodiesValid' /\ PostedIsPast' /\ NothingPending'
    BY <1>1, <1>2 DEF BodiesValid, PostedIsPast, NothingPending, TypeOK
<1>8. ReadsCoverDebits' /\ OneDebitPerAccount'
    BY <1>1, <1>2 DEF ReadsCoverDebits, OneDebitPerAccount, Covered
<1>. QED
    BY <1>3, <1>4, <1>5, <1>6, <1>7, <1>8

\* Every step keeps the invariant.
LEMMA SafetyInductive ==
    ASSUME SafetyInv, [Next]_vars
    PROVE  SafetyInv'
<1>1. TypeOK /\ TypeOK'
    BY TypeInductive DEF SafetyInv
<1>2. CASE UNCHANGED vars
    BY <1>2
    DEF vars, SafetyInv, TypeOK, BodiesValid, PostedIsPast, NothingPending,
        ReadsCoverDebits, Covered, OneDebitPerAccount, StaleOnlyByDebit,
        ReferenceReserved, NoOverdraft, ReferenceRecordedOnce
<1>3. ASSUME NEW r \in Requests, Receive(r)
      PROVE  SafetyInv'
    <2>1. r \notin posted
        BY <1>3 DEF Receive, SafetyInv, PostedIsPast
    <2>2. CASE Valid(dto[r])
        BY <1>1, <1>3, <2>1, <2>2, QuietStepIsSafe
        DEF Receive, Phase, InTransaction
    <2>3. CASE ~Valid(dto[r])
        BY <1>1, <1>3, <2>1, <2>3, QuietStepIsSafe
        DEF Receive, Phase, Answered, InTransaction
    <2>. QED
        BY <2>2, <2>3
<1>4. ASSUME NEW r \in Requests, LookupReference(r)
      PROVE  SafetyInv'
    BY <1>1, <1>4, LookupReferenceIsSafe
<1>5. ASSUME NEW r \in Requests, RefuseDebit(r)
      PROVE  SafetyInv'
    BY <1>1, <1>5, RollbackIsSafe DEF RefuseDebit, InTransaction, Answered, TypeOK
<1>6. ASSUME NEW r \in Requests, CreateTransaction(r)
      PROVE  SafetyInv'
    BY <1>1, <1>6, CreateTransactionIsSafe
<1>7. ASSUME NEW r \in Requests, CreateEntry(r)
      PROVE  SafetyInv'
    BY <1>1, <1>7, CreateEntryIsSafe
<1>8. ASSUME NEW r \in Requests, Commit(r)
      PROVE  SafetyInv'
    BY <1>1, <1>8, CommitIsSafe
<1>9. ASSUME NEW r \in Requests, SerializationFailure(r)
      PROVE  SafetyInv'
    BY <1>1, <1>9, RollbackIsSafe
    DEF SerializationFailure, InTransaction, Answered, TypeOK
<1>10. ASSUME NEW r \in Requests, Abort(r)
       PROVE  SafetyInv'
    BY <1>1, <1>10, RollbackIsSafe DEF Abort, Answered, TypeOK
<1>11. ASSUME NEW r \in Requests, PublishPosted(r) \/ LosePublish(r)
       PROVE  SafetyInv'
    <2>1. Valid(dto[r])
        BY <1>11 DEF PublishPosted, LosePublish, SafetyInv, BodiesValid
    <2>2. PICK next \in {"recorded", "unannounced"} :
            pc' = [pc EXCEPT ![r] = next]
        BY <1>11 DEF PublishPosted, LosePublish
    <2>. QED
        BY <1>1, <1>11, <2>1, <2>2, QuietStepIsSafe
        DEF PublishPosted, LosePublish, Phase, Answered, InTransaction
<1>. QED
    BY <1>2, <1>3, <1>4, <1>5, <1>6, <1>7, <1>8, <1>9, <1>10, <1>11
    DEF Next, Progress

\* The inductive invariant holds throughout: what an open transaction has
\* read, inserted and reserved always agrees with what has been committed.
THEOREM SafetyInvariance == Spec => []SafetyInv
<1>1. Init => SafetyInv
    BY SafetyInvInit
<1>2. SafetyInv /\ [Next]_vars => SafetyInv'
    BY SafetyInductive
<1>. QED
    BY <1>1, <1>2, PTL DEF Spec

\* No interleaving of recordTransaction calls overdraws an account, for any
\* number of concurrent requests, any bodies and any seeded balances.
THEOREM NeverOverdrawn == Spec => []NoOverdraft
<1>1. SafetyInv => NoOverdraft
    BY DEF SafetyInv
<1>. QED
    BY <1>1, SafetyInvariance, PTL

\* No retry or concurrent copy of a request records its referenceId again.
THEOREM RecordedOnce == Spec => []ReferenceRecordedOnce
<1>1. SafetyInv => ReferenceRecordedOnce
    BY DEF SafetyInv
<1>. QED
    BY <1>1, SafetyInvariance, PTL

-----------------------------------------------------------------------------
(* Events and answers. *)

Committed == {"publishing", "recorded", "unannounced"}

\* a handler past its commit is that of a posted request and the other way
\* round, a 201 follows the event, and a breach ends its request
EventsInv ==
    /\ \A r \in Requests : pc[r] \in Committed <=> r \in posted
    /\ announced \subseteq posted
    /\ \A r \in Requests : pc[r] = "recorded" <=> r \in announced
    /\ \A r \in breached : pc[r] = "insufficient"

\* A request whose database transaction rolls back is not a posted one.
LEMMA RollbackKeepsEvents ==
    ASSUME TypeOK, EventsInv, NEW r \in Requests, pc[r] \notin Committed,
           pc[r] # "insufficient", NEW answer \in Answered \ Committed,
           Rollback(r, answer),
           \/ UNCHANGED breached
           \/ answer = "insufficient" /\ breached' = breached \union {r}
    PROVE  EventsInv'
<1>1. /\ \A s \in Requests : pc'[s] = IF s = r THEN answer ELSE pc[s]
      /\ UNCHANGED <<posted, announced>>
    BY DEF TypeOK, Rollback, Finish
<1>2. \A s \in breached' : s \in breached \/ (s = r /\ answer = "insufficient")
    OBVIOUS
<1>3. breached \subseteq Requests /\ r \notin breached
    BY DEF TypeOK, EventsInv
<1>. QED
    BY <1>1, <1>2, <1>3 DEF EventsInv, Committed

\* Every step keeps events and answers in line with what is committed.
LEMMA EventsInductive ==
    ASSUME TypeOK, EventsInv, [Next]_vars
    PROVE  EventsInv'
<1>1. CASE UNCHANGED <<pc, posted, announced, breached>>
    BY <1>1 DEF EventsInv
<1>2. ASSUME NEW r \in Requests,
             Receive(r) \/ (LookupReference(r) /\ ~Rollback(r, "duplicate"))
             \/ (CreateTransaction(r) /\ ~Rollback(r, "failed"))
      PROVE  EventsInv'
    <2>1. PICK next \in {"begin", "invalid", "checking", "recording"} :
            pc' = [pc EXCEPT ![r] = next]
        BY <1>2 DEF Receive, LookupReference, CreateTransaction
    <2>2. /\ UNCHANGED <<posted, announced, breached>>
          /\ pc[r] \notin Committed \union {"insufficient"}
        BY <1>2 DEF Receive, LookupReference, CreateTransaction, Committed
    <2>3. \A s \in Requests : pc'[s] = IF s = r THEN next ELSE pc[s]
        BY <2>1 DEF TypeOK
    <2>4. breached \subseteq Requests
        BY DEF TypeOK
    <2>. QED
        BY <2>2, <2>3, <2>4 DEF EventsInv, Committed
<1>3. ASSUME NEW r \in Requests, NEW answer \in {"duplicate", "failed"},
             Rollback(r, answer), UNCHANGED breached,
             pc[r] \in {"begin"} \union InTransaction
      PROVE  EventsInv'
    BY <1>3, RollbackKeepsEvents DEF InTransaction, Committed, Answered
<1>4. ASSUME NEW r \in Requests, RefuseDebit(r)
      PROVE  EventsInv'
    BY <1>4, RollbackKeepsEvents DEF RefuseDebit, Committed, Answered
<1>5. ASSUME NEW r \in Requests, CreateEntry(r), ~Rollback(r, "failed")
      PROVE  EventsInv'
    BY <1>5, <1>1 DEF CreateEntry
<1>6. ASSUME NEW r \in Requests, Commit(r)
      PROVE  EventsInv'
    <2>1. /\ \A s \in Requests : pc'[s] = IF s = r THEN "publishing" ELSE pc[s]
          /\ posted' = posted \union {r}
          /\ UNCHANGED <<announced, breached>>
          /\ pc[r] = "recording"
        BY <1>6 DEF Commit, Finish, TypeOK
    <2>2. breached \subseteq Requests
        BY DEF TypeOK
    <2>. QED
        BY <2>1, <2>2 DEF EventsInv, Committed
<1>7. ASSUME NEW r \in Requests, PublishPosted(r) \/ LosePublish(r)
      PROVE  EventsInv'
    <2>1. PICK next \in {"recorded", "unannounced"} :
            /\ pc' = [pc EXCEPT ![r] = next]
            /\ announced' = IF next = "recorded" THEN announced \union {r}
                                                 ELSE announced
        BY <1>7 DEF PublishPosted, LosePublish
    <2>2. /\ UNCHANGED <<posted, breached>>
          /\ pc[r] = "publishing"
        BY <1>7 DEF PublishPosted, LosePublish
    <2>3. \A s \in Requests : pc'[s] = IF s = r THEN next ELSE pc[s]
        BY <2>1 DEF TypeOK
    <2>4. breached \subseteq Requests
        BY DEF TypeOK
    <2>. QED
        BY <2>1, <2>2, <2>3, <2>4 DEF EventsInv, Committed
<1>8. ASSUME NEW r \in Requests,
             LookupReference(r) \/ CreateTransaction(r) \/ CreateEntry(r)
             \/ SerializationFailure(r) \/ Abort(r)
      PROVE  /\ pc[r] \in {"begin"} \union InTransaction
             /\ UNCHANGED breached
    BY <1>8 DEF LookupReference, CreateTransaction, CreateEntry,
       SerializationFailure, Abort, InTransaction
<1>9. ASSUME NEW r \in Requests, SerializationFailure(r) \/ Abort(r)
      PROVE  Rollback(r, "failed")
    BY <1>9 DEF SerializationFailure, Abort
<1>10. UNCHANGED vars => UNCHANGED <<pc, posted, announced, breached>>
    BY DEF vars
<1>. QED
    BY <1>1, <1>2, <1>3, <1>4, <1>5, <1>6, <1>7, <1>8, <1>9, <1>10
    DEF Next, Progress

\* What callers and subscribers are told is true: 201 and
\* ledger.transaction_posted are about committed transactions, and no
\* transaction whose breach was published is committed.
THEOREM EventsTrue == Spec => []EventsTellTheTruth
<1>1. Init => EventsInv
    BY DEF Init, EventsInv, Committed
<1>2. TypeOK /\ EventsInv /\ [Next]_vars => EventsInv'
    BY EventsInductive
<1>3. TypeOK /\ EventsInv => EventsTellTheTruth
    BY DEF EventsInv, EventsTellTheTruth, Committed, TypeOK
<1>. QED
    BY <1>1, <1>2, <1>3, TypeCorrect, PTL DEF Spec
-----------------------------------------------------------------------------
(* Double entry. *)

\* what an open transaction has pending is what its inserted lines say
PendingIsPrefix ==
    \A r \in Requests : pc[r] = "recording" =>
        /\ inserted[r] <= Len(dto[r].entries)
        /\ \A a \in Accounts :
              delta[r][a] = SumFunctionOnSet(ChangesOf(dto[r], a), 1 .. inserted[r])

BooksInv ==
    /\ IsFiniteSet(posted)
    /\ PendingIsPrefix
    /\ BooksBalance

\* A step that keeps the other handlers' pending rows and leaves r with none
\* it should not have.
LEMMA OthersPendingUnchanged ==
    ASSUME TypeOK, TypeOK', PendingIsPrefix, NEW r \in Requests,
           dto' = dto,
           \A s \in Requests \ {r} : /\ pc'[s] = pc[s] /\ inserted'[s] = inserted[s]
                                     /\ delta'[s] = delta[s],
           pc'[r] = "recording" =>
               /\ inserted'[r] <= Len(dto[r].entries)
               /\ \A a \in Accounts :
                     delta'[r][a]
                       = SumFunctionOnSet(ChangesOf(dto[r], a), 1 .. inserted'[r])
    PROVE  PendingIsPrefix'
BY DEF PendingIsPrefix

\* Inserting a row adds what its line says.
LEMMA CreateEntryKeepsPending ==
    ASSUME TypeOK, TypeOK', PendingIsPrefix, NEW r \in Requests, CreateEntry(r)
    PROVE  PendingIsPrefix'
<1> DEFINE k == inserted[r] + 1
           e == dto[r].entries[k]
<1>1. /\ pc[r] = "recording" /\ k <= Len(dto[r].entries)
      /\ dto' = dto
    BY DEF CreateEntry, Rollback
<1>2. /\ dto[r] \in Dtos /\ inserted[r] \in Nat /\ k \in DOMAIN dto[r].entries
      /\ e.accountId \in Accounts
    BY <1>1, EntriesIsSeq, LinesAreEntries DEF TypeOK
<1>3. \A s \in Requests \ {r} : /\ pc'[s] = pc[s] /\ inserted'[s] = inserted[s]
                                /\ delta'[s] = delta[s]
    BY DEF CreateEntry, Rollback, Finish, TypeOK
<1>4. CASE ViolatesEntryIndex(dto[r], k)
    <2>1. pc'[r] = "failed"
        BY <1>4 DEF CreateEntry, Rollback, Finish, TypeOK
    <2>. QED
        BY <1>1, <1>3, <2>1, OthersPendingUnchanged
<1>5. CASE ~ViolatesEntryIndex(dto[r], k)
    <2>1. /\ inserted' = [inserted EXCEPT ![r] = k]
          /\ delta' = [delta EXCEPT ![r][e.accountId] = @ + Signed(e)]
        BY <1>5 DEF CreateEntry
    <2>2. inserted'[r] = k
        BY <2>1 DEF TypeOK
    <2>3. \A a \in Accounts : /\ delta'[r][a] = delta[r][a] + ChangesOf(dto[r], a)[k]
                              /\ ChangesOf(dto[r], a)[k] \in Int
        <3>1. delta \in [Requests -> [Accounts -> Int]] /\ Signed(e) \in Int
            BY <1>2, SignedIsInt DEF TypeOK
        <3>2. \A a \in Accounts :
                ChangesOf(dto[r], a)[k] = IF e.accountId = a THEN Signed(e) ELSE 0
            BY <1>2 DEF ChangesOf
        <3> HIDE DEF e, k
        <3>. QED
            BY <1>2, <2>1, <3>1, <3>2
    <2>4. ASSUME NEW a \in Accounts
          PROVE  SumFunctionOnSet(ChangesOf(dto[r], a), 1 .. k)
                   = ChangesOf(dto[r], a)[k]
                     + SumFunctionOnSet(ChangesOf(dto[r], a), 1 .. inserted[r])
        <3>1. /\ IsFiniteSet(1 .. inserted[r]) /\ k \notin 1 .. inserted[r]
              /\ 1 .. k = (1 .. inserted[r]) \union {k}
            <4>1. \A n \in Nat : /\ n + 1 \notin 1 .. n
                                 /\ 1 .. n + 1 = (1 .. n) \union {n + 1}
                OBVIOUS
            <4>2. IsFiniteSet(1 .. inserted[r])
                BY <1>2, FS_Interval
            <4>. QED
                BY <1>2, <4>1, <4>2
        <3>2. 1 .. k \subseteq DOMAIN dto[r].entries
            BY <1>1, <1>2, EntriesIsSeq
        <3>3. \A i \in 1 .. k : ChangesOf(dto[r], a)[i] \in Int
            BY <1>2, <3>2, SignedIsInt DEF ChangesOf
        <3> HIDE DEF k
        <3>. QED
            BY <3>1, <3>3, SumAdd
    <2>5. \A a \in Accounts :
            /\ delta[r][a] = SumFunctionOnSet(ChangesOf(dto[r], a), 1 .. inserted[r])
            /\ delta[r][a] \in Int
        BY <1>1 DEF PendingIsPrefix, TypeOK
    <2>6. \A a \in Accounts :
            delta'[r][a] = SumFunctionOnSet(ChangesOf(dto[r], a), 1 .. k)
        BY <2>3, <2>4, <2>5
    <2>. QED
        BY <1>1, <1>3, <2>2, <2>6, OthersPendingUnchanged
<1>. QED
    BY <1>4, <1>5

\* Every step keeps what is pending in line with what is inserted.
LEMMA PendingInductive ==
    ASSUME SafetyInv, PendingIsPrefix, [Next]_vars
    PROVE  PendingIsPrefix'
<1>1. TypeOK /\ TypeOK'
    BY TypeInductive DEF SafetyInv
<1>2. CASE UNCHANGED vars
    BY <1>2 DEF vars, PendingIsPrefix
<1>3. ASSUME NEW r \in Requests, CreateEntry(r)
      PROVE  PendingIsPrefix'
    BY <1>1, <1>3, CreateEntryKeepsPending
<1>4. ASSUME NEW r \in Requests, NEW answer, Rollback(r, answer),
             answer # "recording"
      PROVE  PendingIsPrefix'
    <2>1. /\ pc'[r] = answer /\ dto' = dto
          /\ \A s \in Requests \ {r} : /\ pc'[s] = pc[s] /\ delta'[s] = delta[s]
                                       /\ inserted'[s] = inserted[s]
        BY <1>1, <1>4 DEF Rollback, Finish, TypeOK
    <2>. QED
        BY <1>1, <1>4, <2>1, OthersPendingUnchanged
<1>5. ASSUME NEW r \in Requests, Commit(r)
      PROVE  PendingIsPrefix'
    <2>1. /\ pc'[r] = "publishing" /\ dto' = dto
          /\ \A s \in Requests \ {r} : /\ pc'[s] = pc[s] /\ delta'[s] = delta[s]
                                       /\ inserted'[s] = inserted[s]
        BY <1>1, <1>5 DEF Commit, Finish, TypeOK
    <2>. QED
        BY <1>1, <2>1, OthersPendingUnchanged
<1>6. ASSUME NEW r \in Requests, CreateTransaction(r), ~Rollback(r, "failed")
      PROVE  PendingIsPrefix'
    <2>1. /\ dto' = dto /\ inserted' = inserted /\ delta' = delta
          /\ pc[r] = "checking"
          /\ \A s \in Requests \ {r} : pc'[s] = pc[s]
        BY <1>1, <1>6 DEF CreateTransaction, TypeOK
    <2>2. /\ inserted[r] = 0 /\ \A a \in Accounts : delta[r][a] = 0
          /\ Len(dto[r].entries) \in Nat
        BY <1>1, <2>1, EntriesIsSeq DEF SafetyInv, NothingPending, NoBalances, TypeOK
    <2>3. \A a \in Accounts : SumFunctionOnSet(ChangesOf(dto[r], a), 1 .. 0) = 0
        BY SumEmpty
    <2>. QED
        BY <1>1, <2>1, <2>2, <2>3, OthersPendingUnchanged
<1>7. ASSUME NEW r \in Requests,
             \/ Receive(r) \/ PublishPosted(r) \/ LosePublish(r)
             \/ LookupReference(r) /\ ~Rollback(r, "duplicate")
      PROVE  PendingIsPrefix'
    <2>1. /\ dto' = dto /\ inserted' = inserted /\ delta' = delta
          /\ pc'[r] # "recording"
          /\ \A s \in Requests \ {r} : pc'[s] = pc[s]
        BY <1>1, <1>7 DEF Receive, PublishPosted, LosePublish, LookupReference, TypeOK
    <2>. QED
        BY <1>1, <2>1, OthersPendingUnchanged
<1>. QED
    BY <1>2, <1>3, <1>4, <1>5, <1>6, <1>7
    DEF Next, Progress, RefuseDebit, SerializationFailure, Abort

\* At COMMIT every line is inserted, so what is pending is the whole body.
LEMMA CommitPostsTheBody ==
    ASSUME SafetyInv, PendingIsPrefix, NEW r \in Requests, Commit(r)
    PROVE  /\ dto[r] \in Dtos /\ Valid(dto[r])
           /\ delta[r] = [a \in Accounts |-> NetChange(dto[r], a)]
<1>1. /\ pc[r] = "recording" /\ inserted[r] = Len(dto[r].entries)
      /\ dto[r] \in Dtos /\ delta[r] \in [Accounts -> Int]
    BY DEF Commit, SafetyInv, TypeOK
<1>2. Valid(dto[r])
    BY <1>1 DEF SafetyInv, BodiesValid
<1>3. \A a \in Accounts : delta[r][a] = NetChange(dto[r], a)
    BY <1>1, EntriesIsSeq DEF PendingIsPrefix, NetChange, SumFunction, ChangesOf
<1>. QED
    BY <1>1, <1>2, <1>3

\* A commit adds one body to the books.
LEMMA CommitKeepsBooks ==
    ASSUME SafetyInv, BooksInv, NEW r \in Requests, Commit(r)
    PROVE  BooksBalance' /\ IsFiniteSet(posted')
<1> DEFINE Net == [a \in Accounts |-> NetChange(dto[r], a)]
           Of(a) == [q \in posted |-> NetChange(dto[q], a)]
           New(a) == [q \in posted \union {r} |-> NetChange(dto[q], a)]
<1>1. /\ delta[r] = Net /\ Net \in [Accounts -> Int]
      /\ SumFunctionOnSet(Net, Accounts) = 0
    BY CommitPostsTheBody, ValidBodyMovesMoney DEF BooksInv
<1>2. /\ posted' = posted \union {r} /\ dto' = dto
      /\ balance' = [a \in Accounts |-> balance[a] + delta[r][a]]
      /\ balance \in [Accounts -> Int]
    BY DEF Commit, SafetyInv, TypeOK
<1>3. r \notin posted /\ IsFiniteSet(posted) /\ posted \subseteq Requests
    BY DEF SafetyInv, PostedIsPast, Commit, BooksInv, TypeOK
<1>4. ASSUME NEW q \in posted, NEW a \in Accounts
      PROVE  NetChange(dto[q], a) \in Int
    <2>1. dto[q] \in Dtos /\ Valid(dto[q])
        BY <1>3, <1>4 DEF SafetyInv, TypeOK, BodiesValid, PostedIsPast
    <2>. QED
        BY <2>1, ValidBodyMovesMoney
<1>5. ASSUME NEW a \in Accounts
      PROVE  balance'[a] = Opening[a] + SumFunction(New(a))
    <2>1. balance[a] = Opening[a] + SumFunctionOnSet(Of(a), posted)
        BY DEF BooksInv, BooksBalance, SumFunction
    <2>2. /\ \A q \in posted \union {r} : New(a)[q] \in Int
          /\ \A q \in posted : New(a)[q] = Of(a)[q]
          /\ New(a)[r] = Net[a]
        BY <1>1, <1>4
    <2>3. SumFunctionOnSet(New(a), posted) = SumFunctionOnSet(Of(a), posted)
        BY <1>3, <2>2, SumSame
    <2>4. SumFunctionOnSet(New(a), posted \union {r})
            = Net[a] + SumFunctionOnSet(New(a), posted)
        <3> HIDE DEF New, Net
        <3>. QED
            BY <1>3, <2>2, SumAdd
    <2>5. SumFunction(New(a)) = SumFunctionOnSet(New(a), posted \union {r})
        BY DEF SumFunction
    <2>6. /\ Net[a] \in Int /\ Opening[a] \in Int
          /\ SumFunctionOnSet(Of(a), posted) \in Int
          /\ balance'[a] = balance[a] + Net[a]
        BY <1>1, <1>2, <1>3, <1>4, OpeningAssumption, SumInt
    <2> HIDE DEF New, Net, Of
    <2>. QED
        BY <2>1, <2>3, <2>4, <2>5, <2>6
<1>6. SumFunction(balance') = SumFunction(balance)
    <2>1. SumFunctionOnSet(balance', Accounts)
            = SumFunctionOnSet(balance, Accounts) + SumFunctionOnSet(Net, Accounts)
        <3> HIDE DEF Net
        <3>. QED
            BY <1>1, <1>2, AccountsAssumption, SumPlus
    <2>2. SumFunctionOnSet(balance, Accounts) \in Int
        BY <1>2, AccountsAssumption, SumInt
    <2>. QED
        BY <1>1, <1>2, <2>1, <2>2 DEF SumFunction
<1>7. IsFiniteSet(posted')
    BY <1>2, <1>3, FS_AddElement
<1>8. \A a \in Accounts : New(a) = [q \in posted' |-> NetChange(dto'[q], a)]
    BY <1>2
<1>9. SumFunction(balance) = SumFunction(Opening)
    BY DEF BooksInv, BooksBalance
<1> HIDE DEF New
<1>. QED
    BY <1>5, <1>6, <1>7, <1>8, <1>9 DEF BooksBalance

\* Every step keeps the books.
LEMMA BooksInductive ==
    ASSUME SafetyInv, BooksInv, [Next]_vars
    PROVE  BooksInv'
<1>1. PendingIsPrefix'
    BY PendingInductive DEF BooksInv
<1>2. CASE \E r \in Requests : Commit(r)
    BY <1>1, <1>2, CommitKeepsBooks DEF BooksInv
<1>3. CASE UNCHANGED <<dto, posted, balance>>
    BY <1>1, <1>3 DEF BooksInv, BooksBalance
<1>4. (\E r \in Requests : Commit(r)) \/ UNCHANGED <<dto, posted, balance>>
    BY DEF Next, Progress, vars, Receive, LookupReference, RefuseDebit,
       CreateTransaction, CreateEntry, SerializationFailure, Abort,
       PublishPosted, LosePublish, Rollback
<1>. QED
    BY <1>2, <1>3, <1>4

\* Before anything is posted the books are the seeded balances.
LEMMA BooksInit ==
    ASSUME Init
    PROVE  BooksInv
<1>1. posted = {} /\ balance = Opening /\ IsFiniteSet(posted)
    BY FS_EmptySet DEF Init
<1>2. PendingIsPrefix
    BY DEF Init, PendingIsPrefix
<1>3. \A a \in Accounts : SumFunction([q \in posted |-> NetChange(dto[q], a)]) = 0
    BY <1>1, SumEmpty DEF SumFunction
<1>. QED
    BY <1>1, <1>2, <1>3, OpeningAssumption DEF BooksInv, BooksBalance

\* The books balance: an account holds its seeded balance and what every
\* recorded body, whole, does to it, and the accounts together hold what they
\* held at first, however requests interleave, abort or crash.
THEOREM BooksAlwaysBalance == Spec => []BooksBalance
<1>1. Init => BooksInv
    BY BooksInit
<1>2. SafetyInv /\ SafetyInv' /\ BooksInv /\ [Next]_vars => BooksInv'
    BY BooksInductive
<1>3. BooksInv => BooksBalance
    BY DEF BooksInv
<1>. QED
    BY <1>1, <1>2, <1>3, SafetyInvariance, PTL DEF Spec

-----------------------------------------------------------------------------
(* The requests implement the book.  Recorded and announced are the          *)
(* references of the posted and of the announced requests.                   *)

\* Book's operators on bodies are the ones of LedgerEntries.
LEMMA BookReadsBodies ==
    /\ \A d : Book!Valid(d) <=> Valid(d)
    /\ \A d, a : Book!NetChange(d, a) = NetChange(d, a)
    /\ \A d, direction : Book!Lines(d, direction) = Lines(d, direction)
<1>1. \A f : Book!SumFunction(f) = SumFunction(f)
    BY DEF Book!SumFunction, Book!SumFunctionOnSet, Book!FoldFunctionOnSet,
       Book!MapThenFoldSet, SumFunction, SumFunctionOnSet, FoldFunctionOnSet,
       MapThenFoldSet
<1>2. \A d, direction : Book!Total(d, direction) = Total(d, direction)
    BY <1>1 DEF Book!Total, Total, Book!AmountsOf, AmountsOf
<1>3. \A d, a : Book!NetChange(d, a) = NetChange(d, a)
    BY <1>1 DEF Book!NetChange, NetChange, Book!ChangesOf, ChangesOf,
       Book!Signed, Signed
<1>4. \A d : Book!Valid(d) <=> Valid(d)
    BY <1>2 DEF Book!Valid, Valid
<1>. QED
    BY <1>3, <1>4
    DEF Book!Lines, Lines

\* A commit records its body: the reference is fresh, and the balances of that
\* moment cover every debit.
LEMMA CommitPosts ==
    ASSUME SafetyInv, BooksInv, NEW r \in Requests, Commit(r),
           NEW d \in Dtos, d = dto[r]
    PROVE  Book!Post(d)
<1>1. /\ pc[r] = "recording" /\ Serializable(r)
      /\ posted' = posted \union {r} /\ UNCHANGED <<dto, announced>>
      /\ balance' = [a \in Accounts |-> balance[a] + delta[r][a]]
      /\ balance \in [Accounts -> Int] /\ posted \subseteq Requests
    BY DEF Commit, SafetyInv, TypeOK
<1>2. Book!Valid(d) /\ \A a \in Accounts : delta[r][a] = Book!NetChange(d, a)
    BY CommitPostsTheBody, BookReadsBodies DEF BooksInv
<1>3. d.referenceId \notin {dto[s].referenceId : s \in posted}
    BY <1>1 DEF SafetyInv, PostedIsPast, ReferenceReserved
<1>4. ASSUME NEW i \in Book!Lines(d, "DEBIT")
      PROVE  d.entries[i].amountPaise <= balance[d.entries[i].accountId]
    <2> DEFINE a == d.entries[i].accountId
    <2>1. i \in Lines(d, "DEBIT")
        BY BookReadsBodies
    <2>2. /\ a \in Accounts /\ d.entries[i].amountPaise \in Int
          /\ a \in DebitedAccounts(d)
        BY <1>1, <2>1, LinesAreEntries DEF Lines, DebitedAccounts
    <2>3. balance[a] >= readBalance[r][a]
        BY <1>1, <2>2, CommitReadsCurrent
    <2>4. d.entries[i].amountPaise <= readBalance[r][a]
        BY <1>1, <2>1 DEF SafetyInv, ReadsCoverDebits, Covered
    <2>5. readBalance[r][a] \in Int /\ balance[a] \in Int
        BY <1>1, <2>2 DEF SafetyInv, TypeOK
    <2>. QED
        BY <2>2, <2>3, <2>4, <2>5
<1>5. {dto'[s].referenceId : s \in posted'}
        = {dto[s].referenceId : s \in posted} \union {d.referenceId}
    BY <1>1
<1>6. {dto'[s].referenceId : s \in announced'} = {dto[s].referenceId : s \in announced}
    BY <1>1
<1>. QED
    BY <1>1, <1>2, <1>3, <1>4, <1>5, <1>6 DEF Book!Post

\* A publish announces a recorded reference that was not announced.
LEMMA PublishAnnounces ==
    ASSUME SafetyInv, EventsInv, NEW r \in Requests, PublishPosted(r),
           NEW ref \in References, ref = dto[r].referenceId
    PROVE  Book!Announce(ref)
<1>1. /\ pc[r] = "publishing" /\ dto[r] \in Dtos
      /\ announced' = announced \union {r}
      /\ UNCHANGED <<dto, posted, balance>>
    BY DEF PublishPosted, SafetyInv, TypeOK
<1>2. r \in posted /\ r \notin announced /\ announced \subseteq posted
    BY <1>1 DEF EventsInv, Committed
<1>3. ref \notin {dto[s].referenceId : s \in announced}
    BY <1>2 DEF SafetyInv, ReferenceRecordedOnce
<1>4. /\ {dto'[s].referenceId : s \in announced'}
           = {dto[s].referenceId : s \in announced} \union {ref}
      /\ {dto'[s].referenceId : s \in posted'} = {dto[s].referenceId : s \in posted}
    BY <1>1
<1>. QED
    BY <1>1, <1>2, <1>3, <1>4 DEF Book!Announce

\* Seen from outside, concurrent, aborted and crashed requests look like whole
\* bodies recorded one at a time, each under a fresh reference and covered by
\* the balances of that moment, and announced at most once.
THEOREM ImplementsTheBook == Spec => ImplementsBook
<1> DEFINE recorded == {dto[r].referenceId : r \in posted}
           told == {dto[r].referenceId : r \in announced}
<1>1. Init => Book!Init
    BY DEF Init, Book!Init
<1>2. SafetyInv /\ EventsInv /\ BooksInv /\ [Next]_vars
        => [Book!Next]_<<balance, recorded, told>>
    <2> SUFFICES ASSUME SafetyInv, EventsInv, BooksInv, [Next]_vars
        PROVE  Book!Next \/ UNCHANGED <<balance, recorded, told>>
        OBVIOUS
    <2>1. ASSUME NEW r \in Requests, Commit(r)
          PROVE  Book!Next
        <3>1. dto[r] \in Dtos
            BY DEF SafetyInv, TypeOK
        <3>2. PICK d \in Dtos : d = dto[r]
            BY <3>1
        <3>3. Book!Post(d)
            BY <2>1, <3>2, CommitPosts
        <3>. QED
            BY <3>3 DEF Book!Next
    <2>2. ASSUME NEW r \in Requests, PublishPosted(r)
          PROVE  Book!Next
        <3>1. dto[r].referenceId \in References
            BY DtosAssumption DEF Dto, SafetyInv, TypeOK
        <3>2. PICK ref \in References : ref = dto[r].referenceId
            BY <3>1
        <3>3. Book!Announce(ref)
            BY <2>2, <3>2, PublishAnnounces
        <3>. QED
            BY <3>3 DEF Book!Next
    <2>3. CASE UNCHANGED <<dto, posted, announced, balance>>
        BY <2>3
    <2>4. \/ \E r \in Requests : Commit(r) \/ PublishPosted(r)
          \/ UNCHANGED <<dto, posted, announced, balance>>
        BY DEF Next, Progress, vars, Receive, LookupReference, RefuseDebit,
           CreateTransaction, CreateEntry, SerializationFailure, Abort,
           LosePublish, Rollback
    <2>. QED
        BY <2>1, <2>2, <2>3, <2>4
<1>3. Spec => []BooksInv
    <2>1. Init => BooksInv
        BY BooksInit
    <2>2. SafetyInv /\ SafetyInv' /\ BooksInv /\ [Next]_vars => BooksInv'
        BY BooksInductive
    <2>. QED
        BY <2>1, <2>2, SafetyInvariance, PTL DEF Spec
<1>4. Spec => []EventsInv
    <2>1. Init => EventsInv
        BY DEF Init, EventsInv, Committed
    <2>2. TypeOK /\ EventsInv /\ [Next]_vars => EventsInv'
        BY EventsInductive
    <2>. QED
        BY <2>1, <2>2, TypeCorrect, PTL DEF Spec
<1>. QED
    BY <1>1, <1>2, <1>3, <1>4, SafetyInvariance, PTL
    DEF Spec, ImplementsBook, Book!Spec
=============================================================================
