--------------------------- MODULE LedgerSweepProofs ---------------------------
(***************************************************************************)
(* Theorems about LedgerSweep, for any requests, bodies, accounts, events,  *)
(* queries and calendar, and whatever commits between two statements of a   *)
(* sweep: an event is applied once, and the snapshots, calculated balances  *)
(* and answers of every account are sums until one of its rows races.       *)
(***************************************************************************)
EXTENDS LedgerSweep, FiniteSums, SequenceTheorems, TLAPS

\* The rows of a request follow the lines of its body.
RowsInv ==
    /\ \A r \in Requests : Len(ids[r]) <= Len(dto[r].entries)
    /\ \A a \in Accounts : IsFiniteSet(Visible(a))

\* The consumer's transaction: what it still has to do and what it wrote.
ConsumerInv ==
    /\ sweep.phase # "idle" => sweep.event \in Events
    /\ sweep.phase \in {"sweeping", "saving"} => sweep.event \notin inbox
    /\ sweep.phase = "saving" => sweep.account \in sweep.todo
    /\ sweep.phase # "saving" => sweep.account = NoAccount
    /\ sweep.phase \notin {"sweeping", "saving"} => sweep.written = {}
    /\ \A a \in sweep.todo : Visible(a) # {}
    /\ \A s \in sweep.written :
          s.snapshotDate = DateOf[sweep.event] /\ s.accountId \notin sweep.todo
    /\ \A s, t \in sweep.written : s.accountId = t.accountId => s = t

\* A snapshot is the sum of the rows up to its boundary.
Sound(s) ==
    s.balancePaise = Opening[s.accountId]
                     + Sum({row \in Visible(s.accountId) :
                                row.id <= s.lastProcessedEntryId})

\* Its boundary is a row that is seen.
Bounded(s) ==
    \/ s.lastProcessedEntryId = 0
    \/ \E row \in Visible(s.accountId) : row.id = s.lastProcessedEntryId

SnapshotsInv ==
    \A s \in snapshots \union sweep.written :
        /\ Bounded(s)
        /\ s.accountId \notin raced => Sound(s)

SeededInv ==
    \A a \in Accounts : Opening[a] > 0 => \E s \in snapshots : s.accountId = a

\* The boundary taken is a row's, the last one's unless a row came in front of
\* it, and not below an older boundary.
SavingInv ==
    sweep.phase = "saving" =>
        /\ \E row \in Visible(sweep.account) : row.id = sweep.boundary
        /\ sweep.account \notin raced =>
              \A row \in Visible(sweep.account) : row.id <= sweep.boundary
        /\ \A s \in snapshots :
              s.accountId = sweep.account => s.lastProcessedEntryId <= sweep.boundary

\* No boundary is ever taken back.
NewerInv ==
    \A w \in sweep.written : \A s \in snapshots :
        s.accountId = w.accountId => s.lastProcessedEntryId <= w.lastProcessedEntryId

\* The table has gone at least as far as s.
Reached(s) ==
    \/ s.lastProcessedEntryId = 0
    \/ \E t \in snapshots : /\ t.accountId = s.accountId
                           /\ s.lastProcessedEntryId <= t.lastProcessedEntryId

\* The snapshot a query has read may have been replaced since.
ReadInv ==
    \A c \in Queries : query[c].phase = "reading" =>
        /\ query[c].snapshot.accountId = query[c].account
        /\ query[c].account \notin raced => Sound(query[c].snapshot)
        /\ Reached(query[c].snapshot)

SumsInv == SnapshotsInv /\ SeededInv /\ SavingInv /\ NewerInv /\ ReadInv

OneRowEach == \A s, t \in snapshots : Key(s) = Key(t) => s = t

SweepInv == TypeOK /\ RowsInv /\ ConsumerInv /\ OneRowEach

-----------------------------------------------------------------------------
(* Largest elements. *)

Above(S, m) == {n \in S : n > m}

LEMMA FewestAbove ==
    ASSUME NEW S, IsFiniteSet(S), S # {}
    PROVE  \E m \in S : \A n \in S :
              Above(S, n) \subseteq Above(S, m) => Above(S, n) = Above(S, m)
<1>. DEFINE F == {Above(S, m) : m \in S}
<1>1. F \in SUBSET SUBSET S
  BY DEF Above
<1>2. F # {}
  OBVIOUS
<1>. HIDE DEF F
<1>3. PICK s \in F : \A t \in F : t \subseteq s => t = s
  BY <1>1, <1>2, SmallestSet
<1>. USE DEF F
<1>4. PICK m \in S : s = Above(S, m)
  OBVIOUS
<1>. QED  BY <1>3, <1>4

LEMMA LargestExists ==
    ASSUME NEW S \in SUBSET Nat, IsFiniteSet(S), S # {}
    PROVE  \E m \in S : \A n \in S : m >= n
<1>1. PICK m \in S : \A n \in S :
          Above(S, n) \subseteq Above(S, m) => Above(S, n) = Above(S, m)
  BY FewestAbove
<1>2. ASSUME NEW n \in S, ~(m >= n) PROVE FALSE
  <2>1. n \in Nat /\ m \in Nat /\ n > m
    BY <1>2
  <2>2. Above(S, n) \subseteq Above(S, m)
    <3>1. \A k \in S : k > n => k > m
      BY <2>1
    <3>. QED  BY <3>1 DEF Above
  <2>3. n \in Above(S, m) /\ n \notin Above(S, n)
    BY <2>1 DEF Above
  <2>. QED  BY <1>1, <2>2, <2>3
<1>. QED  BY <1>2

LEMMA MaxIs ==
    ASSUME NEW S \in SUBSET Nat, IsFiniteSet(S), S # {}
    PROVE  Max(S) \in S /\ \A n \in S : n <= Max(S)
<1>1. \E m \in S : \A n \in S : m >= n
  BY LargestExists
<1>2. Max(S) \in S /\ \A n \in S : Max(S) >= n
  BY <1>1 DEF Max
<1>. QED  BY <1>2

-----------------------------------------------------------------------------
(* Rows and their sums. *)

\* The row of a line: of one of the accounts the body touches.
LEMMA RowIs ==
    ASSUME TypeOK, RowsInv, NEW r \in Requests, NEW row \in RowsOf(r)
    PROVE  /\ row.id \in Nat \ {0}
           /\ row.accountId \in TouchedAccounts(dto[r])
           /\ row.accountId \in Accounts
           /\ row.change \in Int
<1>1. dto[r] \in Dto
  BY DtosAssumption DEF TypeOK
<1>2. dto[r].entries \in Seq(Entry)
  BY <1>1 DEF Dto
<1>3. stamped \in Seq(Days) /\ ids[r] \in Seq(DOMAIN stamped)
  BY DEF TypeOK
<1>4. /\ DOMAIN stamped = 1 .. Len(stamped) /\ Len(stamped) \in Nat
      /\ DOMAIN ids[r] = 1 .. Len(ids[r]) /\ Len(ids[r]) \in Nat
      /\ DOMAIN dto[r].entries = 1 .. Len(dto[r].entries) /\ Len(dto[r].entries) \in Nat
  BY <1>2, <1>3
<1>5. PICK k \in DOMAIN ids[r] :
          /\ row.id = ids[r][k]
          /\ row.accountId = dto[r].entries[k].accountId
          /\ row.change = Signed(dto[r].entries[k])
  BY DEF RowsOf
<1>6. k \in DOMAIN dto[r].entries
  BY <1>4 DEF RowsInv
<1>7. dto[r].entries[k] \in Entry
  BY <1>2, <1>6
<1>8. ids[r][k] \in Nat \ {0}
  <2>1. ids[r][k] \in DOMAIN stamped
    BY <1>3
  <2>. QED  BY <1>4, <2>1
<1>9. dto[r].entries[k].accountId \in TouchedAccounts(dto[r])
  BY <1>6 DEF TouchedAccounts
<1>. QED  BY <1>5, <1>7, <1>8, <1>9 DEF Entry, Signed

LEMMA VisibleIs ==
    ASSUME TypeOK, RowsInv, NEW a \in Accounts
    PROVE  /\ IsFiniteSet(Visible(a))
           /\ \A row \in Visible(a) :
                 row.id \in Nat \ {0} /\ row.accountId = a /\ row.change \in Int
BY RowIs DEF Visible, RowsInv

LEMMA SumOver ==
    ASSUME NEW S, IsFiniteSet(S), NEW A \in SUBSET S
    PROVE  Sum(A) = SumFunctionOnSet([row \in S |-> row.change], A)
<1>. DEFINE f == [row \in A |-> row.change]
            g == [row \in S |-> row.change]
<1>1. IsFiniteSet(A) /\ \A row \in A : f[row] = g[row]
  BY FS_Subset
<1>2. DOMAIN f = A
  OBVIOUS
<1>3. Sum(A) = SumFunctionOnSet(f, A)
  BY <1>2 DEF Sum, SumFunction
<1>. HIDE DEF f, g
<1>4. SumFunctionOnSet(f, A) = SumFunctionOnSet(g, A)
  BY <1>1, SumSame
<1>. QED  BY <1>3, <1>4 DEF g

LEMMA RowsSum ==
    ASSUME TypeOK, RowsInv, NEW a \in Accounts, NEW A \in SUBSET Visible(a)
    PROVE  Sum(A) \in Int
<1>1. IsFiniteSet(A) /\ \A row \in A : [r \in A |-> r.change][row] \in Int
  BY VisibleIs, FS_Subset
<1>. DEFINE f == [r \in A |-> r.change]
<1>2. Sum(A) = SumFunctionOnSet(f, A)
  BY <1>1, SumOver
<1>. HIDE DEF f
<1>. QED  BY <1>1, <1>2, SumInt DEF f

\* Rows up to a boundary and rows behind it are all rows.
LEMMA SumSplits ==
    ASSUME TypeOK, RowsInv, NEW a \in Accounts, NEW b \in Nat
    PROVE  Sum(Visible(a)) = Sum({row \in Visible(a) : row.id <= b})
                             + Sum({row \in Visible(a) : row.id > b})
<1>. DEFINE V == Visible(a)
            A == {row \in V : row.id <= b}
            B == {row \in V : row.id > b}
            f == [row \in V |-> row.change]
<1>1. /\ IsFiniteSet(V) /\ \A row \in V : row.id \in Nat /\ row.change \in Int
  BY VisibleIs
<1>2. A \in SUBSET V /\ B \in SUBSET V /\ A \union B = V /\ A \intersect B = {}
  BY <1>1
<1>3. IsFiniteSet(A) /\ IsFiniteSet(B)
  BY <1>1, <1>2, FS_Subset
<1>4. \A row \in A \union B : f[row] \in Int
  BY <1>1, <1>2
<1>. HIDE DEF V, A, B
<1>5. Sum(V) = SumFunctionOnSet(f, V) /\ Sum(A) = SumFunctionOnSet(f, A)
      /\ Sum(B) = SumFunctionOnSet(f, B)
  BY <1>1, <1>2, SumOver
<1>. HIDE DEF f
<1>6. SumFunctionOnSet(f, A \union B) = SumFunctionOnSet(f, A) + SumFunctionOnSet(f, B)
  BY <1>2, <1>3, <1>4, SumUnion
<1>. QED  BY <1>2, <1>5, <1>6 DEF V, A, B

-----------------------------------------------------------------------------
(* The latest snapshot and the sum behind it. *)

\* The snapshot a balance starts from is one of the account's, when there is one.
LEMMA LatestIs ==
    ASSUME TypeOK, NEW a \in Accounts
    PROVE  /\ Latest(a) \in Snapshot
           /\ Latest(a).accountId = a
           /\ \/ Latest(a) \in snapshots
              \/ Latest(a) = NoSnapshot(a) /\ \A s \in snapshots : s.accountId # a
<1>. DEFINE own == {s \in snapshots : s.accountId = a}
            dates == {s.snapshotDate : s \in own}
<1>1. LastDay \in Nat
  BY BoundsAssumption
<1>2. \A s \in own : s \in Snapshot /\ s.accountId = a /\ s.snapshotDate \in 0 .. LastDay
  BY <1>1 DEF TypeOK, Snapshot, Days
<1>3. CASE own = {}
  <2>1. Latest(a) = NoSnapshot(a) /\ \A s \in snapshots : s.accountId # a
    BY <1>3 DEF Latest
  <2>2. NoSnapshot(a) \in Snapshot /\ NoSnapshot(a).accountId = a
    BY OpeningAssumption DEF NoSnapshot, Seed, Snapshot
  <2>. QED  BY <2>1, <2>2
<1>4. CASE own # {}
  <2>1. dates \in SUBSET (0 .. LastDay) /\ dates # {}
    BY <1>2, <1>4
  <2>2. IsFiniteSet(0 .. LastDay)
    BY <1>1, FS_Interval
  <2>3. IsFiniteSet(dates)
    <3>. HIDE DEF dates
    <3>. QED  BY <2>1, <2>2, FS_Subset
  <2>4. dates \in SUBSET Nat
    <3>. HIDE DEF dates
    <3>. QED  BY <1>1, <2>1
  <2>5. PICK d \in dates : \A n \in dates : d >= n
    <3>. HIDE DEF dates
    <3>. QED  BY <2>1, <2>3, <2>4, LargestExists
  <2>6. \E s \in own : \A t \in own : t.snapshotDate <= s.snapshotDate
    BY <2>5
  <2>7. Latest(a) \in own
    BY <1>4, <2>6 DEF Latest
  <2>. QED  BY <1>2, <2>7
<1>. QED  BY <1>3, <1>4

LEMMA CalculatedIn ==
    ASSUME TypeOK, RowsInv, NEW a \in Accounts, NEW s \in Snapshot
    PROVE  Calculated(a, s) \in Int
<1>1. Sum({row \in Visible(a) : row.id > s.lastProcessedEntryId}) \in Int
  BY RowsSum
<1>. QED  BY <1>1 DEF Calculated, Snapshot

\* What the sweep takes for the boundary is the largest id it sees.
LEMMA BoundaryIs ==
    ASSUME TypeOK, RowsInv, NEW a \in Accounts, Visible(a) # {}
    PROVE  LET m == Max({row.id : row \in Visible(a)})
           IN  /\ m \in Nat
               /\ \A row \in Visible(a) : row.id <= m
               /\ \E row \in Visible(a) : row.id = m
<1>. DEFINE V == Visible(a)
            S == {row.id : row \in V}
<1>1. S \in SUBSET Nat /\ S # {}
  BY VisibleIs
<1>2. IsFiniteSet(V)
  BY VisibleIs
<1>3. IsFiniteSet(S)
  <2>. DEFINE f == [row \in V |-> row.id]
  <2>1. f \in Surjection(V, S)
    BY DEF Surjection
  <2>. HIDE DEF V, S, f
  <2>. QED  BY <1>2, <2>1, FS_Surjection
<1>4. Max(S) \in S /\ \A n \in S : n <= Max(S)
  <2>. HIDE DEF S
  <2>. QED  BY <1>1, <1>3, MaxIs
<1>. QED  BY <1>1, <1>4

-----------------------------------------------------------------------------
(* What each step does to the rows that are seen. *)

LEMMA SameRows ==
    ASSUME UNCHANGED <<dto, pc, ids>>, NEW a \in Accounts
    PROVE  Visible(a)' = Visible(a)
BY DEF Visible, RowsOf

LEMMA RowsAfterCreate ==
    ASSUME TypeOK, NEW r \in Requests, CreateEntry(r), NEW a \in Accounts
    PROVE  Visible(a)' = Visible(a)
<1>. DEFINE Seen == {s \in Requests : pc[s] = "committed"}
<1>1. \A s \in Seen : RowsOf(s)' = RowsOf(s)
  BY DEF CreateEntry, RowsOf, TypeOK
<1>2. Seen' = Seen
  BY DEF CreateEntry
<1>. QED  BY <1>1, <1>2 DEF Visible

LEMMA RowsAfterAbort ==
    ASSUME TypeOK, NEW r \in Requests, Abort(r), NEW a \in Accounts
    PROVE  Visible(a)' = Visible(a)
<1>. DEFINE Seen == {s \in Requests : pc[s] = "committed"}
<1>1. \A s \in Requests : RowsOf(s)' = RowsOf(s)
  BY DEF Abort, RowsOf
<1>2. Seen' = Seen
  BY DEF Abort, TypeOK
<1>. QED  BY <1>1, <1>2 DEF Visible

LEMMA RowsAfterCommit ==
    ASSUME TypeOK, NEW r \in Requests, Commit(r), NEW a \in Accounts
    PROVE  Visible(a)' = Visible(a) \union {row \in RowsOf(r) : row.accountId = a}
<1>. DEFINE Seen == {s \in Requests : pc[s] = "committed"}
<1>1. \A s \in Requests : RowsOf(s)' = RowsOf(s)
  BY DEF Commit, RowsOf
<1>2. Seen' = Seen \union {r}
  BY DEF Commit, TypeOK
<1>. QED  BY <1>1, <1>2 DEF Visible

LEMMA RowsStay ==
    ASSUME TypeOK, [Next]_vars, NEW a \in Accounts
    PROVE  Visible(a) \subseteq Visible(a)'
<1>1. ASSUME NEW r \in Requests, CreateEntry(r) \/ Commit(r) \/ Abort(r)
      PROVE  Visible(a) \subseteq Visible(a)'
  BY <1>1, RowsAfterCreate, RowsAfterCommit, RowsAfterAbort
<1>2. CASE UNCHANGED <<dto, pc, ids>>
  BY <1>2, SameRows
<1>3. CASE ~ UNCHANGED <<dto, pc, ids>>
  BY <1>1, <1>3 DEF Next, vars, NextDay, Consume, Deliver, OpenSweep,
     ReadBoundary, SaveSnapshot, CommitSweep, Ack, Crash, FailSweep,
     ReadSnapshot, SumEntries
<1>. QED  BY <1>2, <1>3

-----------------------------------------------------------------------------
(* SweepInv holds at the start and after every step. *)

LEMMA SweepInvInit == Init => SweepInv
<1>. SUFFICES ASSUME Init PROVE SweepInv
  OBVIOUS
<1>1. \A a \in Accounts : NoSnapshot(a) \in Snapshot /\ Seed(a) \in Snapshot
  BY OpeningAssumption DEF NoSnapshot, Seed, Snapshot
<1>2. TypeOK
  BY <1>1, BoundsAssumption, CopiesAssumption
     DEF Init, TypeOK, Days, NoSweep, SweepPhase
<1>3. RowsInv
  <2>1. \A r \in Requests : Len(ids[r]) <= Len(dto[r].entries)
    <3>. SUFFICES ASSUME NEW r \in Requests
                  PROVE  Len(ids[r]) <= Len(dto[r].entries)
      OBVIOUS
    <3>1. dto[r].entries \in Seq(Entry)
      BY <1>2, DtosAssumption DEF TypeOK, Dto
    <3>2. Len(dto[r].entries) \in Nat /\ Len(ids[r]) = 0
      BY <3>1 DEF Init
    <3>. QED  BY <3>2
  <2>2. \A a \in Accounts : Visible(a) = {}
    BY DEF Init, Visible
  <2>. QED  BY <2>1, <2>2, FS_EmptySet DEF RowsInv
<1>4. ConsumerInv
  BY DEF Init, ConsumerInv, NoSweep
<1>5. OneRowEach
  BY DEF Init, OneRowEach, Seed, Key
<1>. QED  BY <1>2, <1>3, <1>4, <1>5 DEF SweepInv

LEMMA TypeRequests ==
    ASSUME TypeOK, RowsInv, NEW r \in Requests,
           CreateEntry(r) \/ Commit(r) \/ Abort(r)
    PROVE  TypeOK'
<1>1. CASE CreateEntry(r)
  <2>1. stamped' \in Seq(Days) /\ Len(stamped') = Len(stamped) + 1
    BY <1>1 DEF CreateEntry, TypeOK
  <2>2. Len(stamped) \in Nat
    BY DEF TypeOK
  <2>3. DOMAIN stamped = 1 .. Len(stamped) /\ DOMAIN stamped' = 1 .. (Len(stamped) + 1)
    BY <2>1, <2>2 DEF TypeOK
  <2>4. DOMAIN stamped \subseteq DOMAIN stamped' /\ Len(stamped) + 1 \in DOMAIN stamped'
    BY <2>2, <2>3
  <2>5. \A s \in Requests : ids[s] \in Seq(DOMAIN stamped')
    <3>. SUFFICES ASSUME NEW s \in Requests PROVE ids[s] \in Seq(DOMAIN stamped')
      OBVIOUS
    <3>1. ids[s] \in Seq(DOMAIN stamped)
      BY DEF TypeOK
    <3>. HIDE <2>3
    <3>. QED  BY <2>4, <3>1
  <2>6. ids' \in [Requests -> Seq(DOMAIN stamped')]
    <3>1. Append(ids[r], Len(stamped) + 1) \in Seq(DOMAIN stamped')
      <4>. HIDE DEF CreateEntry
      <4>. QED  BY <2>4, <2>5
    <3>2. ids' = [ids EXCEPT ![r] = Append(ids[r], Len(stamped) + 1)]
      BY <1>1 DEF CreateEntry
    <3>. QED  BY <2>5, <3>1, <3>2 DEF TypeOK
  <2>. QED  BY <1>1, <2>1, <2>6 DEF CreateEntry, TypeOK
<1>2. CASE Commit(r)
  <2>1. \A row \in RowsOf(r) : row.accountId \in Accounts
    BY RowIs
  <2>2. raced' \subseteq Accounts
    BY <1>2, <2>1 DEF Commit, TypeOK
  <2>. QED  BY <1>2, <2>2 DEF Commit, TypeOK
<1>3. CASE Abort(r)
  BY <1>3 DEF Abort, TypeOK
<1>. QED  BY <1>1, <1>2, <1>3

LEMMA TypeQueries ==
    ASSUME TypeOK, RowsInv, NEW q \in Queries, ReadSnapshot(q) \/ SumEntries(q)
    PROVE  TypeOK'
<1>1. query[q].account \in Accounts /\ query[q].snapshot \in Snapshot
  BY DEF TypeOK
<1>2. Latest(query[q].account) \in Snapshot
  BY <1>1, LatestIs
<1>3. Calculated(query[q].account, query[q].snapshot) \in Int
  BY <1>1, CalculatedIn
<1>. DEFINE Query == [phase : {"new", "reading", "answered"}, account : Accounts,
                      snapshot : Snapshot, balance : Int]
<1>4. query \in [Queries -> Query]
  BY DEF TypeOK
<1>5. CASE ReadSnapshot(q)
  <2>1. [query[q] EXCEPT !.phase = "reading",
                         !.snapshot = Latest(query[q].account)] \in Query
    BY <1>2, <1>4
  <2>2. query' = [query EXCEPT ![q] =
                     [query[q] EXCEPT !.phase = "reading",
                                      !.snapshot = Latest(query[q].account)]]
    BY <1>4, <1>5 DEF ReadSnapshot
  <2>3. query' \in [Queries -> Query]
    <3>. HIDE DEF Query
    <3>. QED  BY <1>4, <2>1, <2>2
  <2>. QED  BY <1>5, <2>3 DEF ReadSnapshot, TypeOK
<1>6. CASE SumEntries(q)
  <2>. DEFINE sum == Calculated(query[q].account, query[q].snapshot)
  <2>1. [query[q] EXCEPT !.phase = "answered", !.balance = sum] \in Query
    BY <1>3, <1>4
  <2>2. query' = [query EXCEPT ![q] =
                     [query[q] EXCEPT !.phase = "answered", !.balance = sum]]
    BY <1>4, <1>6 DEF SumEntries
  <2>3. query' \in [Queries -> Query]
    <3>. HIDE DEF Query
    <3>. QED  BY <1>4, <2>1, <2>2
  <2>. QED  BY <1>6, <2>3 DEF SumEntries, TypeOK
<1>. QED  BY <1>5, <1>6

SweepRecord ==
    [phase : SweepPhase, event : Events \union {NoEvent}, todo : SUBSET Accounts,
     account : Accounts \union {NoAccount}, boundary : Nat, written : SUBSET Snapshot]

\* The row a sweep writes.
RowWritten ==
    [accountId |-> sweep.account, snapshotDate |-> DateOf[sweep.event],
     balancePaise |-> Calculated(sweep.account, Latest(sweep.account)),
     lastProcessedEntryId |-> sweep.boundary]

LEMMA RowWrittenIn ==
    ASSUME SweepInv, sweep.phase = "saving"
    PROVE  sweep.account \in Accounts /\ RowWritten \in Snapshot
<1>1. sweep \in SweepRecord
  BY DEF SweepInv, TypeOK, SweepRecord
<1>2. sweep.account \in Accounts /\ sweep.event \in Events /\ sweep.boundary \in Nat
  BY <1>1 DEF SweepInv, ConsumerInv, SweepRecord
<1>3. Calculated(sweep.account, Latest(sweep.account)) \in Int
  BY <1>2, LatestIs, CalculatedIn DEF SweepInv
<1>4. DateOf[sweep.event] \in Days
  BY <1>2, DatesAssumption DEF Days
<1>. QED  BY <1>2, <1>3, <1>4 DEF RowWritten, Snapshot

LEMMA NoSweepIn == NoSweep \in SweepRecord
BY DEF NoSweep, SweepRecord, SweepPhase

LEMMA TypeConsumer ==
    ASSUME SweepInv, Consume \/ Crash \/ FailSweep
    PROVE  TypeOK'
<1>. USE DEF SweepInv
<1>1. /\ sweep \in SweepRecord
      /\ sweep.phase # "idle" => sweep.event \in Events
  BY DEF TypeOK, SweepRecord, ConsumerInv
<1>2. ASSUME NEW e \in Events, Deliver(e) PROVE TypeOK'
  <2>1. sweep' \in SweepRecord
    BY <1>2 DEF Deliver, NoSweep, SweepRecord, SweepPhase
  <2>2. waiting' \in [Events -> Nat]
    BY <1>2 DEF Deliver, TypeOK
  <2>. QED  BY <1>2, <2>1, <2>2 DEF Deliver, TypeOK, SweepRecord
<1>3. CASE OpenSweep
  <2>1. sweep' \in SweepRecord
    BY <1>1, <1>3, NoSweepIn DEF OpenSweep, WithEntries, SweepRecord, SweepPhase
  <2>2. dead' \subseteq Events
    BY <1>1, <1>3 DEF OpenSweep, TypeOK
  <2>. QED  BY <1>3, <2>1, <2>2 DEF OpenSweep, TypeOK, SweepRecord
<1>4. ASSUME NEW a \in Accounts, ReadBoundary(a) PROVE TypeOK'
  <2>. DEFINE m == Max({row.id : row \in Visible(a)})
  <2>1. Visible(a) # {}
    BY <1>4 DEF ReadBoundary, ConsumerInv
  <2>2. m \in Nat
    BY <2>1, BoundaryIs
  <2>3. sweep' = [sweep EXCEPT !.phase = "saving", !.account = a, !.boundary = m]
    BY <1>4 DEF ReadBoundary
  <2>. HIDE DEF m
  <2>4. sweep' \in SweepRecord
    BY <1>1, <2>2, <2>3 DEF SweepRecord, SweepPhase
  <2>. QED  BY <1>4, <2>4 DEF ReadBoundary, TypeOK, SweepRecord
<1>5. CASE SaveSnapshot
  <2>1. sweep.account \in Accounts /\ RowWritten \in Snapshot
    BY <1>5, RowWrittenIn DEF SaveSnapshot
  <2>2. sweep.phase = "saving"
    BY <1>5 DEF SaveSnapshot
  <2>3. \/ /\ sweep' = [sweep EXCEPT !.phase = "sweeping",
                                     !.todo = @ \ {sweep.account},
                                     !.account = NoAccount,
                                     !.boundary = 0,
                                     !.written = @ \union {RowWritten}]
           /\ dead' = dead
        \/ /\ sweep' = NoSweep
           /\ dead' = dead \union {sweep.event}
    BY <1>5 DEF SaveSnapshot, RowWritten
  <2>4. sweep' \in SweepRecord
    <3>1. /\ sweep.todo \ {sweep.account} \in SUBSET Accounts
          /\ sweep.written \union {RowWritten} \in SUBSET Snapshot
      BY <1>1, <2>1 DEF SweepRecord
    <3>2. [sweep EXCEPT !.phase = "sweeping",
                        !.todo = @ \ {sweep.account},
                        !.account = NoAccount,
                        !.boundary = 0,
                        !.written = @ \union {RowWritten}] \in SweepRecord
      BY <1>1, <3>1 DEF SweepRecord, SweepPhase
    <3>. QED  BY <2>3, <3>2, NoSweepIn
  <2>5. dead' \subseteq Events
    BY <1>1, <2>2, <2>3 DEF TypeOK
  <2>. QED  BY <1>5, <2>4, <2>5 DEF SaveSnapshot, TypeOK, SweepRecord
<1>6. CASE CommitSweep
  <2>1. sweep' \in SweepRecord
    BY <1>1, <1>6 DEF CommitSweep, NoSweep, SweepRecord, SweepPhase
  <2>2. sweep.event \in Events /\ sweep.written \subseteq Snapshot
    BY <1>1, <1>6 DEF CommitSweep, SweepRecord
  <2>3. snapshots' \subseteq Snapshot /\ inbox' \subseteq Events
    BY <1>6, <2>2 DEF CommitSweep, Upsert, TypeOK
  <2>. QED  BY <1>6, <2>1, <2>3 DEF CommitSweep, TypeOK, SweepRecord
<1>7. CASE Ack
  BY <1>7, NoSweepIn DEF Ack, TypeOK, SweepRecord
<1>8. CASE Crash
  <2>1. waiting' \in [Events -> Nat]
    BY <1>1, <1>8 DEF Crash, TypeOK
  <2>2. crashes' \in 0 .. MaxCrashes
    BY <1>8, BoundsAssumption DEF Crash, TypeOK
  <2>. QED  BY <1>8, <2>1, <2>2, NoSweepIn DEF Crash, TypeOK, SweepRecord
<1>9. CASE FailSweep
  <2>1. dead' \subseteq Events
    BY <1>1, <1>9 DEF FailSweep, TypeOK
  <2>2. failures' \in 0 .. MaxFailures
    BY <1>9, BoundsAssumption DEF FailSweep, TypeOK
  <2>. QED  BY <1>9, <2>1, <2>2, NoSweepIn DEF FailSweep, TypeOK, SweepRecord
<1>. QED
  BY <1>2, <1>3, <1>4, <1>5, <1>6, <1>7, <1>8, <1>9 DEF Consume

LEMMA TypeStep == SweepInv /\ [Next]_vars => TypeOK'
<1>. SUFFICES ASSUME SweepInv, [Next]_vars PROVE TypeOK'
  OBVIOUS
<1>. USE DEF SweepInv
<1>1. CASE NextDay
  BY <1>1, BoundsAssumption DEF NextDay, TypeOK, Days
<1>2. CASE UNCHANGED vars
  BY <1>2 DEF vars, TypeOK
<1>. QED
  BY <1>1, <1>2, TypeRequests, TypeQueries, TypeConsumer DEF Next

LEMMA RowsOfFinite ==
    ASSUME TypeOK, NEW r \in Requests
    PROVE  IsFiniteSet(RowsOf(r))
<1>. DEFINE D == DOMAIN ids[r]
            R == RowsOf(r)
            f == [k \in D |-> [id |-> ids[r][k],
                               accountId |-> dto[r].entries[k].accountId,
                               change |-> Signed(dto[r].entries[k])]]
<1>1. D = 1 .. Len(ids[r]) /\ Len(ids[r]) \in Nat
  BY DEF TypeOK
<1>2. IsFiniteSet(D)
  <2>. HIDE DEF D
  <2>. QED  BY <1>1, FS_Interval
<1>3. f \in Surjection(D, R)
  BY DEF RowsOf, Surjection
<1>. HIDE DEF D, R, f
<1>4. IsFiniteSet(R)
  BY <1>2, <1>3, FS_Surjection
<1>. QED  BY <1>4 DEF R

LEMMA RowsStep == SweepInv /\ [Next]_vars => RowsInv'
<1>. SUFFICES ASSUME SweepInv, [Next]_vars PROVE RowsInv'
  OBVIOUS
<1>. USE DEF SweepInv
<1>1. CASE UNCHANGED <<dto, pc, ids>>
  <2>1. \A a \in Accounts : Visible(a)' = Visible(a)
    BY <1>1, SameRows
  <2>2. \A r \in Requests : Len(ids'[r]) <= Len(dto'[r].entries)
    BY <1>1 DEF RowsInv
  <2>3. \A a \in Accounts : IsFiniteSet(Visible(a)')
    BY <2>1 DEF RowsInv
  <2>. QED  BY <2>2, <2>3 DEF RowsInv
<1>2. ASSUME NEW r \in Requests, CreateEntry(r) PROVE RowsInv'
  <2>1. \A a \in Accounts : Visible(a)' = Visible(a)
    BY <1>2, RowsAfterCreate
  <2>2. ASSUME NEW s \in Requests PROVE Len(ids'[s]) <= Len(dto'[s].entries)
    <3>1. Len(dto[s].entries) \in Nat
      BY DtosAssumption DEF TypeOK, Dto
    <3>2. ids[s] \in Seq(DOMAIN stamped) /\ Len(ids[s]) \in Nat
      BY DEF TypeOK
    <3>3. CASE s = r
      <4>1. ids'[s] = Append(ids[s], Len(stamped) + 1)
        BY <1>2, <3>3 DEF CreateEntry, TypeOK
      <4>2. Len(ids'[s]) = Len(ids[s]) + 1
        BY <3>2, <4>1
      <4>. QED  BY <1>2, <3>1, <3>2, <3>3, <4>2 DEF CreateEntry
    <3>4. CASE s # r
      BY <1>2, <3>4 DEF CreateEntry, TypeOK, RowsInv
    <3>. QED  BY <3>3, <3>4
  <2>3. \A a \in Accounts : IsFiniteSet(Visible(a)')
    BY <2>1 DEF RowsInv
  <2>. QED  BY <2>2, <2>3 DEF RowsInv
<1>3. ASSUME NEW r \in Requests, Commit(r) PROVE RowsInv'
  <2>1. ASSUME NEW a \in Accounts PROVE IsFiniteSet(Visible(a)')
    <3>. DEFINE New == {row \in RowsOf(r) : row.accountId = a}
    <3>1. Visible(a)' = Visible(a) \union New
      BY <1>3, RowsAfterCommit
    <3>2. IsFiniteSet(RowsOf(r)) /\ IsFiniteSet(Visible(a))
      BY RowsOfFinite DEF RowsInv
    <3>3. New \in SUBSET RowsOf(r)
      OBVIOUS
    <3>. HIDE DEF New
    <3>4. IsFiniteSet(New)
      BY <3>2, <3>3, FS_Subset
    <3>5. IsFiniteSet(Visible(a) \union New)
      BY <3>2, <3>4, FS_Union
    <3>. QED  BY <3>1, <3>5
  <2>2. \A s \in Requests : Len(ids'[s]) <= Len(dto'[s].entries)
    BY <1>3 DEF Commit, RowsInv
  <2>. QED  BY <2>1, <2>2 DEF RowsInv
<1>4. ASSUME NEW r \in Requests, Abort(r) PROVE RowsInv'
  <2>1. \A a \in Accounts : Visible(a)' = Visible(a)
    BY <1>4, RowsAfterAbort
  <2>2. \A s \in Requests : Len(ids'[s]) <= Len(dto'[s].entries)
    BY <1>4 DEF Abort, RowsInv
  <2>3. \A a \in Accounts : IsFiniteSet(Visible(a)')
    BY <2>1 DEF RowsInv
  <2>. QED  BY <2>2, <2>3 DEF RowsInv
<1>5. \/ UNCHANGED <<dto, pc, ids>>
      \/ \E r \in Requests : CreateEntry(r) \/ Commit(r) \/ Abort(r)
  BY DEF Next, vars, NextDay, Consume, Deliver, OpenSweep, ReadBoundary,
     SaveSnapshot, CommitSweep, Ack, Crash, FailSweep, ReadSnapshot, SumEntries
<1>. QED  BY <1>1, <1>2, <1>3, <1>4, <1>5

LEMMA OneRowStep == SweepInv /\ [Next]_vars => OneRowEach'
<1>. SUFFICES ASSUME SweepInv, [Next]_vars PROVE OneRowEach'
  OBVIOUS
<1>. USE DEF SweepInv
<1>1. CASE snapshots' = snapshots
  BY <1>1 DEF OneRowEach, Key
<1>2. CASE CommitSweep
  <2>1. snapshots' = Upsert(snapshots, sweep.written)
    BY <1>2 DEF CommitSweep
  <2>2. \A s, t \in sweep.written : Key(s) = Key(t) => s = t
    BY DEF ConsumerInv, Key
  <2>. QED  BY <2>1, <2>2 DEF Upsert, OneRowEach, Key
<1>3. snapshots' = snapshots \/ CommitSweep
  BY DEF Next, vars, NextDay, CreateEntry, Commit, Abort, Consume, Deliver,
     OpenSweep, ReadBoundary, SaveSnapshot, Ack, Crash, FailSweep,
     ReadSnapshot, SumEntries
<1>. QED  BY <1>1, <1>2, <1>3

LEMMA ConsumerStep == SweepInv /\ [Next]_vars => ConsumerInv'
<1>. SUFFICES ASSUME SweepInv, [Next]_vars PROVE ConsumerInv'
  OBVIOUS
<1>. USE DEF SweepInv
<1>1. /\ sweep \in SweepRecord
      /\ sweep.todo \subseteq Accounts
  BY DEF TypeOK, SweepRecord
<1>2. \A a \in Accounts : Visible(a) # {} => Visible(a)' # {}
  BY RowsStay
<1>3. CASE UNCHANGED <<sweep, inbox>>
  BY <1>1, <1>2, <1>3 DEF ConsumerInv
<1>4. CASE sweep' = NoSweep
  BY <1>4 DEF ConsumerInv, NoSweep
<1>5. ASSUME NEW e \in Events, Deliver(e) PROVE ConsumerInv'
  BY <1>5 DEF Deliver, NoSweep, ConsumerInv
<1>6. CASE OpenSweep /\ sweep.event \notin inbox
  <2>1. /\ sweep' = [sweep EXCEPT !.phase = "sweeping", !.todo = WithEntries]
        /\ inbox' = inbox
        /\ sweep.phase = "delivered"
    BY <1>6 DEF OpenSweep
  <2>2. /\ sweep'.phase = "sweeping"
        /\ sweep'.todo = WithEntries
        /\ sweep'.event = sweep.event
        /\ sweep'.account = sweep.account
        /\ sweep'.written = sweep.written
    BY <1>1, <2>1 DEF SweepRecord
  <2>3. \A a \in sweep'.todo : Visible(a)' # {}
    BY <1>2, <2>2 DEF WithEntries
  <2>. QED  BY <1>6, <2>1, <2>2, <2>3 DEF ConsumerInv
<1>7. ASSUME NEW a \in Accounts, ReadBoundary(a) PROVE ConsumerInv'
  <2>. DEFINE m == Max({row.id : row \in Visible(a)})
  <2>1. /\ sweep' = [sweep EXCEPT !.phase = "saving", !.account = a, !.boundary = m]
        /\ inbox' = inbox
        /\ sweep.phase = "sweeping"
        /\ a \in sweep.todo
    BY <1>7 DEF ReadBoundary
  <2>. HIDE DEF m
  <2>2. /\ sweep'.phase = "saving"
        /\ sweep'.todo = sweep.todo
        /\ sweep'.event = sweep.event
        /\ sweep'.account = a
        /\ sweep'.written = sweep.written
    BY <1>1, <2>1 DEF SweepRecord
  <2>3. \A b \in sweep'.todo : Visible(b)' # {}
    BY <1>1, <1>2, <2>2 DEF ConsumerInv
  <2>. QED  BY <2>1, <2>2, <2>3 DEF ConsumerInv
<1>8. CASE SaveSnapshot /\ sweep' # NoSweep
  <2>1. /\ sweep' = [sweep EXCEPT !.phase = "sweeping",
                                  !.todo = @ \ {sweep.account},
                                  !.account = NoAccount,
                                  !.boundary = 0,
                                  !.written = @ \union {RowWritten}]
        /\ inbox' = inbox
        /\ sweep.phase = "saving"
    BY <1>8 DEF SaveSnapshot, RowWritten
  <2>2. /\ sweep'.phase = "sweeping"
        /\ sweep'.todo = sweep.todo \ {sweep.account}
        /\ sweep'.event = sweep.event
        /\ sweep'.account = NoAccount
        /\ sweep'.written = sweep.written \union {RowWritten}
    BY <1>1, <2>1 DEF SweepRecord
  <2>3. /\ RowWritten.accountId = sweep.account
        /\ RowWritten.snapshotDate = DateOf[sweep.event]
    BY DEF RowWritten
  <2>4. sweep.account \in sweep.todo /\ \A s \in sweep.written : s.accountId \notin sweep.todo
    BY <2>1 DEF ConsumerInv
  <2>5. \A b \in sweep'.todo : Visible(b)' # {}
    BY <1>1, <1>2, <2>2 DEF ConsumerInv
  <2>6. \A s \in sweep'.written :
           s.snapshotDate = DateOf[sweep'.event] /\ s.accountId \notin sweep'.todo
    BY <2>2, <2>3 DEF ConsumerInv
  <2>7. \A s, t \in sweep'.written : s.accountId = t.accountId => s = t
    BY <2>2, <2>3, <2>4 DEF ConsumerInv
  <2>. QED  BY <2>1, <2>2, <2>5, <2>6, <2>7 DEF ConsumerInv
<1>9. CASE CommitSweep
  BY <1>9 DEF CommitSweep, NoSweep, ConsumerInv
<1>10. \/ UNCHANGED <<sweep, inbox>>
       \/ sweep' = NoSweep
       \/ \E e \in Events : Deliver(e)
       \/ OpenSweep /\ sweep.event \notin inbox
       \/ \E a \in Accounts : ReadBoundary(a)
       \/ SaveSnapshot
       \/ CommitSweep
  BY DEF Next, vars, NextDay, CreateEntry, Commit, Abort, Consume, OpenSweep,
     Ack, Crash, FailSweep, ReadSnapshot, SumEntries
<1>. QED  BY <1>3, <1>4, <1>5, <1>6, <1>7, <1>8, <1>9, <1>10

\* SweepInv is inductive, whatever the requests do: it types the tables, and
\* keeps the consumer's transaction apart from them.
THEOREM SweepInvInductive == Spec => []SweepInv
<1>1. SweepInv /\ [Next]_vars => SweepInv'
  BY TypeStep, RowsStep, ConsumerStep, OneRowStep DEF SweepInv
<1>. QED  BY SweepInvInit, <1>1, PTL DEF Spec

\* A sweep event rewrites snapshots at most once, across redeliveries and a
\* crash between its commit and its ack: an event whose transaction is open is
\* not in the inbox, for only that transaction could have put it there.
THEOREM SweptOnce == Spec => EventAppliedOnce
<1>1. SweepInv /\ [Next]_vars =>
        [snapshots' # snapshots =>
            sweep.event \notin inbox /\ sweep.event \in inbox']_vars
  <2>. SUFFICES ASSUME SweepInv, [Next]_vars, snapshots' # snapshots
                PROVE  sweep.event \notin inbox /\ sweep.event \in inbox'
    OBVIOUS
  <2>1. CommitSweep
    BY DEF Next, vars, NextDay, CreateEntry, Commit, Abort, Consume, Deliver,
       OpenSweep, ReadBoundary, SaveSnapshot, Ack, Crash, FailSweep,
       ReadSnapshot, SumEntries
  <2>. QED  BY <2>1 DEF CommitSweep, SweepInv, ConsumerInv
<1>. QED
  BY SweepInvInductive, <1>1, PTL DEF Spec, EventAppliedOnce

-----------------------------------------------------------------------------
(* Snapshots as sums, for the accounts none of whose rows raced a sweep.     *)

LEMMA SoundIsActual ==
    ASSUME SweepInv, NEW s \in Snapshot, Sound(s)
    PROVE  Calculated(s.accountId, s) = Actual(s.accountId)
<1>. DEFINE V == Visible(s.accountId)
            b == s.lastProcessedEntryId
<1>1. s.accountId \in Accounts /\ b \in Nat /\ s.balancePaise \in Int
  BY DEF Snapshot
<1>2. Sum(V) = Sum({row \in V : row.id <= b}) + Sum({row \in V : row.id > b})
  BY <1>1, SumSplits DEF SweepInv
<1>3. Sum({row \in V : row.id <= b}) \in Int /\ Sum({row \in V : row.id > b}) \in Int
  BY <1>1, RowsSum DEF SweepInv
<1>4. Opening[s.accountId] \in Int
  BY <1>1, OpeningAssumption
<1>5. s.balancePaise = Opening[s.accountId] + Sum({row \in V : row.id <= b})
  BY DEF Sound
<1>6. /\ Calculated(s.accountId, s) = s.balancePaise + Sum({row \in V : row.id > b})
      /\ Actual(s.accountId) = Opening[s.accountId] + Sum(V)
  BY DEF Calculated, Actual
<1>. HIDE DEF V, b
<1>. QED  BY <1>2, <1>3, <1>4, <1>5, <1>6

LEMMA SumOfNone == Sum({}) = 0
<1>1. SumFunctionOnSet([row \in {} |-> row.change], {}) = 0
  BY SumEmpty
<1>. QED  BY <1>1, FS_EmptySet, SumOver

\* The snapshot a balance starts from, while its account has not raced.
LEMMA LatestIsSound ==
    ASSUME SweepInv, SumsInv, NEW a \in Accounts, a \notin raced
    PROVE  Sound(Latest(a))
<1>1. CASE Latest(a) \in snapshots
  BY <1>1, LatestIs DEF SumsInv, SnapshotsInv, SweepInv
<1>2. CASE Latest(a) = NoSnapshot(a) /\ \A s \in snapshots : s.accountId # a
  <2>1. Opening[a] = 0
    BY <1>2, OpeningAssumption DEF SumsInv, SeededInv
  <2>2. {row \in Visible(a) : row.id <= 0} = {}
    BY VisibleIs DEF SweepInv
  <2>3. /\ NoSnapshot(a).accountId = a
        /\ NoSnapshot(a).balancePaise = 0
        /\ NoSnapshot(a).lastProcessedEntryId = 0
    BY DEF NoSnapshot, Seed
  <2>4. {row \in Visible(NoSnapshot(a).accountId) :
            row.id <= NoSnapshot(a).lastProcessedEntryId} = {}
    BY <2>2, <2>3
  <2>5. NoSnapshot(a).balancePaise = Opening[NoSnapshot(a).accountId] + Sum({})
    BY <2>1, <2>3, SumOfNone
  <2>6. Sound(NoSnapshot(a))
    BY <2>4, <2>5 DEF Sound
  <2>. QED  BY <1>2, <2>6
<1>. QED  BY <1>1, <1>2, LatestIs DEF SweepInv

LEMMA LatestIsReached ==
    ASSUME SweepInv, NEW a \in Accounts
    PROVE  Reached(Latest(a))
<1>1. CASE Latest(a) \in snapshots
  <2>1. Latest(a).lastProcessedEntryId \in Nat
    BY <1>1, LatestIs DEF SweepInv, Snapshot
  <2>2. Latest(a).lastProcessedEntryId <= Latest(a).lastProcessedEntryId
    BY <2>1
  <2>. QED  BY <1>1, <2>2 DEF Reached
<1>2. CASE Latest(a) = NoSnapshot(a)
  BY <1>2 DEF NoSnapshot, Seed, Reached
<1>. QED  BY <1>1, <1>2, LatestIs DEF SweepInv

\* A snapshot stays a sum as long as the rows up to its boundary do not change.
LEMMA SoundStays ==
    ASSUME NEW s, Sound(s),
           {row \in Visible(s.accountId)' : row.id <= s.lastProcessedEntryId}
             = {row \in Visible(s.accountId) : row.id <= s.lastProcessedEntryId}
    PROVE  Sound(s)'
<1>1. s.balancePaise = Opening[s.accountId]
        + Sum({row \in Visible(s.accountId)' : row.id <= s.lastProcessedEntryId})
  BY DEF Sound
<1>. QED  BY <1>1 DEF Sound

LEMMA BoundedStays ==
    ASSUME NEW s, Bounded(s), Visible(s.accountId) \subseteq Visible(s.accountId)'
    PROVE  Bounded(s)'
BY DEF Bounded

LEMMA SumsInvInit == Init => SumsInv
<1>. SUFFICES ASSUME Init PROVE SumsInv
  OBVIOUS
<1>1. \A a \in Accounts : Visible(a) = {}
  BY DEF Init, Visible
<1>2. ASSUME NEW a \in Accounts PROVE Sound(Seed(a)) /\ Bounded(Seed(a))
  <2>1. /\ Seed(a).accountId = a
        /\ Seed(a).balancePaise = Opening[a]
        /\ Seed(a).lastProcessedEntryId = 0
    BY DEF Seed
  <2>2. {row \in Visible(a) : row.id <= 0} = {}
    BY <1>1
  <2>3. Opening[a] = Opening[a] + 0
    BY OpeningAssumption
  <2>. QED  BY <2>1, <2>2, <2>3, SumOfNone DEF Sound, Bounded
<1>3. SnapshotsInv
  BY <1>2 DEF Init, NoSweep, SnapshotsInv
<1>4. SeededInv
  <2>1. \A a \in Accounts : Opening[a] > 0 => Seed(a) \in snapshots
    BY DEF Init
  <2>. QED  BY <2>1 DEF Seed, SeededInv
<1>5. SavingInv /\ NewerInv
  BY DEF Init, NoSweep, SavingInv, NewerInv
<1>6. ReadInv
  BY DEF Init, ReadInv
<1>. QED  BY <1>3, <1>4, <1>5, <1>6 DEF SumsInv

\* A row that a snapshot's boundary has passed makes its account a raced one:
\* the snapshots of the others stay sums.
LEMMA SoundAfterRequest ==
    ASSUME SweepInv, NEW r \in Requests, CreateEntry(r) \/ Commit(r) \/ Abort(r),
           NEW s \in Snapshot, Sound(s), s.accountId \notin raced',
           \/ s \in snapshots \union sweep.written
           \/ Reached(s)
    PROVE  Sound(s)'
<1>. USE DEF SweepInv
<1>. DEFINE a == s.accountId
            b == s.lastProcessedEntryId
<1>1. a \in Accounts /\ b \in Nat
  BY DEF Snapshot
<1>2. CASE Visible(a)' = Visible(a)
  BY <1>2, SoundStays
<1>3. CASE Commit(r)
  <2>1. Visible(a)' = Visible(a) \union {row \in RowsOf(r) : row.accountId = a}
    BY <1>1, <1>3, RowsAfterCommit
  <2>2. ASSUME NEW row \in RowsOf(r), row.accountId = a PROVE ~(row.id <= b)
    <3>1. row.id \in Nat \ {0}
      BY RowIs
    <3>2. ~Missed(row)
      BY <1>3, <2>2 DEF Commit
    <3>3. CASE s \in snapshots \union sweep.written
      BY <2>2, <3>2, <3>3 DEF Missed
    <3>4. CASE b = 0
      BY <3>1, <3>4
    <3>5. ASSUME NEW t \in snapshots, t.accountId = a, b <= t.lastProcessedEntryId
          PROVE  ~(row.id <= b)
      <4>1. t.lastProcessedEntryId \in Nat
        BY DEF TypeOK, Snapshot
      <4>2. ~(row.id <= t.lastProcessedEntryId)
        BY <2>2, <3>2, <3>5 DEF Missed
      <4>. QED  BY <1>1, <3>1, <3>5, <4>1, <4>2
    <3>. QED  BY <3>3, <3>4, <3>5 DEF Reached
  <2>3. {row \in Visible(a)' : row.id <= b} = {row \in Visible(a) : row.id <= b}
    BY <2>1, <2>2
  <2>. QED  BY <2>3, SoundStays
<1>. QED  BY <1>1, <1>2, <1>3, RowsAfterCreate, RowsAfterAbort

LEMMA SumsRequests ==
    ASSUME SweepInv, SumsInv, NEW r \in Requests,
           CreateEntry(r) \/ Commit(r) \/ Abort(r)
    PROVE  SumsInv'
<1>. USE DEF SweepInv
<1>1. UNCHANGED <<snapshots, sweep, query>> /\ raced \subseteq raced'
  BY DEF CreateEntry, Commit, Abort
<1>2. \A a \in Accounts : Visible(a) \subseteq Visible(a)'
  BY RowsAfterCreate, RowsAfterCommit, RowsAfterAbort
<1>3. \A s \in snapshots \union sweep.written : s \in Snapshot
  BY DEF TypeOK
<1>4. SnapshotsInv'
  <2>1. ASSUME NEW s \in snapshots \union sweep.written
        PROVE  Bounded(s)' /\ (s.accountId \notin raced' => Sound(s)')
    <3>1. s \in Snapshot /\ s.accountId \in Accounts
      BY <1>3 DEF Snapshot
    <3>2. Bounded(s)'
      BY <1>2, <3>1, BoundedStays DEF SumsInv, SnapshotsInv
    <3>3. s.accountId \notin raced' => Sound(s)'
      BY <1>1, <3>1, SoundAfterRequest DEF SumsInv, SnapshotsInv
    <3>. QED  BY <3>2, <3>3
  <2>. QED  BY <1>1, <2>1 DEF SnapshotsInv
<1>5. SeededInv' /\ NewerInv'
  BY <1>1 DEF SumsInv, SeededInv, NewerInv
<1>6. SavingInv'
  <2>. SUFFICES ASSUME sweep.phase = "saving"
                PROVE  SavingInv'
    BY <1>1 DEF SavingInv
  <2>. DEFINE a == sweep.account
  <2>1. a \in Accounts /\ sweep'.account = a
    BY <1>1, RowWrittenIn
  <2>2. \E row \in Visible(a)' : row.id = sweep.boundary
    BY <1>2, <2>1 DEF SumsInv, SavingInv
  <2>3. ASSUME a \notin raced', NEW row \in Visible(a)' PROVE row.id <= sweep.boundary
    <3>1. \A seen \in Visible(a) : seen.id <= sweep.boundary
      BY <1>1, <2>3 DEF SumsInv, SavingInv
    <3>2. CASE Commit(r)
      <4>1. Visible(a)' = Visible(a) \union {w \in RowsOf(r) : w.accountId = a}
        BY <2>1, <3>2, RowsAfterCommit
      <4>2. ASSUME row \in RowsOf(r), row.accountId = a PROVE row.id <= sweep.boundary
        <5>1. ~SeenTwice(row)
          BY <2>3, <3>2, <4>2 DEF Commit
        <5>2. row.id \in Nat /\ sweep.boundary \in Nat
          BY <4>2, RowIs DEF TypeOK
        <5>. QED  BY <4>2, <5>1, <5>2 DEF SeenTwice
      <4>. QED  BY <2>3, <3>1, <4>1, <4>2
    <3>3. CASE CreateEntry(r) \/ Abort(r)
      BY <2>1, <2>3, <3>1, <3>3, RowsAfterCreate, RowsAfterAbort
    <3>. QED  BY <3>2, <3>3
  <2>4. \A s \in snapshots :
           s.accountId = a => s.lastProcessedEntryId <= sweep.boundary
    BY DEF SumsInv, SavingInv
  <2>5. Visible(sweep.account)' = Visible(a)'
    BY <1>1
  <2>. QED  BY <1>1, <2>2, <2>3, <2>4, <2>5 DEF SavingInv
<1>7. ReadInv'
  <2>1. ASSUME NEW c \in Queries, query[c].phase = "reading"
        PROVE  \E s \in Snapshot :
                  /\ s = query'[c].snapshot
                  /\ s.accountId = query'[c].account
                  /\ query'[c].account \notin raced' => Sound(s)'
                  /\ Reached(s)'
    <3>1. PICK s \in Snapshot :
             /\ s = query[c].snapshot
             /\ s.accountId = query[c].account
             /\ query[c].account \notin raced => Sound(s)
             /\ Reached(s)
      BY <2>1 DEF TypeOK, SumsInv, ReadInv
    <3>2. query[c].account \notin raced' => Sound(s)'
      BY <1>1, <3>1, SoundAfterRequest
    <3>3. Reached(s)'
      BY <1>1, <3>1 DEF Reached
    <3>4. s = query'[c].snapshot /\ query'[c] = query[c]
      BY <1>1, <3>1
    <3>. QED  BY <3>1, <3>2, <3>3, <3>4
  <2>2. ASSUME NEW c \in Queries, query'[c].phase = "reading"
        PROVE  /\ query'[c].snapshot.accountId = query'[c].account
               /\ query'[c].account \notin raced' => Sound(query[c].snapshot)'
               /\ Reached(query[c].snapshot)'
    <3>1. PICK s \in Snapshot :
             /\ s = query'[c].snapshot
             /\ s.accountId = query'[c].account
             /\ query'[c].account \notin raced' => Sound(s)'
             /\ Reached(s)'
      BY <1>1, <2>1, <2>2
    <3>2. query'[c].account \notin raced' => Sound(query[c].snapshot)'
      BY <3>1 DEF Sound
    <3>3. Reached(query[c].snapshot)'
      BY <3>1 DEF Reached
    <3>. QED  BY <3>1, <3>2, <3>3
  <2>. QED  BY <2>2 DEF ReadInv
<1>. QED  BY <1>4, <1>5, <1>6, <1>7 DEF SumsInv

\* Steps that commit no row and rewrite no snapshot keep what is a sum so.
LEMMA SumsKept ==
    ASSUME SweepInv, NEW s \in Snapshot, UNCHANGED <<dto, pc, ids>>
    PROVE  Sound(s) => Sound(s)'
<1>1. Visible(s.accountId)' = Visible(s.accountId)
  BY SameRows DEF Snapshot
<1>. QED  BY <1>1, SoundStays

LEMMA BoundsKept ==
    ASSUME SweepInv, NEW s \in Snapshot, UNCHANGED <<dto, pc, ids>>
    PROVE  Bounded(s) => Bounded(s)'
<1>1. Visible(s.accountId)' = Visible(s.accountId)
  BY SameRows DEF Snapshot
<1>. QED  BY <1>1, BoundedStays

\* What a query read stays good as long as no row appears and the table's
\* boundaries do not fall.
LEMMA ReadsKept ==
    ASSUME SweepInv, ReadInv, UNCHANGED <<dto, pc, ids, raced>>,
           \A s \in Snapshot : Reached(s) => Reached(s)',
           \A c \in Queries : query'[c] = query[c]
    PROVE  ReadInv'
<1>1. ASSUME NEW c \in Queries, query'[c].phase = "reading"
      PROVE  \E s \in Snapshot :
                /\ s = query'[c].snapshot
                /\ s.accountId = query'[c].account
                /\ query'[c].account \notin raced' => Sound(s)'
                /\ Reached(s)'
  <2>1. PICK s \in Snapshot :
           /\ s = query[c].snapshot
           /\ s.accountId = query[c].account
           /\ query[c].account \notin raced => Sound(s)
           /\ Reached(s)
    BY <1>1 DEF SweepInv, TypeOK, ReadInv
  <2>2. s = query'[c].snapshot /\ query'[c] = query[c]
    BY <2>1
  <2>3. query[c].account \notin raced => Sound(s)'
    BY <2>1, SumsKept
  <2>. QED  BY <2>1, <2>2, <2>3
<1>2. ASSUME NEW c \in Queries, query'[c].phase = "reading"
      PROVE  /\ query'[c].snapshot.accountId = query'[c].account
             /\ query'[c].account \notin raced' => Sound(query[c].snapshot)'
             /\ Reached(query[c].snapshot)'
  <2>1. PICK s \in Snapshot :
           /\ s = query'[c].snapshot
           /\ s.accountId = query'[c].account
           /\ query'[c].account \notin raced' => Sound(s)'
           /\ Reached(s)'
    BY <1>1, <1>2
  <2>2. query'[c].account \notin raced' => Sound(query[c].snapshot)'
    BY <2>1 DEF Sound
  <2>3. Reached(query[c].snapshot)'
    BY <2>1 DEF Reached
  <2>. QED  BY <2>1, <2>2, <2>3
<1>. QED  BY <1>2 DEF ReadInv

LEMMA SavingKept ==
    ASSUME SweepInv, SavingInv, UNCHANGED <<dto, pc, ids, raced, snapshots, sweep>>
    PROVE  SavingInv'
<1>1. sweep.phase = "saving" => sweep.account \in Accounts
  BY RowWrittenIn
<1>2. sweep.phase = "saving" => Visible(sweep.account)' = Visible(sweep.account)
  <2>1. \A a \in Accounts : Visible(a)' = Visible(a)
    BY SameRows
  <2>2. sweep' = sweep
    OBVIOUS
  <2>. QED  BY <1>1, <2>1, <2>2
<1>. QED  BY <1>2 DEF SavingInv

LEMMA SnapshotsKept ==
    ASSUME SweepInv, SnapshotsInv, UNCHANGED <<dto, pc, ids, raced>>,
           snapshots' \union sweep'.written \subseteq snapshots \union sweep.written
    PROVE  SnapshotsInv'
<1>1. ASSUME NEW s \in snapshots' \union sweep'.written
      PROVE  Bounded(s)' /\ (s.accountId \notin raced' => Sound(s)')
  <2>1. s \in Snapshot /\ Bounded(s) /\ (s.accountId \notin raced => Sound(s))
    BY DEF SweepInv, TypeOK, SnapshotsInv
  <2>. QED  BY <2>1, SumsKept, BoundsKept
<1>. QED  BY <1>1 DEF SnapshotsInv

LEMMA SumsQueries ==
    ASSUME SweepInv, SumsInv, NEW q \in Queries, ReadSnapshot(q) \/ SumEntries(q)
    PROVE  SumsInv'
<1>. USE DEF SweepInv
<1>1. UNCHANGED <<dto, pc, ids, snapshots, sweep, raced>>
  BY DEF ReadSnapshot, SumEntries
<1>2. SnapshotsInv' /\ SavingInv'
  BY <1>1, SnapshotsKept, SavingKept DEF SumsInv
<1>3. SeededInv' /\ NewerInv'
  BY <1>1 DEF SumsInv, SeededInv, NewerInv
<1>4. ReadInv'
  <2>1. ASSUME NEW c \in Queries, query'[c].phase = "reading"
        PROVE  \E s \in Snapshot :
                  /\ s = query'[c].snapshot
                  /\ s.accountId = query'[c].account
                  /\ query'[c].account \notin raced => Sound(s)
                  /\ Reached(s)
    <3>1. CASE query'[c] = query[c]
      BY <2>1, <3>1 DEF TypeOK, SumsInv, ReadInv
    <3>2. CASE query'[c] # query[c]
      <4>. DEFINE a == query[c].account
      <4>1. c = q /\ ReadSnapshot(q)
        BY <2>1, <3>2 DEF ReadSnapshot, SumEntries, TypeOK
      <4>2. query'[c].snapshot = Latest(a) /\ query'[c].account = a
        BY <4>1 DEF ReadSnapshot, TypeOK
      <4>3. a \in Accounts
        BY DEF TypeOK
      <4>4. Latest(a) \in Snapshot /\ Latest(a).accountId = a /\ Reached(Latest(a))
        BY <4>3, LatestIs, LatestIsReached
      <4>5. a \notin raced => Sound(Latest(a))
        BY <4>3, LatestIsSound
      <4>. QED  BY <4>2, <4>4, <4>5
    <3>. QED  BY <3>1, <3>2
  <2>2. ASSUME NEW c \in Queries, query'[c].phase = "reading"
        PROVE  /\ query'[c].snapshot.accountId = query'[c].account
               /\ query'[c].account \notin raced' => Sound(query[c].snapshot)'
               /\ Reached(query[c].snapshot)'
    <3>1. PICK s \in Snapshot :
             /\ s = query'[c].snapshot
             /\ s.accountId = query'[c].account
             /\ query'[c].account \notin raced => Sound(s)
             /\ Reached(s)
      BY <2>1, <2>2
    <3>2. query'[c].account \notin raced' => Sound(s)'
      BY <1>1, <3>1, SumsKept
    <3>3. Reached(s)'
      BY <1>1, <3>1 DEF Reached
    <3>4. query'[c].account \notin raced' => Sound(query[c].snapshot)'
      BY <3>1, <3>2 DEF Sound
    <3>5. Reached(query[c].snapshot)'
      BY <3>1, <3>3 DEF Reached
    <3>. QED  BY <3>1, <3>4, <3>5
  <2>. QED  BY <2>2 DEF ReadInv
<1>. QED  BY <1>2, <1>3, <1>4 DEF SumsInv

\* What a sweep writes: the sum of the account's rows, as it starts from a sound
\* snapshot and its boundary is the largest id seen, if the account has not
\* raced; and at or behind it is whatever an older boundary passed.
LEMMA RowWrittenIsSound ==
    ASSUME SweepInv, SumsInv, sweep.phase = "saving"
    PROVE  /\ Bounded(RowWritten)
           /\ RowWritten.accountId \notin raced => Sound(RowWritten)
           /\ \A s \in snapshots :
                 s.accountId = RowWritten.accountId =>
                     s.lastProcessedEntryId <= RowWritten.lastProcessedEntryId
<1>. DEFINE a == sweep.account
            V == Visible(a)
<1>1. a \in Accounts /\ RowWritten \in Snapshot
  BY RowWrittenIn
<1>2. /\ RowWritten.accountId = a
      /\ RowWritten.lastProcessedEntryId = sweep.boundary
      /\ RowWritten.balancePaise = Calculated(a, Latest(a))
  BY DEF RowWritten
<1>3. ASSUME a \notin raced PROVE Sound(RowWritten)
  <2>1. Latest(a) \in Snapshot /\ Latest(a).accountId = a /\ Sound(Latest(a))
    BY <1>1, <1>3, LatestIs, LatestIsSound DEF SweepInv
  <2>2. Calculated(a, Latest(a)) = Opening[a] + Sum(V)
    BY <2>1, SoundIsActual DEF Actual
  <2>3. {row \in V : row.id <= sweep.boundary} = V
    BY <1>3 DEF SumsInv, SavingInv
  <2>. QED  BY <1>2, <2>2, <2>3 DEF Sound
<1>4. Bounded(RowWritten)
  BY <1>2 DEF SumsInv, SavingInv, Bounded
<1>5. \A s \in snapshots : s.accountId = a => s.lastProcessedEntryId <= sweep.boundary
  BY DEF SumsInv, SavingInv
<1>. QED  BY <1>2, <1>3, <1>4, <1>5

LEMMA SumsBoundary ==
    ASSUME SweepInv, SumsInv, NEW a \in Accounts, ReadBoundary(a)
    PROVE  SumsInv'
<1>. USE DEF SweepInv
<1>. DEFINE m == Max({row.id : row \in Visible(a)})
<1>1. Visible(a) # {}
  BY DEF ReadBoundary, ConsumerInv
<1>2. /\ m \in Nat
      /\ \A row \in Visible(a) : row.id <= m
      /\ \E row \in Visible(a) : row.id = m
  BY <1>1, BoundaryIs
<1>3. /\ sweep' = [sweep EXCEPT !.phase = "saving", !.account = a, !.boundary = m]
      /\ UNCHANGED <<dto, pc, ids, snapshots, query, raced>>
  BY DEF ReadBoundary
<1>. HIDE DEF m
<1>4. /\ sweep'.phase = "saving" /\ sweep'.account = a
      /\ sweep'.boundary = m /\ sweep'.written = sweep.written
  <2>1. sweep \in SweepRecord
    BY DEF TypeOK, SweepRecord
  <2>. QED  BY <1>3, <2>1 DEF SweepRecord
<1>5. \A b \in Accounts : Visible(b)' = Visible(b)
  BY <1>3, SameRows
<1>6. SnapshotsInv'
  BY <1>3, <1>4, SnapshotsKept DEF SumsInv
<1>7. SeededInv' /\ NewerInv'
  BY <1>3, <1>4 DEF SumsInv, SeededInv, NewerInv
<1>8. ReadInv'
  BY <1>3, ReadsKept DEF SumsInv, Reached
<1>9. SavingInv'
  <2>1. Visible(sweep.account)' = Visible(a)
    BY <1>4, <1>5
  <2>2. ASSUME NEW s \in snapshots, s.accountId = a
        PROVE  s.lastProcessedEntryId <= m
    <3>1. Bounded(s)
      BY DEF SumsInv, SnapshotsInv
    <3>2. CASE s.lastProcessedEntryId = 0
      BY <1>2, <3>2
    <3>3. CASE \E row \in Visible(a) : row.id = s.lastProcessedEntryId
      BY <1>2, <3>3
    <3>. QED  BY <2>2, <3>1, <3>2, <3>3 DEF Bounded
  <2>. QED  BY <1>2, <1>3, <1>4, <2>1, <2>2 DEF SavingInv
<1>. QED  BY <1>6, <1>7, <1>8, <1>9 DEF SumsInv

LEMMA SumsSave == ASSUME SweepInv, SumsInv, SaveSnapshot PROVE SumsInv'
<1>. USE DEF SweepInv
<1>1. /\ sweep.phase = "saving"
      /\ UNCHANGED <<dto, pc, ids, snapshots, query, raced>>
  BY DEF SaveSnapshot
<1>2. RowWritten \in Snapshot
  BY <1>1, RowWrittenIn
<1>3. /\ Bounded(RowWritten)
      /\ RowWritten.accountId \notin raced => Sound(RowWritten)
      /\ \A s \in snapshots :
            s.accountId = RowWritten.accountId =>
                s.lastProcessedEntryId <= RowWritten.lastProcessedEntryId
  BY <1>1, RowWrittenIsSound
<1>4. /\ sweep'.phase # "saving"
      /\ sweep'.written \subseteq sweep.written \union {RowWritten}
  <2>0. sweep \in SweepRecord
    BY DEF TypeOK, SweepRecord
  <2>1. \/ sweep' = [sweep EXCEPT !.phase = "sweeping",
                                  !.todo = @ \ {sweep.account},
                                  !.account = NoAccount,
                                  !.boundary = 0,
                                  !.written = @ \union {RowWritten}]
        \/ sweep' = NoSweep
    BY DEF SaveSnapshot, RowWritten
  <2>2. NoSweep.phase # "saving" /\ NoSweep.written = {}
    BY DEF NoSweep
  <2>3. CASE sweep' # NoSweep
    <3>1. sweep'.phase = "sweeping"
      BY <2>0, <2>1, <2>3 DEF SweepRecord
    <3>2. sweep'.written = sweep.written \union {RowWritten}
      BY <2>0, <2>1, <2>3 DEF SweepRecord
    <3>. QED  BY <3>1, <3>2
  <2>. QED  BY <2>2, <2>3
<1>5. SnapshotsInv'
  <2>1. ASSUME NEW s \in snapshots' \union sweep'.written
        PROVE  Bounded(s)' /\ (s.accountId \notin raced' => Sound(s)')
    <3>1. s \in snapshots \union sweep.written \/ s = RowWritten
      BY <1>1, <1>4
    <3>2. PICK t \in Snapshot :
             t = s /\ Bounded(t) /\ (t.accountId \notin raced => Sound(t))
      BY <1>2, <1>3, <3>1 DEF TypeOK, SumsInv, SnapshotsInv
    <3>3. Bounded(t)' /\ (t.accountId \notin raced' => Sound(t)')
      BY <1>1, <3>2, SumsKept, BoundsKept
    <3>. QED  BY <3>2, <3>3
  <2>. QED  BY <2>1 DEF SnapshotsInv
<1>6. NewerInv'
  BY <1>1, <1>3, <1>4 DEF SumsInv, NewerInv
<1>7. SeededInv' /\ SavingInv'
  BY <1>1, <1>4 DEF SumsInv, SeededInv, SavingInv
<1>8. ReadInv'
  BY <1>1, ReadsKept DEF SumsInv, Reached
<1>. QED  BY <1>5, <1>6, <1>7, <1>8 DEF SumsInv

\* The rows written replace those of their date, which reached less far.
LEMMA SumsCommit == ASSUME SweepInv, SumsInv, CommitSweep PROVE SumsInv'
<1>. USE DEF SweepInv
<1>1. /\ snapshots' = Upsert(snapshots, sweep.written)
      /\ UNCHANGED <<dto, pc, ids, query, raced>>
      /\ sweep'.phase # "saving" /\ sweep'.written = {}
  BY DEF CommitSweep, NoSweep
<1>2. snapshots' \subseteq snapshots \union sweep.written
  BY <1>1 DEF Upsert
<1>3. SnapshotsInv'
  BY <1>1, <1>2, SnapshotsKept DEF SumsInv
<1>4. ASSUME NEW t \in snapshots
      PROVE  \E u \in snapshots' : /\ u.accountId = t.accountId
                                   /\ t.lastProcessedEntryId <= u.lastProcessedEntryId
  <2>1. t.lastProcessedEntryId \in Nat
    BY DEF TypeOK, Snapshot
  <2>2. CASE t \in snapshots'
    BY <2>1, <2>2
  <2>3. CASE t \notin snapshots'
    <3>1. PICK w \in sweep.written : Key(w) = Key(t)
      BY <1>1, <2>3 DEF Upsert
    <3>2. w \in snapshots' /\ w.accountId = t.accountId
      BY <1>1, <3>1 DEF Upsert, Key
    <3>3. t.lastProcessedEntryId <= w.lastProcessedEntryId
      BY <3>2 DEF SumsInv, NewerInv
    <3>. QED  BY <3>2, <3>3
  <2>. QED  BY <2>2, <2>3
<1>5. SeededInv'
  BY <1>4 DEF SumsInv, SeededInv
<1>6. SavingInv' /\ NewerInv'
  BY <1>1 DEF SavingInv, NewerInv
<1>7. ASSUME NEW s \in Snapshot, Reached(s) PROVE Reached(s)'
  <2>1. CASE s.lastProcessedEntryId = 0
    BY <2>1 DEF Reached
  <2>2. ASSUME NEW t \in snapshots, t.accountId = s.accountId,
               s.lastProcessedEntryId <= t.lastProcessedEntryId
        PROVE  Reached(s)'
    <3>1. PICK u \in snapshots' : /\ u.accountId = t.accountId
                                  /\ t.lastProcessedEntryId <= u.lastProcessedEntryId
      BY <1>4
    <3>2. u \in Snapshot /\ t \in Snapshot
      BY <1>2 DEF TypeOK
    <3>3. s.lastProcessedEntryId <= u.lastProcessedEntryId
      <4>1. /\ s.lastProcessedEntryId \in Nat
            /\ t.lastProcessedEntryId \in Nat
            /\ u.lastProcessedEntryId \in Nat
        BY <3>2 DEF Snapshot
      <4>. QED  BY <2>2, <3>1, <4>1
    <3>. QED  BY <2>2, <3>1, <3>3 DEF Reached
  <2>. QED  BY <1>7, <2>1, <2>2 DEF Reached
<1>8. ReadInv'
  BY <1>1, <1>7, ReadsKept DEF SumsInv
<1>. QED  BY <1>3, <1>5, <1>6, <1>8 DEF SumsInv

LEMMA SumsStep == SweepInv /\ SumsInv /\ [Next]_vars => SumsInv'
<1>. SUFFICES ASSUME SweepInv, SumsInv, [Next]_vars PROVE SumsInv'
  OBVIOUS
<1>1. CASE NextDay \/ UNCHANGED vars
  <2>1. UNCHANGED <<dto, pc, ids, snapshots, sweep, query, raced>>
    BY <1>1 DEF NextDay, vars
  <2>2. SnapshotsInv' /\ SavingInv'
    BY <2>1, SnapshotsKept, SavingKept DEF SumsInv
  <2>3. SeededInv' /\ NewerInv'
    BY <2>1 DEF SumsInv, SeededInv, NewerInv
  <2>4. ReadInv'
    BY <2>1, ReadsKept DEF SumsInv, Reached
  <2>. QED  BY <2>2, <2>3, <2>4 DEF SumsInv
<1>2. CASE Crash \/ FailSweep \/ Ack \/ OpenSweep \/ \E e \in Events : Deliver(e)
  <2>1. UNCHANGED <<dto, pc, ids, snapshots, query, raced>>
    BY <1>2 DEF Deliver, OpenSweep, Ack, Crash, FailSweep
  <2>2. sweep'.phase # "saving" /\ sweep'.written \subseteq sweep.written
    <3>1. CASE sweep' = NoSweep
      BY <3>1 DEF NoSweep
    <3>2. CASE \E e \in Events : Deliver(e)
      BY <3>2 DEF Deliver, NoSweep
    <3>3. CASE sweep' = [sweep EXCEPT !.phase = "sweeping", !.todo = WithEntries]
      <4>1. sweep \in SweepRecord
        BY DEF SweepInv, TypeOK, SweepRecord
      <4>. QED  BY <3>3, <4>1 DEF SweepRecord
    <3>. QED  BY <1>2, <3>1, <3>2, <3>3 DEF OpenSweep, Ack, Crash, FailSweep
  <2>3. SnapshotsInv'
    BY <2>1, <2>2, SnapshotsKept DEF SumsInv
  <2>4. SeededInv' /\ NewerInv' /\ SavingInv'
    BY <2>1, <2>2 DEF SumsInv, SeededInv, NewerInv, SavingInv
  <2>5. ReadInv'
    BY <2>1, ReadsKept DEF SumsInv, Reached
  <2>. QED  BY <2>3, <2>4, <2>5 DEF SumsInv
<1>. QED
  BY <1>1, <1>2, SumsRequests, SumsQueries, SumsBoundary, SumsSave, SumsCommit
     DEF Next, Consume

\* SumsInv is inductive, whatever commits between the statements of a sweep.
THEOREM SumsInvInductive == Spec => [](SweepInv /\ SumsInv)
<1>1. SumsInv /\ SweepInv /\ [Next]_vars => SumsInv'
  BY SumsStep
<1>. QED  BY SumsInvInit, SweepInvInductive, <1>1, PTL DEF Spec

\* Each row of balance_snapshots of an account that never raced is the sum of
\* the entries up to its boundary, and there is one row per account and date
\* (LedgerService.runSnapshotSweep), whatever posts during a sweep.
THEOREM SnapshotsSum == Spec => []SnapshotsAreSums
<1>1. SweepInv /\ SumsInv => SnapshotsAreSums
  BY DEF SweepInv, SumsInv, SnapshotsInv, Sound, OneRowEach, SnapshotsAreSums
<1>. QED  BY SumsInvInductive, <1>1, PTL

\* calculateBalance returns the sum of all entries of every account, whatever
\* sweeps have run and requests committed between their statements, unless a
\* row of the account came behind a boundary or in front of one being used.
THEOREM BalanceIsSum == Spec => []WrongOnlyIfRaced
<1>1. ASSUME SweepInv, SumsInv, NEW a \in Accounts \ raced
      PROVE  Calculated(a, Latest(a)) = Actual(a)
  <2>1. Latest(a) \in Snapshot /\ Latest(a).accountId = a /\ Sound(Latest(a))
    BY <1>1, LatestIs, LatestIsSound DEF SweepInv
  <2>2. Calculated(Latest(a).accountId, Latest(a)) = Actual(Latest(a).accountId)
    BY <1>1, <2>1, SoundIsActual
  <2>. QED  BY <2>1, <2>2
<1>2. SweepInv /\ SumsInv => WrongOnlyIfRaced
  BY <1>1 DEF WrongOnlyIfRaced
<1>. QED  BY SumsInvInductive, <1>2, PTL

\* A balance query answers the balance of its second statement, although sweeps
\* and postings commit between its two statements, unless its account raced.
THEOREM AnswersSum == Spec => AnswersAreActual
<1>1. ASSUME SweepInv, SumsInv, [Next]_vars, NEW q \in Queries,
             query'[q].phase = "answered", query[q].phase # "answered",
             query[q].account \notin raced
      PROVE  query'[q].balance = Actual(query[q].account)
  <2>. DEFINE s == query[q].snapshot
              a == query[q].account
  <2>1. SumEntries(q)
    <3>1. query' # query
      BY <1>1
    <3>2. PICK c \in Queries : ReadSnapshot(c) \/ SumEntries(c)
      BY <1>1, <3>1 DEF Next, vars, NextDay, CreateEntry, Commit, Abort, Consume,
         Deliver, OpenSweep, ReadBoundary, SaveSnapshot, CommitSweep, Ack, Crash,
         FailSweep
    <3>3. query'[c].phase = "reading" \/ SumEntries(c)
      BY <1>1, <3>2 DEF ReadSnapshot, SweepInv, TypeOK
    <3>4. c = q
      BY <1>1, <3>2 DEF ReadSnapshot, SumEntries, SweepInv, TypeOK
    <3>. QED  BY <1>1, <3>3, <3>4
  <2>2. s \in Snapshot /\ s.accountId = a /\ Sound(s)
    BY <1>1, <2>1 DEF SumEntries, SumsInv, ReadInv, SweepInv, TypeOK
  <2>3. Calculated(s.accountId, s) = Actual(s.accountId)
    BY <1>1, <2>2, SoundIsActual
  <2>4. query'[q].balance = Calculated(a, s)
    BY <1>1, <2>1 DEF SumEntries, SweepInv, TypeOK
  <2>. QED  BY <2>2, <2>3, <2>4
<1>2. SweepInv /\ SumsInv /\ [Next]_vars =>
        [\A q \in Queries :
            query'[q].phase = "answered" /\ query[q].phase # "answered"
                => \/ query'[q].balance = Actual(query[q].account)
                   \/ query[q].account \in raced]_vars
  BY <1>1
<1>. QED
  BY SumsInvInductive, <1>2, PTL DEF Spec, AnswersAreActual
=============================================================================
