---------------------------- MODULE AccountsProofs ----------------------------
(***************************************************************************)
(* What Accounts promises, for every set of accounts, calls and reviews and *)
(* however handlers, consumer, crashes and failures interleave.             *)
(*                                                                         *)
(* RowsInv, on which the rest stands: a handler that is about to write, and *)
(* the consumer, hold accounts whose rows exist; an id that is being        *)
(* inserted belongs to one call and to no row; a row is deleted exactly     *)
(* when its history says that it was closed.  On top of it one invariant    *)
(* for each promise: ApplyingIsNew (the inbox), EventsOwed, ClosedAreLeft,  *)
(* OpenAreKnown (transfers), RoomIsKept (the limit) and RelyingIsPending    *)
(* (a rejection).                                                           *)
(***************************************************************************)
EXTENDS Accounts, FiniteSetTheorems, TLAPS

CallState == [phase : CallPhase, seen : Status \union {None},
              account : Accounts, logged : Nat]

SyncState == [phase : {"idle", "received", "freezing", "announcing", "committed"},
              event : Reviews \union {None}, todo : SUBSET Accounts,
              account : Accounts \union {None}, logged : Nat]

\* Rows and histories tell the same of closings, and nothing not deleted is
\* closed.
RowsRemember ==
    \A a \in Accounts :
        /\ rows[a] = None => history[a] = {}
        /\ rows[a] # None => /\ rows[a].deleted <=> a \in Closed
                             /\ rows[a].status = "CLOSED" => rows[a].deleted

\* Histories are finite and their ids are the numbers up to their size.
HistoryCounted ==
    \A a \in Accounts :
        /\ IsFiniteSet(history[a])
        /\ \A h \in history[a] : h.id \in 1 .. Cardinality(history[a])

\* The inductive invariant.
RowsInv ==
    /\ TypeOK
    /\ CallsKnowRows
    /\ InsertsAreNew
    /\ SyncKnowsRows
    /\ RowsRemember
    /\ HistoryCounted

\* Freezing, unfreezing and closing leave an account in a status.
LEMMA OutcomeIsStatus ==
    ASSUME NEW op \in DOMAIN Outcome
    PROVE  Outcome[op] \in Status
BY DEF Outcome, Status

\* A call that may change an account makes a change the history can hold.
LEMMA ChangeOfIsChange ==
    ASSUME TypeOK, CallsKnowRows, NEW c \in Calls, call[c].phase \in Acting,
           NEW id \in Nat
    PROVE  /\ ChangeOf(c, id) \in Change
           /\ ChangeOf(c, id).id = id
           /\ ChangeOf(c, id).new = Outcome[request[c].op]
           /\ ChangeOf(c, id).by # "SYSTEM"
<1>1. request[c] \in Input
  BY InputsAssumption DEF TypeOK
<1>2. Outcome[request[c].op] \in Status
  BY OutcomeIsStatus DEF CallsKnowRows
<1> QED
  BY <1>1, <1>2 DEF ChangeOf, Change, CallsKnowRows, Input

\* So does the consumer.
LEMMA SystemFreezeIsChange ==
    ASSUME NEW id \in Nat
    PROVE  /\ SystemFreeze(id) \in Change
           /\ SystemFreeze(id).id = id
           /\ SystemFreeze(id).new = "FROZEN"
           /\ SystemFreeze(id).by = "SYSTEM"
BY DEF SystemFreeze, Change, Status

\* Moving on keeps a call's account, and its locals unless it is answered.
LEMMA GoStep ==
    ASSUME TypeOK, NEW c \in Calls, NEW phase \in CallPhase, Go(c, phase)
    PROVE  /\ call' \in [Calls -> CallState]
           /\ call'[c].phase = phase
           /\ call'[c].account = call[c].account
           /\ phase \notin Answered => /\ call'[c].seen = call[c].seen
                                       /\ call'[c].logged = call[c].logged
           /\ \A d \in Calls \ {c} : call'[d] = call[d]
<1> DEFINE seen == IF phase \in Answered THEN None ELSE call[c].seen
           logged == IF phase \in Answered THEN 0 ELSE call[c].logged
<1>1. call \in [Calls -> CallState]
  BY DEF TypeOK, CallState
<1>2. call' = [call EXCEPT ![c].phase = phase, ![c].seen = seen,
                           ![c].logged = logged]
  BY <1>1 DEF Go, CallState
<1>3. /\ call[c] \in CallState
      /\ seen \in Status \union {None} /\ logged \in Nat
  BY <1>1 DEF CallState
<1>4. phase \notin Answered => seen = call[c].seen /\ logged = call[c].logged
  OBVIOUS
<1> HIDE DEF seen, logged
<1>5. /\ call'[c].phase = phase
      /\ call'[c].account = call[c].account
      /\ call'[c].seen = seen
      /\ call'[c].logged = logged
      /\ call'[c] \in CallState
  BY <1>1, <1>2, <1>3 DEF CallState
<1>6. \A d \in Calls \ {c} : call'[d] = call[d]
  BY <1>1, <1>2
<1>7. call' \in [Calls -> CallState]
  BY <1>1, <1>2, <1>5
<1> QED
  BY <1>4, <1>5, <1>6, <1>7

\* No handler has begun and no account has a history: the invariant holds at
\* the start.
THEOREM RowsInvInit == Init => RowsInv
<1> SUFFICES ASSUME Init
             PROVE  RowsInv
  OBVIOUS
<1> USE DEF Init
<1>1. TypeOK
  BY OpenedAssumption, InputsAssumption, AccountBoundsAssumption
     DEF TypeOK, Row, Status, Idle, CallPhase, Input
<1>2. CallsKnowRows
  BY DEF CallsKnowRows, Acting
<1>3. InsertsAreNew
  BY DEF InsertsAreNew
<1>4. SyncKnowsRows
  BY DEF SyncKnowsRows, Idle
<1>5. RowsRemember
  <2> SUFFICES ASSUME NEW a \in Accounts
               PROVE  /\ history[a] = {}
                      /\ rows[a] # None => /\ rows[a].deleted = FALSE
                                           /\ rows[a].status = "ACTIVE"
    BY DEF RowsRemember, Closed
  <2> QED
    OBVIOUS
<1>6. HistoryCounted
  BY FS_EmptySet DEF HistoryCounted
<1> QED
  BY <1>1, <1>2, <1>3, <1>4, <1>5, <1>6 DEF RowsInv

-----------------------------------------------------------------------------
(* Steps of the HTTP handlers. *)

\* Calls that move on without a change of rows, except to insert, know as much
\* as before.
LEMMA ProgressKeepsInv ==
    ASSUME RowsInv, NEW c \in Calls,
           NEW phase \in CallPhase \ {"start", "commit"},
           phase \in Acting => call[c].phase \in Acting,
           Go(c, phase),
           events' \in [Accounts -> Seq(Change)],
           balance' \in [Accounts -> Nat],
           {closedBefore', openSince'} \subseteq [Calls -> SUBSET Accounts],
           UNCHANGED <<tables, created, kyc, reviewing, reviewed, consumer, request,
                       overtaken, spared>>
    PROVE  RowsInv'
<1> USE DEF RowsInv, tables, consumer
<1>1. /\ call' \in [Calls -> CallState]
      /\ call'[c].phase = phase
      /\ phase \in Acting => call'[c].seen = call[c].seen
      /\ \A d \in Calls : call'[d].account = call[d].account
      /\ \A d \in Calls \ {c} : call'[d] = call[d]
  BY GoStep DEF Acting, Answered
<1>2. TypeOK'
  BY <1>1 DEF TypeOK, CallState
<1>3. CallsKnowRows'
  BY <1>1 DEF CallsKnowRows
<1>4. InsertsAreNew'
  BY <1>1 DEF InsertsAreNew
<1>5. SyncKnowsRows' /\ RowsRemember' /\ HistoryCounted'
  BY DEF SyncKnowsRows, RowsRemember, HistoryCounted, Closed
<1> QED
  BY <1>2, <1>3, <1>4, <1>5

\* A call that decides to change an account has just read its row.
LEMMA ReadAccountKeepsInv ==
    ASSUME RowsInv, NEW c \in Calls, ReadAccount(c)
    PROVE  RowsInv'
<1> DEFINE next == IF request[c].op = "close" THEN "balance" ELSE "write"
<1> USE DEF RowsInv, tables, published, outside, consumer
<1>1. /\ closedBefore' \in [Calls -> SUBSET Accounts]
      /\ openSince' = openSince /\ overtaken' = overtaken /\ spared' = spared
      /\ UNCHANGED <<tables, published, outside, consumer, request>>
      /\ request[c].op \in DOMAIN Outcome /\ call[c].phase = "start"
  BY DEF ReadAccount, TypeOK, Closed
<1>2. CASE Go(c, "failed")
  <2>1. "failed" \in CallPhase \ {"start", "commit"} /\ "failed" \notin Acting
    BY DEF CallPhase, Answered, Acting
  <2> QED
    BY <1>1, <1>2, <2>1, ProgressKeepsInv DEF TypeOK
<1>3. CASE ~Go(c, "failed")
  <2>1. /\ Found(request[c].account)
        /\ call' = [call EXCEPT ![c].seen = rows[request[c].account].status,
                                ![c].phase = next]
    BY <1>3 DEF ReadAccount
  <2>2. request[c].account \in Accounts /\ call[c].account = request[c].account
    BY <1>1, InputsAssumption DEF TypeOK, Input, CallsKnowRows
  <2>3. rows[request[c].account] # None /\ rows[request[c].account] \in Row
    BY <2>1, <2>2 DEF TypeOK, Found
  <2>4. /\ call' \in [Calls -> CallState]
        /\ call'[c].phase \in Acting
        /\ call'[c].seen \in Status
        /\ \A d \in Calls : call'[d].account = call[d].account
        /\ \A d \in Calls \ {c} : call'[d] = call[d]
    <3> DEFINE status == rows[request[c].account].status
    <3>1. next \in CallPhase \intersect Acting /\ status \in Status
      BY <2>3 DEF CallPhase, Acting, Row
    <3>2. call \in [Calls -> CallState]
      BY DEF TypeOK, CallState
    <3>3. call' = [call EXCEPT ![c].seen = status, ![c].phase = next]
      BY <2>1
    <3> HIDE DEF next, status
    <3>4. /\ call'[c] \in CallState
          /\ call'[c].phase = next /\ call'[c].seen = status
          /\ call'[c].account = call[c].account
      BY <3>1, <3>2, <3>3 DEF CallState
    <3>5. \A d \in Calls \ {c} : call'[d] = call[d]
      BY <3>2, <3>3
    <3> QED
      BY <3>1, <3>2, <3>3, <3>4, <3>5
  <2>5. TypeOK'
    BY <1>1, <2>4 DEF TypeOK, CallState
  <2>6. CallsKnowRows'
    BY <1>1, <2>2, <2>3, <2>4 DEF CallsKnowRows, Acting
  <2>7. InsertsAreNew'
    BY <1>1, <2>4 DEF InsertsAreNew, Acting
  <2>8. SyncKnowsRows' /\ RowsRemember' /\ HistoryCounted'
    BY <1>1 DEF SyncKnowsRows, RowsRemember, HistoryCounted, Closed
  <2> QED
    BY <2>5, <2>6, <2>7, <2>8
<1> QED
  BY <1>2, <1>3

\* What closeAccount writes is a row.
LEMMA ClosedRow ==
    ASSUME NEW row, row = [status |-> "CLOSED", deleted |-> TRUE]
    PROVE  row \in Row /\ row.status = "CLOSED" /\ row.deleted = TRUE
<1>1. row \in Row
  BY DEF Row, Status
<1>2. row.status = "CLOSED" /\ row.deleted = TRUE
  OBVIOUS
<1> QED
  BY <1>1, <1>2

\* What createAccount writes is a row.
LEMMA OpenRow ==
    ASSUME NEW row, row = [status |-> "ACTIVE", deleted |-> FALSE]
    PROVE  row \in Row /\ row.status = "ACTIVE" /\ row.deleted = FALSE
<1>1. row \in Row
  BY DEF Row, Status
<1>2. row.status = "ACTIVE" /\ row.deleted = FALSE
  OBVIOUS
<1> QED
  BY <1>1, <1>2

\* A change of one row that logs, under a new id, what it wrote.
LoggedChange(a, change) ==
    /\ change.id = NewId(history[a])
    /\ rows' = [rows EXCEPT ![a] = IF change.new = "CLOSED"
                                   THEN [status |-> "CLOSED", deleted |-> TRUE]
                                   ELSE [@ EXCEPT !.status = change.new]]
    /\ history' = [history EXCEPT ![a] = @ \union {change}]

\* What such a change does to the row and its history.
LEMMA LoggedChangeStep ==
    ASSUME TypeOK, NEW a \in Accounts, rows[a] # None, NEW change \in Change,
           LoggedChange(a, change)
    PROVE  /\ rows'[a] \in Row
           /\ rows'[a].status = change.new
           /\ rows'[a].deleted <=> rows[a].deleted \/ change.new = "CLOSED"
           /\ history'[a] = history[a] \union {change}
           /\ \A b \in Accounts \ {a} : /\ rows'[b] = rows[b]
                                        /\ history'[b] = history[b]
           /\ rows' \in [Accounts -> Row \union {None}]
           /\ history' \in [Accounts -> SUBSET Change]
<1>1. rows[a] \in Row
  BY DEF TypeOK
<1>2. /\ rows'[a] = IF change.new = "CLOSED"
                     THEN [status |-> "CLOSED", deleted |-> TRUE]
                     ELSE [rows[a] EXCEPT !.status = change.new]
      /\ \A b \in Accounts \ {a} : rows'[b] = rows[b]
  BY DEF TypeOK, LoggedChange
<1>3. /\ rows'[a] \in Row
      /\ rows'[a].status = change.new
      /\ rows'[a].deleted <=> rows[a].deleted \/ change.new = "CLOSED"
  <2>1. CASE change.new = "CLOSED"
    <3>1. rows'[a] = [status |-> "CLOSED", deleted |-> TRUE]
      BY <1>2, <2>1, Zenon
    <3> QED
      BY <2>1, <3>1, ClosedRow, Zenon
  <2>2. CASE change.new # "CLOSED"
    <3>1. rows'[a] = [rows[a] EXCEPT !.status = change.new]
      BY <1>2, <2>2
    <3>2. /\ rows'[a].status = change.new
          /\ rows'[a].deleted = rows[a].deleted
      BY <1>1, <3>1 DEF Row
    <3>3. rows'[a] \in Row
      BY <1>1, <3>1 DEF Row, Change
    <3> QED
      BY <2>2, <3>2, <3>3
  <2> QED
    BY <2>1, <2>2
<1>4. /\ history'[a] = history[a] \union {change}
      /\ \A b \in Accounts \ {a} : history'[b] = history[b]
      /\ history' \in [Accounts -> SUBSET Change]
  BY DEF TypeOK, LoggedChange
<1>5. rows' \in [Accounts -> Row \union {None}]
  BY <1>3 DEF TypeOK, LoggedChange
<1> QED
  BY <1>2, <1>3, <1>4, <1>5

\* Rows never disappear, and their history follows them.
LEMMA LoggedChangeKeepsHistory ==
    ASSUME TypeOK, RowsRemember, HistoryCounted, NEW a \in Accounts,
           rows[a] # None, NEW change \in Change, LoggedChange(a, change)
    PROVE  /\ RowsRemember'
           /\ HistoryCounted'
           /\ \A b \in Accounts : rows'[b] = None <=> rows[b] = None
<1>1. /\ rows'[a] \in Row
      /\ rows'[a].status = change.new
      /\ rows'[a].deleted <=> rows[a].deleted \/ change.new = "CLOSED"
      /\ history'[a] = history[a] \union {change}
      /\ \A b \in Accounts \ {a} : rows'[b] = rows[b] /\ history'[b] = history[b]
  BY LoggedChangeStep
<1>2. rows'[a] # None
  BY <1>1, NoneAssumption
<1>3. RowsRemember'
  <2> SUFFICES ASSUME NEW b \in Accounts
               PROVE  /\ rows'[b] = None => history'[b] = {}
                      /\ rows'[b] # None =>
                             /\ rows'[b].deleted <=>
                                    \E h \in history'[b] : h.new = "CLOSED"
                             /\ rows'[b].status = "CLOSED" => rows'[b].deleted
    BY DEF RowsRemember, Closed
  <2>1. CASE b = a
    BY <1>1, <1>2, <2>1 DEF RowsRemember, Closed
  <2>2. CASE b # a
    BY <1>1, <2>2 DEF RowsRemember, Closed
  <2> QED
    BY <2>1, <2>2
<1>4. HistoryCounted'
  <2> SUFFICES ASSUME NEW b \in Accounts
               PROVE  /\ IsFiniteSet(history'[b])
                      /\ \A h \in history'[b] : h.id \in 1 .. Cardinality(history'[b])
    BY DEF HistoryCounted
  <2>1. CASE b = a
    <3> DEFINE n == Cardinality(history[a])
    <3>1. /\ IsFiniteSet(history[a]) /\ n \in Nat
          /\ \A h \in history[a] : h.id \in 1 .. n
          /\ change.id = n + 1
      BY FS_CardinalityType DEF HistoryCounted, LoggedChange, NewId
    <3>2. change \notin history[a]
      BY <3>1
    <3> HIDE DEF n
    <3>3. IsFiniteSet(history'[a]) /\ Cardinality(history'[a]) = n + 1
      <4> DEFINE S == history[a]
      <4>1. IsFiniteSet(S) /\ change \notin S
        BY <3>1, <3>2
      <4>2. history'[a] = S \union {change} /\ n = Cardinality(S)
        BY <1>1 DEF n
      <4> HIDE DEF S
      <4>3. /\ IsFiniteSet(S \union {change})
            /\ Cardinality(S \union {change}) = Cardinality(S) + 1
        BY <4>1, FS_AddElement
      <4> QED
        BY <4>2, <4>3
    <3>4. \A h \in history'[a] : h.id \in 1 .. n + 1
      BY <1>1, <3>1
    <3> QED
      BY <2>1, <3>3, <3>4
  <2>2. CASE b # a
    BY <1>1, <2>2 DEF HistoryCounted
  <2> QED
    BY <2>1, <2>2
<1> QED
  BY <1>1, <1>2, <1>3, <1>4

\* An id for the next row of a history is a number no row has.
LEMMA NewIdIsNew ==
    ASSUME HistoryCounted, NEW a \in Accounts
    PROVE  /\ NewId(history[a]) \in Nat
           /\ \A h \in history[a] : h.id # NewId(history[a])
<1>1. Cardinality(history[a]) \in Nat
  BY FS_CardinalityType DEF HistoryCounted
<1> QED
  BY <1>1 DEF HistoryCounted, NewId
\* A change of rows that lets none disappear keeps what is known of them, with
\* the calls as they were.
LEMMA KnownRowsStay ==
    ASSUME RowsInv, UNCHANGED <<calls, created>>,
           \A b \in Accounts : rows'[b] = None <=> rows[b] = None
    PROVE  CallsKnowRows' /\ InsertsAreNew'
<1> USE DEF RowsInv, calls
<1>1. \A c \in Calls : call[c].account \in Accounts
  BY DEF TypeOK
<1> QED
  BY <1>1 DEF CallsKnowRows, InsertsAreNew

\* The write of a handler is a logged change.
LEMMA WriteStatusLogs ==
    ASSUME RowsInv, NEW c \in Calls, WriteStatus(c)
    PROVE  LET a == call[c].account
               id == NewId(history[a])
           IN  /\ a \in Accounts /\ rows[a] # None
               /\ id \in Nat
               /\ request[c].op \in DOMAIN Outcome
               /\ ChangeOf(c, id) \in Change
               /\ ChangeOf(c, id).new = Outcome[request[c].op]
               /\ ChangeOf(c, id).by # "SYSTEM"
               /\ LoggedChange(a, ChangeOf(c, id))
<1> DEFINE a == call[c].account
           id == NewId(history[a])
<1> USE DEF RowsInv
<1>1. call[c].phase \in Acting
  BY DEF WriteStatus, Acting
<1>2. a \in Accounts /\ rows[a] # None /\ request[c].op \in DOMAIN Outcome
  BY <1>1 DEF TypeOK, CallsKnowRows
<1>3. id \in Nat
  BY <1>2, NewIdIsNew
<1> HIDE DEF id
<1>4. /\ ChangeOf(c, id) \in Change
      /\ ChangeOf(c, id).id = id
      /\ ChangeOf(c, id).new = Outcome[request[c].op]
      /\ ChangeOf(c, id).by # "SYSTEM"
  BY <1>1, <1>3, ChangeOfIsChange
<1>5. request[c].op = "close" <=> ChangeOf(c, id).new = "CLOSED"
  BY <1>2, <1>4 DEF Outcome
<1>6. /\ rows' = [rows EXCEPT ![a] = Written(@, request[c].op)]
      /\ history' = [history EXCEPT ![a] = @ \union {ChangeOf(c, id)}]
  BY DEF WriteStatus, id
<1>7. LoggedChange(a, ChangeOf(c, id))
  BY <1>4, <1>5, <1>6 DEF LoggedChange, Written, id
<1> QED
  BY <1>2, <1>3, <1>4, <1>7 DEF id

\* An account that opens is added for transfers only.
LEMMA OpenForType ==
    ASSUME TypeOK, NEW a \in Accounts
    PROVE  OpenFor(a) \in [Calls -> SUBSET Accounts]
<1>1. openSince \in [Calls -> SUBSET Accounts]
  BY DEF TypeOK
<1>2. \A d \in Calls : openSince[d] \subseteq Accounts
  BY <1>1
<1> QED
  BY <1>2 DEF OpenFor

\* The write of a handler keeps the invariant, whatever happened to the row
\* since the handler read it.
LEMMA WriteStatusKeepsInv ==
    ASSUME RowsInv, NEW c \in Calls, WriteStatus(c)
    PROVE  RowsInv'
<1> DEFINE a == call[c].account
           id == NewId(history[a])
<1> USE DEF RowsInv
<1>1. /\ a \in Accounts /\ rows[a] # None
      /\ id \in Nat
      /\ ChangeOf(c, id) \in Change
      /\ LoggedChange(a, ChangeOf(c, id))
  BY WriteStatusLogs
<1>2. /\ call[c].phase = "write"
      /\ call' = [call EXCEPT ![c].phase = "publish", ![c].logged = id]
      /\ UNCHANGED <<inbox, published, outside, consumer, request, closedBefore,
                     overtaken>>
      /\ openSince' = openSince \/ openSince' = OpenFor(a)
      /\ spared' = spared \/ spared' = spared \union {a}
  BY DEF WriteStatus
<1> HIDE DEF a, id
<1>3. /\ rows' \in [Accounts -> Row \union {None}]
      /\ history' \in [Accounts -> SUBSET Change]
  BY <1>1, LoggedChangeStep
<1>4. /\ RowsRemember' /\ HistoryCounted'
      /\ \A b \in Accounts : rows'[b] = None <=> rows[b] = None
  BY <1>1, LoggedChangeKeepsHistory
<1>5. /\ call' \in [Calls -> CallState]
      /\ call'[c].phase = "publish"
      /\ call'[c].seen = call[c].seen
      /\ \A d \in Calls : call'[d].account = call[d].account
      /\ \A d \in Calls \ {c} : call'[d] = call[d]
  BY <1>1, <1>2 DEF TypeOK, CallState, CallPhase
<1>6. openSince' \in [Calls -> SUBSET Accounts]
  BY <1>1, <1>2, OpenForType DEF TypeOK
<1>7. spared' \subseteq Accounts
  BY <1>1, <1>2 DEF TypeOK
<1>8. TypeOK'
  BY <1>2, <1>3, <1>5, <1>6, <1>7
     DEF TypeOK, CallState, published, outside, consumer
<1>9. \A d \in Calls : call[d].account \in Accounts
  BY DEF TypeOK
<1>10. CallsKnowRows'
  BY <1>2, <1>4, <1>5, <1>9 DEF CallsKnowRows, Acting
<1>11. InsertsAreNew'
  BY <1>2, <1>4, <1>5, <1>9 DEF InsertsAreNew, published
<1>12. SyncKnowsRows'
  BY <1>2, <1>4 DEF TypeOK, SyncKnowsRows, consumer
<1> QED
  BY <1>4, <1>8, <1>10, <1>11, <1>12

\* An id is inserted once: the invariant holds of a call about to commit it.
LEMMA InsertAccountKeepsInv ==
    ASSUME RowsInv, NEW c \in Calls, InsertAccount(c)
    PROVE  RowsInv'
<1> USE DEF RowsInv, tables, outside, consumer, ghosts
<1>1. PICK a \in Accounts \ created :
         /\ created' = created \union {a}
         /\ call' = [call EXCEPT ![c].phase = "commit", ![c].account = a]
  BY DEF InsertAccount
<1>2. UNCHANGED <<tables, events, outside, consumer, request, ghosts>>
  BY DEF InsertAccount
<1>3. /\ call' \in [Calls -> CallState]
      /\ call'[c].phase = "commit" /\ call'[c].account = a
      /\ \A d \in Calls \ {c} : call'[d] = call[d]
  BY <1>1 DEF TypeOK, CallPhase, CallState
<1>4. TypeOK'
  BY <1>1, <1>2, <1>3 DEF TypeOK, CallState
<1>5. CallsKnowRows'
  BY <1>2, <1>3 DEF CallsKnowRows, Acting
<1>6. InsertsAreNew'
  <2>1. rows[a] = None
    BY <1>1 DEF InsertsAreNew
  <2>2. \A d \in Calls : call[d].phase = "commit" => call[d].account # a
    BY <1>1 DEF InsertsAreNew
  <2> QED
    BY <1>1, <1>2, <1>3, <2>1, <2>2 DEF InsertsAreNew
<1>7. SyncKnowsRows' /\ RowsRemember' /\ HistoryCounted'
  BY <1>2 DEF SyncKnowsRows, RowsRemember, HistoryCounted, Closed
<1> QED
  BY <1>4, <1>5, <1>6, <1>7

\* What the commit of an opening does.
LEMMA CommitAccountStep ==
    ASSUME RowsInv, NEW c \in Calls, CommitAccount(c)
    PROVE  LET a == call[c].account
           IN  /\ a \in Accounts /\ rows[a] = None /\ history[a] = {}
               /\ a \in created
               /\ rows'[a] \in Row /\ rows'[a].status = "ACTIVE"
               /\ rows'[a].deleted = FALSE
               /\ \A b \in Accounts \ {a} : rows'[b] = rows[b]
               /\ rows' \in [Accounts -> Row \union {None}]
               /\ history' = history
<1> DEFINE a == call[c].account
           new == [status |-> "ACTIVE", deleted |-> FALSE]
<1>1. call[c].phase = "commit" /\ history' = history
  BY DEF CommitAccount
<1>2. rows' = [rows EXCEPT ![a] = new]
  BY DEF CommitAccount
<1>3. a \in Accounts /\ rows[a] = None /\ a \in created /\ history[a] = {}
  BY <1>1 DEF RowsInv, TypeOK, InsertsAreNew, RowsRemember
<1>4. new \in Row /\ new.status = "ACTIVE" /\ new.deleted = FALSE
  BY OpenRow, Zenon
<1> HIDE DEF a, new
<1>5. /\ rows' \in [Accounts -> Row \union {None}]
      /\ rows'[a] = new
      /\ \A b \in Accounts \ {a} : rows'[b] = rows[b]
  BY <1>2, <1>3, <1>4 DEF RowsInv, TypeOK
<1>6. rows'[a] \in Row /\ rows'[a].status = "ACTIVE" /\ rows'[a].deleted = FALSE
  BY <1>4, <1>5, Zenon
<1> QED
  BY <1>1, <1>3, <1>5, <1>6 DEF a

\* A new row starts with an empty history.
LEMMA CommitAccountKeepsInv ==
    ASSUME RowsInv, NEW c \in Calls, CommitAccount(c)
    PROVE  RowsInv'
<1> DEFINE a == call[c].account
<1> USE DEF RowsInv, published, outside, consumer
<1>1. /\ a \in Accounts /\ rows[a] = None /\ history[a] = {} /\ a \in created
      /\ rows'[a] \in Row /\ rows'[a].status = "ACTIVE" /\ rows'[a].deleted = FALSE
      /\ \A b \in Accounts \ {a} : rows'[b] = rows[b]
      /\ rows' \in [Accounts -> Row \union {None}]
      /\ history' = history
  BY CommitAccountStep
<1>2. /\ call[c].phase = "commit"
      /\ Go(c, "done")
      /\ UNCHANGED <<published, outside, consumer, inbox, request, closedBefore>>
      /\ openSince' = OpenFor(a)
      /\ overtaken' \subseteq overtaken \union Calls
      /\ spared' = spared \union {a}
  BY DEF CommitAccount
<1>3. \A d \in Calls \ {c} : call[d].phase = "commit" => call[d].account # a
  BY <1>2 DEF InsertsAreNew
<1> HIDE DEF a
<1>4. rows'[a] # None
  BY <1>1, NoneAssumption
<1>5. /\ call' \in [Calls -> CallState]
      /\ call'[c].phase = "done"
      /\ \A d \in Calls : call'[d].account = call[d].account
      /\ \A d \in Calls \ {c} : call'[d] = call[d]
  BY <1>2, GoStep DEF CallPhase, Answered
<1>6. /\ openSince' \in [Calls -> SUBSET Accounts]
      /\ overtaken' \subseteq Calls /\ spared' \subseteq Accounts
  BY <1>1, <1>2, OpenForType DEF TypeOK
<1>7. TypeOK'
  BY <1>1, <1>2, <1>5, <1>6 DEF TypeOK, CallState
<1>8. /\ \A d \in Calls : call[d].account \in Accounts
      /\ \A b \in Accounts : rows[b] # None => rows'[b] # None
  BY <1>1, <1>4 DEF TypeOK
<1>9. CallsKnowRows'
  BY <1>2, <1>5, <1>8 DEF CallsKnowRows, Acting
<1>10. InsertsAreNew'
  BY <1>1, <1>2, <1>3, <1>5, <1>8 DEF InsertsAreNew
<1>11. SyncKnowsRows'
  BY <1>2, <1>8 DEF TypeOK, SyncKnowsRows
<1>12. RowsRemember'
  <2> SUFFICES ASSUME NEW b \in Accounts
               PROVE  /\ rows'[b] = None => history'[b] = {}
                      /\ rows'[b] # None =>
                             /\ rows'[b].deleted <=>
                                    \E h \in history'[b] : h.new = "CLOSED"
                             /\ rows'[b].status = "CLOSED" => rows'[b].deleted
    BY DEF RowsRemember, Closed
  <2>1. CASE b = a
    BY <1>1, <1>4, <2>1
  <2>2. CASE b # a
    BY <1>1, <2>2 DEF RowsRemember, Closed
  <2> QED
    BY <2>1, <2>2
<1>13. HistoryCounted'
  BY <1>1 DEF HistoryCounted
<1> QED
  BY <1>7, <1>9, <1>10, <1>11, <1>12, <1>13
-----------------------------------------------------------------------------
(* Steps of the kyc_sync consumer, and reviews. *)

\* A step that leaves rows, histories and calls alone keeps the invariant, if
\* it keeps the types and the consumer's knowledge.
LEMMA ConsumerStepKeepsInv ==
    ASSUME RowsInv, TypeOK', SyncKnowsRows',
           UNCHANGED <<rows, history, created, calls>>
    PROVE  RowsInv'
<1>1. CallsKnowRows' /\ InsertsAreNew'
  BY DEF RowsInv, CallsKnowRows, InsertsAreNew, calls
<1>2. RowsRemember' /\ HistoryCounted'
  BY DEF RowsInv, RowsRemember, HistoryCounted, Closed
<1> QED
  BY <1>1, <1>2 DEF RowsInv

\* The broker and user-service know nothing of rows.
LEMMA OutsideKeepsInv ==
    ASSUME RowsInv,
           \/ Receive \/ CommitReview \/ RollbackReview
           \/ \E e \in Reviews : PublishReview(e)
    PROVE  RowsInv'
<1> USE DEF RowsInv, tables, published, outside, calls, ghosts
<1>1. CASE Receive
  <2>1. /\ queue \in Seq(Reviews) /\ queue # <<>>
        /\ sync = Idle
    BY <1>1 DEF Receive, TypeOK
  <2>2. Head(queue) \in Reviews /\ Tail(queue) \in Seq(Reviews)
    BY <2>1
  <2>3. sync' = [Idle EXCEPT !.phase = "received", !.event = Head(queue)]
    BY <1>1 DEF Receive
  <2>4. sync' = [phase |-> "received", event |-> Head(queue), todo |-> {},
                 account |-> None, logged |-> 0]
    BY <2>3 DEF Idle
  <2>5. TypeOK'
    BY <1>1, <2>2, <2>4 DEF Receive, TypeOK
  <2>6. SyncKnowsRows'
    BY <2>2, <2>4 DEF SyncKnowsRows
  <2> QED
    BY <1>1, <2>5, <2>6, ConsumerStepKeepsInv DEF Receive
<1>2. ASSUME NEW e \in Reviews, PublishReview(e)
      PROVE  RowsInv'
  <2>1. queue' \in Seq(Reviews)
    BY <1>2 DEF PublishReview, TypeOK
  <2>2. TypeOK'
    BY <1>2, <2>1 DEF PublishReview, TypeOK
  <2>3. SyncKnowsRows'
    BY <1>2 DEF PublishReview, SyncKnowsRows
  <2> QED
    BY <1>2, <2>2, <2>3, ConsumerStepKeepsInv DEF PublishReview
<1>3. CASE CommitReview
  <2>1. kyc' \in {"APPROVED", "REJECTED"}
    BY <1>3, DecisionAssumption DEF CommitReview, TypeOK
  <2>2. TypeOK'
    BY <1>3, <2>1 DEF CommitReview, TypeOK, consumer
  <2>3. SyncKnowsRows'
    BY <1>3 DEF CommitReview, SyncKnowsRows, consumer
  <2> QED
    BY <1>3, <2>2, <2>3, ConsumerStepKeepsInv DEF CommitReview
<1>4. CASE RollbackReview
  <2>1. TypeOK'
    BY <1>4 DEF RollbackReview, TypeOK, consumer
  <2>2. SyncKnowsRows'
    BY <1>4 DEF RollbackReview, SyncKnowsRows, consumer
  <2> QED
    BY <1>4, <2>1, <2>2, ConsumerStepKeepsInv DEF RollbackReview
<1> QED
  BY <1>1, <1>2, <1>3, <1>4

\* The consumer reads the open accounts; their rows exist.
LEMMA OpenSyncKeepsInv ==
    ASSUME RowsInv, OpenSync
    PROVE  RowsInv'
<1> USE DEF RowsInv, tables, published, outside, calls, ghosts
<1>1. /\ ToFreeze(sync.event) \subseteq Accounts
      /\ \A a \in ToFreeze(sync.event) : rows[a] # None
  BY DEF ToFreeze, Open, Found
<1>2. sync.event \in Reviews /\ sync.phase = "received"
  BY DEF OpenSync, SyncKnowsRows
<1>3. /\ sync'.phase \in {"idle", "freezing"}
      /\ sync' \in SyncState
      /\ \A a \in sync'.todo : rows[a] # None
      /\ IF sync'.phase = "idle" THEN sync' = Idle ELSE sync'.event \in Reviews
  <2>1. CASE sync' = Idle
    BY <2>1 DEF Idle, SyncState
  <2>2. CASE sync' = [sync EXCEPT !.phase = "freezing",
                                  !.todo = ToFreeze(sync.event)]
    <3>1. sync \in SyncState
      BY DEF TypeOK, SyncState
    <3>2. /\ sync' \in SyncState
          /\ sync'.phase = "freezing" /\ sync'.event = sync.event
          /\ sync'.todo = ToFreeze(sync.event)
      BY <1>1, <2>2, <3>1 DEF SyncState
    <3> QED
      BY <1>1, <1>2, <3>2
  <2> QED
    BY <2>1, <2>2 DEF OpenSync
<1>4. dead' \subseteq Reviews /\ spared' \subseteq Accounts
  <2>1. dead \subseteq Reviews /\ spared \subseteq Accounts
    BY DEF TypeOK
  <2>2. dead' = dead \/ dead' = dead \union {sync.event}
    BY DEF OpenSync
  <2>3. spared' \subseteq spared
    BY DEF OpenSync
  <2> QED
    BY <1>2, <2>1, <2>2, <2>3
<1>5. UNCHANGED <<tables, published, outside, queue, calls, crashes, failures,
                  closedBefore, openSince, overtaken>>
  BY DEF OpenSync
<1>6. TypeOK'
  BY <1>3, <1>4, <1>5 DEF TypeOK, SyncState
<1>7. SyncKnowsRows'
  BY <1>3, <1>5 DEF SyncKnowsRows
<1> QED
  BY <1>5, <1>6, <1>7, ConsumerStepKeepsInv

\* A freeze is a logged change.
LEMMA FreezeNextLogs ==
    ASSUME RowsInv, NEW a \in Accounts, FreezeNext(a)
    PROVE  LET id == NewId(history[a])
           IN  /\ rows[a] # None
               /\ id \in Nat
               /\ SystemFreeze(id) \in Change
               /\ SystemFreeze(id).new = "FROZEN"
               /\ LoggedChange(a, SystemFreeze(id))
<1> DEFINE id == NewId(history[a])
<1> USE DEF RowsInv
<1>1. rows[a] # None
  BY DEF FreezeNext, SyncKnowsRows
<1>2. id \in Nat
  BY NewIdIsNew
<1>3. /\ rows' = [rows EXCEPT ![a].status = "FROZEN"]
      /\ history' = [history EXCEPT ![a] = @ \union {SystemFreeze(id)}]
  BY DEF FreezeNext
<1>4. id = NewId(history[a])
  OBVIOUS
<1> HIDE DEF id
<1>5. /\ SystemFreeze(id) \in Change
      /\ SystemFreeze(id).id = id
      /\ SystemFreeze(id).new = "FROZEN"
  BY <1>2, SystemFreezeIsChange
<1>6. LoggedChange(a, SystemFreeze(id))
  BY <1>3, <1>4, <1>5 DEF LoggedChange
<1> QED
  BY <1>1, <1>2, <1>5, <1>6 DEF id

\* A freeze logs what it wrote, on a row that may have changed since it was
\* read.
LEMMA FreezeNextKeepsInv ==
    ASSUME RowsInv, NEW a \in Accounts, FreezeNext(a)
    PROVE  RowsInv'
<1> DEFINE id == NewId(history[a])
<1> USE DEF RowsInv, published, outside, calls, ghosts
<1>1. /\ rows[a] # None
      /\ id \in Nat
      /\ SystemFreeze(id) \in Change
      /\ LoggedChange(a, SystemFreeze(id))
  BY FreezeNextLogs
<1>2. /\ sync.phase = "freezing" /\ a \in sync.todo
      /\ sync' = [sync EXCEPT !.phase = "announcing", !.account = a,
                              !.logged = id]
      /\ UNCHANGED <<published, outside, queue, dead, inbox, calls, crashes,
                     failures, ghosts>>
  BY DEF FreezeNext
<1> HIDE DEF id
<1>3. /\ rows' \in [Accounts -> Row \union {None}]
      /\ history' \in [Accounts -> SUBSET Change]
  BY <1>1, LoggedChangeStep
<1>4. /\ RowsRemember' /\ HistoryCounted'
      /\ \A b \in Accounts : rows'[b] = None <=> rows[b] = None
  BY <1>1, LoggedChangeKeepsHistory
<1>5. /\ sync' \in SyncState
      /\ sync'.phase = "announcing" /\ sync'.account = a
      /\ sync'.event = sync.event /\ sync'.todo = sync.todo
  BY <1>1, <1>2 DEF TypeOK, SyncState
<1>6. TypeOK'
  BY <1>2, <1>3, <1>5 DEF TypeOK, SyncState
<1>7. /\ \A c \in Calls : call[c].account \in Accounts
      /\ \A b \in sync.todo : b \in Accounts
  BY DEF TypeOK
<1>8. CallsKnowRows' /\ InsertsAreNew'
  BY <1>2, <1>4, KnownRowsStay
<1>9. SyncKnowsRows'
  BY <1>2, <1>4, <1>5, <1>7 DEF SyncKnowsRows
<1> QED
  BY <1>4, <1>6, <1>8, <1>9

\* The rest of the consumer leaves the rows alone.
LEMMA SyncProgressKeepsInv ==
    ASSUME RowsInv,
           \/ AnnounceFreeze \/ CommitSync \/ AckSync \/ FailSync \/ CrashSync
           \/ \E a \in Accounts : SwallowFailure(a)
    PROVE  RowsInv'
<1> USE DEF RowsInv, tables, published, outside, calls, ghosts
<1>1. CASE AnnounceFreeze
  <2>1. sync.account \in Accounts /\ SystemFreeze(sync.logged) \in Change
    BY <1>1, SystemFreezeIsChange DEF AnnounceFreeze, SyncKnowsRows, TypeOK
  <2>2. events' \in [Accounts -> Seq(Change)]
    BY <1>1, <2>1 DEF AnnounceFreeze, TypeOK
  <2>3. /\ sync' \in SyncState
        /\ sync'.phase = "freezing" /\ sync'.event = sync.event
        /\ sync'.todo \subseteq sync.todo
    BY <1>1 DEF AnnounceFreeze, TypeOK, SyncState
  <2>4. sync.event \in Reviews
    BY <1>1 DEF AnnounceFreeze, SyncKnowsRows
  <2>5. TypeOK'
    BY <1>1, <2>2, <2>3 DEF AnnounceFreeze, TypeOK, SyncState
  <2>6. SyncKnowsRows'
    BY <1>1, <2>3, <2>4 DEF AnnounceFreeze, SyncKnowsRows
  <2> QED
    BY <1>1, <2>5, <2>6, ConsumerStepKeepsInv DEF AnnounceFreeze
<1>2. CASE CommitSync
  <2>1. TypeOK' /\ SyncKnowsRows'
    BY <1>2 DEF CommitSync, TypeOK, SyncKnowsRows
  <2> QED
    BY <1>2, <2>1, ConsumerStepKeepsInv DEF CommitSync
<1>3. CASE AckSync
  <2>1. TypeOK' /\ SyncKnowsRows'
    BY <1>3 DEF AckSync, TypeOK, SyncKnowsRows, Idle
  <2> QED
    BY <1>3, <2>1, ConsumerStepKeepsInv DEF AckSync
<1>4. CASE FailSync
  <2>1. sync.event \in Reviews
    BY <1>4 DEF FailSync, SyncKnowsRows
  <2>2. dead' \subseteq Reviews
    BY <1>4, <2>1 DEF FailSync, TypeOK
  <2>3. spared' \subseteq Accounts
    BY <1>4 DEF FailSync, TypeOK, ToFreeze
  <2>4. failures' \in 0 .. MaxFailures
    BY <1>4, AccountBoundsAssumption DEF FailSync, TypeOK
  <2>5. sync' = Idle /\ UNCHANGED <<tables, published, outside, queue, calls,
                                    crashes, closedBefore, openSince, overtaken>>
    BY <1>4 DEF FailSync
  <2>6. TypeOK' /\ SyncKnowsRows'
    BY <2>2, <2>3, <2>4, <2>5 DEF TypeOK, SyncKnowsRows, Idle
  <2> QED
    BY <2>5, <2>6, ConsumerStepKeepsInv
<1>5. CASE CrashSync
  <2>1. sync.event \in Reviews
    BY <1>5 DEF CrashSync, TypeOK, SyncKnowsRows, Idle
  <2>2. queue' \in Seq(Reviews)
    BY <1>5, <2>1 DEF CrashSync, TypeOK
  <2>3. TypeOK'
    BY <1>5, <2>2, AccountBoundsAssumption DEF CrashSync, TypeOK, Idle
  <2>4. SyncKnowsRows'
    BY <1>5 DEF CrashSync, SyncKnowsRows, Idle
  <2> QED
    BY <1>5, <2>3, <2>4, ConsumerStepKeepsInv DEF CrashSync
<1>6. ASSUME NEW a \in Accounts, SwallowFailure(a)
      PROVE  RowsInv'
  <2>1. sync.phase \in {"freezing", "announcing"} /\ sync.event \in Reviews
    BY <1>6 DEF SwallowFailure, SyncKnowsRows
  <2>2. failures' \in 0 .. MaxFailures
    <3>1. failures \in 0 .. MaxFailures /\ MaxFailures \in Nat
      BY AccountBoundsAssumption DEF TypeOK
    <3>2. failures < MaxFailures /\ failures' = failures + 1
      BY <1>6 DEF SwallowFailure
    <3> QED
      BY <3>1, <3>2
  <2>3. spared' \subseteq Accounts
    BY <1>6 DEF SwallowFailure, TypeOK
  <2>4. /\ sync' \in SyncState
        /\ sync'.phase = "freezing"
        /\ sync'.event = sync.event
        /\ sync'.todo \subseteq sync.todo
    BY <1>6 DEF SwallowFailure, TypeOK, SyncState
  <2>5. UNCHANGED <<tables, published, outside, queue, dead, calls, crashes,
                    closedBefore, openSince, overtaken>>
    BY <1>6 DEF SwallowFailure
  <2>6. TypeOK'
    BY <2>2, <2>3, <2>4, <2>5 DEF TypeOK, SyncState
  <2>7. SyncKnowsRows'
    BY <2>1, <2>4, <2>5 DEF SyncKnowsRows
  <2> QED
    BY <2>5, <2>6, <2>7, ConsumerStepKeepsInv
<1> QED
  BY <1>1, <1>2, <1>3, <1>4, <1>5, <1>6
-----------------------------------------------------------------------------
(* The specification. *)

\* Handlers that only read and decide, or only publish.
LEMMA DecisionsKeepInv ==
    ASSUME RowsInv, NEW c \in Calls,
           \/ CheckBalance(c) \/ PublishStatusChanged(c) \/ FailCall(c)
           \/ VerifyUserKyc(c) \/ CountAccounts(c)
           \/ ValidateSource(c) \/ ValidateDestination(c) \/ PostTransfer(c)
    PROVE  RowsInv'
<1> USE DEF tables, published, outside, consumer, ghosts
<1>1. /\ events \in [Accounts -> Seq(Change)] /\ balance \in [Accounts -> Nat]
      /\ {closedBefore, openSince} \subseteq [Calls -> SUBSET Accounts]
      /\ {"write", "done", "failed", "count", "insert",
          "destination", "post"} \subseteq CallPhase \ {"start", "commit"}
      /\ {"done", "failed", "count", "insert", "destination", "post"}
             \intersect Acting = {}
  BY DEF RowsInv, TypeOK, CallPhase, Answered, Acting
<1>2. CASE CheckBalance(c)
  <2>1. call[c].phase \in Acting
    BY <1>2 DEF CheckBalance, Acting
  <2>2. Go(c, "write") \/ Go(c, "failed")
    BY <1>2 DEF CheckBalance
  <2> QED
    BY <1>1, <1>2, <2>1, <2>2, ProgressKeepsInv DEF CheckBalance
<1>3. CASE PublishStatusChanged(c)
  <2>1. ChangeOf(c, call[c].logged) \in Change
    BY <1>3, ChangeOfIsChange DEF RowsInv, PublishStatusChanged, Acting, TypeOK
  <2>2. events' \in [Accounts -> Seq(Change)]
    BY <1>1, <1>3, <2>1 DEF PublishStatusChanged, RowsInv, TypeOK
  <2> QED
    BY <1>1, <1>3, <2>2, ProgressKeepsInv DEF PublishStatusChanged
<1>4. CASE FailCall(c)
  BY <1>1, <1>4, ProgressKeepsInv DEF FailCall
<1>5. CASE VerifyUserKyc(c)
  <2>1. Go(c, "count") \/ Go(c, "failed")
    BY <1>5 DEF VerifyUserKyc
  <2> QED
    BY <1>1, <1>5, <2>1, ProgressKeepsInv DEF VerifyUserKyc
<1>6. CASE CountAccounts(c)
  <2>1. Go(c, "insert") \/ Go(c, "failed")
    BY <1>6 DEF CountAccounts
  <2> QED
    BY <1>1, <1>6, <2>1, ProgressKeepsInv DEF CountAccounts
<1>7. CASE ValidateSource(c)
  <2>1. Go(c, "destination") \/ Go(c, "failed")
    BY <1>7 DEF ValidateSource
  <2>2. openSince' \in [Calls -> SUBSET Accounts]
    BY <1>1, <1>7 DEF ValidateSource
  <2> QED
    BY <1>1, <1>7, <2>1, <2>2, ProgressKeepsInv DEF ValidateSource
<1>8. CASE ValidateDestination(c)
  <2>1. Go(c, "post") \/ Go(c, "failed")
    BY <1>8 DEF ValidateDestination
  <2> QED
    BY <1>1, <1>8, <2>1, ProgressKeepsInv DEF ValidateDestination
<1>9. CASE PostTransfer(c)
  <2> DEFINE from == request[c].account
             to == request[c].to
  <2>1. from \in Accounts /\ to \in Accounts
    BY InputsAssumption DEF RowsInv, TypeOK, Input
  <2>2. /\ balance[from] > 0 /\ from # to
        /\ balance' = [balance EXCEPT ![from] = @ - 1, ![to] = @ + 1]
    BY <1>9 DEF PostTransfer
  <2> HIDE DEF from, to
  <2>3. balance \in [Accounts -> Nat]
    BY DEF RowsInv, TypeOK
  <2>4. balance[from] - 1 \in Nat /\ balance[to] + 1 \in Nat
    BY <2>1, <2>2, <2>3
  <2>5. balance' \in [Accounts -> Nat]
    BY <2>1, <2>2, <2>3, <2>4
  <2> QED
    BY <1>1, <1>9, <2>5, ProgressKeepsInv DEF PostTransfer
<1> QED
  BY <1>2, <1>3, <1>4, <1>5, <1>6, <1>7, <1>8, <1>9

\* Every step keeps the invariant.
THEOREM RowsInvInductive == RowsInv /\ [Next]_vars => RowsInv'
<1> SUFFICES ASSUME RowsInv, [Next]_vars
             PROVE  RowsInv'
  OBVIOUS
<1>1. ASSUME NEW c \in Calls, Handle(c)
      PROVE  RowsInv'
  BY <1>1, ReadAccountKeepsInv, WriteStatusKeepsInv, InsertAccountKeepsInv,
     CommitAccountKeepsInv, DecisionsKeepInv DEF Handle
<1>2. CASE CommitReview \/ RollbackReview \/ \E e \in Reviews : PublishReview(e)
  BY <1>2, OutsideKeepsInv
<1>3. CASE Sync
  BY <1>3, OutsideKeepsInv, OpenSyncKeepsInv, FreezeNextKeepsInv,
     SyncProgressKeepsInv DEF Sync
<1>4. CASE CrashSync \/ FailSync \/ \E a \in Accounts : SwallowFailure(a)
  BY <1>4, SyncProgressKeepsInv
<1>5. CASE UNCHANGED vars
  <2> USE <1>5 DEF vars, tables, published, outside, consumer, calls, ghosts, RowsInv
  <2>1. TypeOK'
    BY DEF TypeOK
  <2>2. SyncKnowsRows'
    BY DEF SyncKnowsRows
  <2> QED
    BY <2>1, <2>2, ConsumerStepKeepsInv
<1> QED
  BY <1>1, <1>2, <1>3, <1>4, <1>5 DEF Next

\* The invariant holds in every reachable state.
THEOREM RowsInvariance == Spec => []RowsInv
BY RowsInvInit, RowsInvInductive, PTL DEF Spec

\* Accounts is well typed; every account a handler or the consumer is about to
\* write to has a row, and no two requests are inserting the same one.
THEOREM RowsKnown == Spec => []RowsAreKnown
<1>1. RowsInv => RowsAreKnown
  BY DEF RowsInv, RowsAreKnown
<1> QED
  BY <1>1, RowsInvariance, PTL

-----------------------------------------------------------------------------
(* Who does what: the steps that write rows, and that move a call. *)

\* Rows and histories are written by the three transactions.
LEMMA RowWriters ==
    ASSUME [Next]_vars
    PROVE  \/ UNCHANGED <<rows, history>>
           \/ \E c \in Calls : WriteStatus(c) \/ CommitAccount(c)
           \/ \E a \in Accounts : FreezeNext(a)
<1> USE DEF tables
<1>1. ASSUME NEW c \in Calls, Handle(c), ~WriteStatus(c), ~CommitAccount(c)
      PROVE  UNCHANGED <<rows, history>>
  BY <1>1 DEF Handle, ReadAccount, CheckBalance, PublishStatusChanged, FailCall,
     VerifyUserKyc, CountAccounts, InsertAccount, ValidateSource,
     ValidateDestination, PostTransfer
<1>2. \/ Receive \/ OpenSync \/ AnnounceFreeze \/ CommitSync \/ AckSync
      \/ CrashSync \/ FailSync \/ \E a \in Accounts : SwallowFailure(a)
      \/ \E e \in Reviews : PublishReview(e)
      \/ CommitReview \/ RollbackReview \/ UNCHANGED vars
      => UNCHANGED <<rows, history>>
  BY DEF Receive, OpenSync, AnnounceFreeze, CommitSync, AckSync, CrashSync,
     FailSync, SwallowFailure, PublishReview, CommitReview, RollbackReview, vars
<1> QED
  BY <1>1, <1>2 DEF Next, Sync

\* A handler moves its own call and nobody else's.
LEMMA HandleMovesItsOwn ==
    ASSUME TypeOK, NEW c \in Calls, Handle(c), NEW d \in Calls, d # c
    PROVE  call'[d] = call[d]
<1>1. call \in [Calls -> CallState]
  BY DEF TypeOK, CallState
<1>2. ASSUME NEW phase, Go(c, phase)
      PROVE  call'[d] = call[d]
  BY <1>1, <1>2 DEF Go
<1>3. CASE ReadAccount(c)
  <2>1. CASE Go(c, "failed")
    BY <1>2, <2>1
  <2>2. CASE ~Go(c, "failed")
    <3>1. PICK seen, phase :
             call' = [call EXCEPT ![c].seen = seen, ![c].phase = phase]
      BY <1>3, <2>2 DEF ReadAccount
    <3> QED
      BY <1>1, <3>1
  <2> QED
    BY <2>1, <2>2
<1>4. CASE WriteStatus(c)
  <2>1. PICK id : call' = [call EXCEPT ![c].phase = "publish", ![c].logged = id]
    BY <1>4 DEF WriteStatus
  <2> QED
    BY <1>1, <2>1
<1>5. CASE InsertAccount(c)
  <2>1. PICK a : call' = [call EXCEPT ![c].phase = "commit", ![c].account = a]
    BY <1>5 DEF InsertAccount
  <2> QED
    BY <1>1, <2>1
<1>6. CASE \/ CheckBalance(c) \/ PublishStatusChanged(c) \/ FailCall(c)
           \/ VerifyUserKyc(c) \/ CountAccounts(c) \/ CommitAccount(c)
           \/ ValidateSource(c) \/ ValidateDestination(c) \/ PostTransfer(c)
  <2>1. \E phase : Go(c, phase)
    BY <1>6 DEF CheckBalance, PublishStatusChanged, FailCall, VerifyUserKyc,
       CountAccounts, CommitAccount, ValidateSource, ValidateDestination,
       PostTransfer
  <2> QED
    BY <1>2, <2>1
<1> QED
  BY <1>3, <1>4, <1>5, <1>6 DEF Handle

\* Only a handler moves a call.
LEMMA MovedByItsHandler ==
    ASSUME TypeOK, [Next]_vars, NEW c \in Calls, call'[c] # call[c]
    PROVE  Handle(c)
<1>1. \/ Sync \/ CrashSync \/ FailSync \/ \E a \in Accounts : SwallowFailure(a)
      \/ \E e \in Reviews : PublishReview(e)
      \/ CommitReview \/ RollbackReview \/ UNCHANGED vars
      => call' = call
  BY DEF Sync, Receive, OpenSync, FreezeNext, AnnounceFreeze, CommitSync, AckSync,
     CrashSync, FailSync, SwallowFailure, PublishReview, CommitReview,
     RollbackReview, vars, calls
<1>2. \E d \in Calls : Handle(d)
  BY <1>1 DEF Next
<1> QED
  BY <1>2, HandleMovesItsOwn

\* Handlers leave the consumer, the reviews and what is asked alone.
LEMMA HandlersLeaveAlone ==
    ASSUME NEW c \in Calls, Handle(c)
    PROVE  UNCHANGED <<sync, queue, inbox, dead, kyc, reviewing, reviewed, request>>
BY DEF Handle, ReadAccount, CheckBalance, WriteStatus, PublishStatusChanged,
   FailCall, VerifyUserKyc, CountAccounts, InsertAccount, CommitAccount,
   ValidateSource, ValidateDestination, PostTransfer, tables, outside, consumer

\* Accounts open when operations unfreeze them or when they are created.
LEMMA WaysToOpen ==
    ASSUME RowsInv, [Next]_vars, NEW a \in Accounts, ~Open(a), Open(a)'
    PROVE  \E c \in Calls :
               /\ call[c].account = a
               /\ \/ WriteStatus(c) /\ request[c].op = "unfreeze"
                  \/ CommitAccount(c)
<1> USE DEF Open, Found
<1>1. ASSUME NEW c \in Calls, WriteStatus(c)
      PROVE  call[c].account = a /\ request[c].op = "unfreeze"
  <2> DEFINE b == call[c].account
             change == ChangeOf(c, NewId(history[b]))
  <2>1. /\ b \in Accounts /\ rows[b] # None /\ change \in Change
        /\ change.new = Outcome[request[c].op] /\ request[c].op \in DOMAIN Outcome
        /\ LoggedChange(b, change)
    BY <1>1, WriteStatusLogs
  <2> HIDE DEF b, change
  <2>2. /\ rows'[b].status = change.new
        /\ \A x \in Accounts \ {b} : rows'[x] = rows[x]
    BY <2>1, LoggedChangeStep DEF RowsInv
  <2>3. a = b
    BY <2>2
  <2>4. Outcome[request[c].op] = "ACTIVE"
    BY <2>1, <2>2, <2>3
  <2> QED
    BY <2>1, <2>3, <2>4 DEF Outcome, b
<1>2. ASSUME NEW b \in Accounts, FreezeNext(b)
      PROVE  FALSE
  <2> DEFINE change == SystemFreeze(NewId(history[b]))
  <2>1. /\ rows[b] # None /\ change \in Change
        /\ change.new = "FROZEN" /\ LoggedChange(b, change)
    BY <1>2, FreezeNextLogs
  <2> HIDE DEF change
  <2>2. /\ rows'[b].status = "FROZEN"
        /\ \A x \in Accounts \ {b} : rows'[x] = rows[x]
    BY <2>1, LoggedChangeStep DEF RowsInv
  <2> QED
    BY <2>2
<1>3. ASSUME NEW c \in Calls, CommitAccount(c)
      PROVE  call[c].account = a
  BY <1>3, CommitAccountStep
<1> QED
  BY <1>1, <1>2, <1>3, RowWriters

-----------------------------------------------------------------------------
(* The inbox. *)

\* The event whose accounts are being frozen has no committed inbox row.
ApplyingIsNew ==
    sync.phase \in {"freezing", "announcing"} => sync.event \notin inbox

\* What a step may log under the name of the system.
SystemChangesAreNew ==
    \A a \in Accounts :
        (\E h \in history'[a] \ history[a] : h.by = "SYSTEM")
            => sync.event \notin inbox

\* Only the consumer touches what it holds and the inbox, and it takes up
\* only an event that is not there.
LEMMA ApplyingStaysNew ==
    ASSUME TypeOK, ApplyingIsNew, [Next]_vars
    PROVE  ApplyingIsNew'
<1> USE DEF ApplyingIsNew
<1>1. CASE UNCHANGED <<sync, inbox>>
  BY <1>1
<1>2. CASE Receive \/ AckSync \/ FailSync \/ CrashSync
  <2>1. Idle.phase = "idle" /\ [Idle EXCEPT !.phase = "received",
                                           !.event = Head(queue)].phase = "received"
    BY DEF Idle
  <2>2. sync'.phase \in {"idle", "received"}
    BY <1>2, <2>1 DEF Receive, AckSync, FailSync, CrashSync
  <2> QED
    BY <2>2
<1>3. CASE OpenSync
  <2>1. inbox' = inbox
    BY <1>3 DEF OpenSync, tables
  <2>2. CASE sync.event \in inbox
    BY <1>3, <2>2 DEF OpenSync, Idle
  <2>3. CASE sync.event \notin inbox
    BY <1>3, <2>1, <2>3 DEF OpenSync, TypeOK
  <2> QED
    BY <2>2, <2>3
<1>4. CASE AnnounceFreeze \/ \E a \in Accounts : FreezeNext(a) \/ SwallowFailure(a)
  <2>1. sync.phase \in {"freezing", "announcing"}
    BY <1>4 DEF AnnounceFreeze, FreezeNext, SwallowFailure
  <2>2. sync'.event = sync.event
    <3>1. CASE AnnounceFreeze
      BY <3>1 DEF AnnounceFreeze, TypeOK
    <3>2. CASE \E a \in Accounts : FreezeNext(a)
      BY <3>2 DEF FreezeNext, TypeOK
    <3>3. CASE \E a \in Accounts : SwallowFailure(a)
      BY <3>3 DEF SwallowFailure, TypeOK
    <3> QED
      BY <1>4, <3>1, <3>2, <3>3
  <2>3. inbox' = inbox
    BY <1>4 DEF AnnounceFreeze, FreezeNext, SwallowFailure, tables
  <2> QED
    BY <2>1, <2>2, <2>3
<1>5. CASE CommitSync
  BY <1>5 DEF CommitSync, TypeOK
<1>6. ASSUME NEW c \in Calls, Handle(c)
      PROVE  UNCHANGED <<sync, inbox>>
  BY <1>6, HandlersLeaveAlone
<1>7. \/ \E e \in Reviews : PublishReview(e)
      \/ CommitReview \/ RollbackReview \/ UNCHANGED vars
      => UNCHANGED <<sync, inbox>>
  BY DEF PublishReview, CommitReview, RollbackReview, vars, tables, consumer
<1> QED
  BY <1>1, <1>2, <1>3, <1>4, <1>5, <1>6, <1>7 DEF Next, Sync

\* Handlers log changes under a role of their own, and the consumer only
\* while it applies an event.
LEMMA SystemChangesOnlyNew ==
    ASSUME RowsInv, ApplyingIsNew, [Next]_vars
    PROVE  SystemChangesAreNew
<1> USE DEF SystemChangesAreNew
<1>1. CASE UNCHANGED history
  BY <1>1
<1>2. ASSUME NEW c \in Calls, WriteStatus(c)
      PROVE  SystemChangesAreNew
  <2> DEFINE b == call[c].account
             change == ChangeOf(c, NewId(history[b]))
  <2>1. /\ b \in Accounts /\ rows[b] # None /\ change \in Change
        /\ change.by # "SYSTEM" /\ LoggedChange(b, change)
    BY <1>2, WriteStatusLogs
  <2> HIDE DEF b, change
  <2>2. /\ history'[b] = history[b] \union {change}
        /\ \A x \in Accounts \ {b} : history'[x] = history[x]
    BY <2>1, LoggedChangeStep DEF RowsInv
  <2> QED
    BY <2>1, <2>2
<1>3. CASE \E a \in Accounts : FreezeNext(a)
  BY <1>3 DEF FreezeNext, ApplyingIsNew
<1>4. CASE \E c \in Calls : CommitAccount(c)
  BY <1>1, <1>4 DEF CommitAccount
<1> QED
  BY <1>1, <1>2, <1>3, <1>4, RowWriters

\* ADR-011: the inbox makes the consumer apply a review once, through crashes,
\* failures and redeliveries.
THEOREM AppliedOnce == Spec => ReviewAppliedOnce
<1>1. Init => ApplyingIsNew
  BY DEF Init, Idle, ApplyingIsNew
<1>2. RowsInv /\ ApplyingIsNew /\ [Next]_vars => ApplyingIsNew'
  BY ApplyingStaysNew DEF RowsInv
<1>3. RowsInv /\ ApplyingIsNew /\ [Next]_vars => [SystemChangesAreNew]_vars
  BY SystemChangesOnlyNew
<1>4. ReviewAppliedOnce <=> [][SystemChangesAreNew]_vars
  BY DEF ReviewAppliedOnce, SystemChangesAreNew
<1> QED
  BY <1>1, <1>2, <1>3, <1>4, RowsInvariance, PTL DEF Spec
-----------------------------------------------------------------------------
(* Closed accounts. *)

\* Handlers other than the two that commit leave rows and histories alone.
LEMMA RowWritersOfCall ==
    ASSUME NEW c \in Calls, Handle(c), ~WriteStatus(c), ~CommitAccount(c)
    PROVE  UNCHANGED <<rows, history>>
BY DEF Handle, ReadAccount, CheckBalance, PublishStatusChanged, FailCall,
   VerifyUserKyc, CountAccounts, InsertAccount, ValidateSource,
   ValidateDestination, PostTransfer, tables

\* Nothing is ever taken from a history.
LEMMA HistoryGrows ==
    ASSUME RowsInv, [Next]_vars, NEW a \in Accounts
    PROVE  history[a] \subseteq history'[a]
<1>1. ASSUME NEW c \in Calls, WriteStatus(c)
      PROVE  history[a] \subseteq history'[a]
  <2> DEFINE b == call[c].account
             change == ChangeOf(c, NewId(history[b]))
  <2>1. /\ b \in Accounts /\ rows[b] # None /\ change \in Change
        /\ LoggedChange(b, change)
    BY <1>1, WriteStatusLogs
  <2> HIDE DEF b, change
  <2> QED
    BY <2>1, LoggedChangeStep DEF RowsInv
<1>2. ASSUME NEW b \in Accounts, FreezeNext(b)
      PROVE  history[a] \subseteq history'[a]
  <2> DEFINE change == SystemFreeze(NewId(history[b]))
  <2>1. rows[b] # None /\ change \in Change /\ LoggedChange(b, change)
    BY <1>2, FreezeNextLogs
  <2> HIDE DEF change
  <2> QED
    BY <2>1, LoggedChangeStep DEF RowsInv
<1>3. CASE \E c \in Calls : CommitAccount(c)
  BY <1>3 DEF CommitAccount
<1> QED
  BY <1>1, <1>2, <1>3, RowWriters

\* A call that has decided to change an account keeps to that account.
LEMMA ActingSteps ==
    ASSUME RowsInv, NEW c \in Calls, Handle(c), call'[c].phase \in Acting
    PROVE  /\ call'[c].account = call[c].account
           /\ call[c].phase \notin Acting =>
                  ReadAccount(c) /\ Found(call[c].account)
<1> USE DEF RowsInv
<1>1. call \in [Calls -> CallState]
  BY DEF TypeOK, CallState
<1>2. ASSUME NEW phase \in CallPhase \ Acting, Go(c, phase)
      PROVE  FALSE
  BY <1>2, GoStep
<1>3. {"failed", "done", "count", "insert", "destination", "post"}
          \subseteq CallPhase \ Acting
  BY DEF CallPhase, Acting, Answered
<1>4. CASE ReadAccount(c)
  <2>1. ~Go(c, "failed")
    BY <1>2, <1>3
  <2>2. PICK seen, phase :
           /\ Found(request[c].account)
           /\ call[c].phase = "start"
           /\ call' = [call EXCEPT ![c].seen = seen, ![c].phase = phase]
    BY <1>4, <2>1 DEF ReadAccount
  <2>3. call'[c].account = call[c].account
    BY <1>1, <2>2 DEF CallState
  <2>4. request[c].account = call[c].account
    BY <2>2 DEF CallsKnowRows
  <2> QED
    BY <1>4, <2>2, <2>3, <2>4
<1>5. CASE CheckBalance(c)
  <2>1. Go(c, "write") \/ Go(c, "failed")
    BY <1>5 DEF CheckBalance
  <2>2. Go(c, "write") /\ "write" \in CallPhase
    BY <1>2, <1>3, <2>1 DEF CallPhase
  <2> QED
    BY <1>5, <2>2, GoStep DEF CheckBalance, Acting
<1>6. CASE WriteStatus(c)
  <2>1. PICK id : call' = [call EXCEPT ![c].phase = "publish", ![c].logged = id]
    BY <1>6 DEF WriteStatus
  <2> QED
    BY <1>1, <1>6, <2>1 DEF WriteStatus, Acting, CallState
<1>7. CASE InsertAccount(c)
  <2>1. PICK a : call' = [call EXCEPT ![c].phase = "commit", ![c].account = a]
    BY <1>7 DEF InsertAccount
  <2>2. call'[c].phase = "commit"
    BY <1>1, <2>1 DEF CallState
  <2> QED
    BY <2>2 DEF Acting
<1>8. CASE \/ PublishStatusChanged(c) \/ FailCall(c)
           \/ VerifyUserKyc(c) \/ CountAccounts(c) \/ CommitAccount(c)
           \/ ValidateSource(c) \/ ValidateDestination(c) \/ PostTransfer(c)
  <2>1. \E phase \in {"failed", "done", "count", "insert", "destination", "post"} :
            Go(c, phase)
    BY <1>8 DEF PublishStatusChanged, FailCall, VerifyUserKyc, CountAccounts,
       CommitAccount, ValidateSource, ValidateDestination, PostTransfer
  <2> QED
    BY <1>2, <1>3, <2>1
<1> QED
  BY <1>4, <1>5, <1>6, <1>7, <1>8 DEF Handle

\* What a call remembers of closings is what was closed when it read its row.
LEMMA ClosedBeforeStep ==
    ASSUME TypeOK, [Next]_vars, NEW c \in Calls
    PROVE  \/ closedBefore'[c] = closedBefore[c]
           \/ ReadAccount(c) /\ closedBefore'[c] = Closed
<1>1. \/ UNCHANGED closedBefore
      \/ \E d \in Calls : ReadAccount(d)
  BY DEF Next, Handle, CheckBalance, WriteStatus, PublishStatusChanged, FailCall,
     VerifyUserKyc, CountAccounts, InsertAccount, CommitAccount, ValidateSource,
     ValidateDestination, PostTransfer, Sync, Receive, OpenSync, FreezeNext,
     AnnounceFreeze, CommitSync, AckSync, CrashSync, FailSync, SwallowFailure,
     PublishReview, CommitReview, RollbackReview, vars, ghosts
<1>2. ASSUME NEW d \in Calls, ReadAccount(d)
      PROVE  \/ closedBefore'[c] = closedBefore[c]
             \/ d = c /\ closedBefore'[c] = Closed
  <2>1. closedBefore' = [closedBefore EXCEPT ![d] = Closed]
    BY <1>2 DEF ReadAccount
  <2>2. closedBefore \in [Calls -> SUBSET Accounts]
    BY DEF TypeOK
  <2> QED
    BY <2>1, <2>2
<1> QED
  BY <1>1, <1>2

\* What a call remembers is closed, and not what it is about to change.
ClosedAreLeft ==
    \A c \in Calls :
        /\ closedBefore[c] \subseteq Closed
        /\ call[c].phase \in Acting => call[c].account \notin closedBefore[c]

\* Only ReadAccount lets a call act and sets what it remembers, and it does
\* not find closed accounts.
LEMMA ClosedStayLeft ==
    ASSUME RowsInv, ClosedAreLeft, [Next]_vars
    PROVE  ClosedAreLeft'
<1> SUFFICES ASSUME NEW c \in Calls
             PROVE  /\ closedBefore'[c] \subseteq Closed'
                    /\ call'[c].phase \in Acting =>
                           call'[c].account \notin closedBefore'[c]
  BY DEF ClosedAreLeft
<1>1. Closed \subseteq Closed'
  BY HistoryGrows DEF Closed
<1>2. closedBefore'[c] \subseteq Closed'
  BY <1>1, ClosedBeforeStep DEF ClosedAreLeft, RowsInv
<1>3. ASSUME call'[c].phase \in Acting
      PROVE  call'[c].account \notin closedBefore'[c]
  <2>1. CASE ~Handle(c)
    <3>1. call'[c] = call[c]
      BY <2>1, MovedByItsHandler DEF RowsInv
    <3>2. ~ReadAccount(c)
      BY <2>1 DEF Handle
    <3> QED
      BY <1>3, <3>1, <3>2, ClosedBeforeStep DEF ClosedAreLeft, RowsInv
  <2>2. CASE Handle(c) /\ call[c].phase \in Acting
    <3>1. ~ReadAccount(c)
      BY <2>2 DEF ReadAccount, Acting
    <3> QED
      BY <1>3, <2>2, <3>1, ActingSteps, ClosedBeforeStep DEF ClosedAreLeft, RowsInv
  <2>3. CASE Handle(c) /\ call[c].phase \notin Acting
    <3>1. /\ ReadAccount(c) /\ Found(call[c].account)
          /\ call'[c].account = call[c].account
      BY <1>3, <2>3, ActingSteps
    <3>2. call[c].account \in Accounts
      BY DEF RowsInv, TypeOK
    <3>3. call[c].account \notin Closed
      BY <3>1, <3>2 DEF Found, RowsInv, RowsRemember
    <3>4. closedBefore'[c] = Closed
      BY <3>1 DEF ReadAccount, RowsInv, TypeOK
    <3> QED
      BY <3>1, <3>3, <3>4
  <2> QED
    BY <2>1, <2>2, <2>3
<1> QED
  BY <1>2, <1>3

\* What a step of one call may do to accounts closed before it looked.
ClosedUntouched ==
    \A c \in Calls : call'[c] # call[c] =>
        \A a \in closedBefore[c] : /\ rows'[a] = rows[a]
                                   /\ history'[a] = history[a]

LEMMA ClosedAreUntouched ==
    ASSUME RowsInv, ClosedAreLeft, [Next]_vars
    PROVE  ClosedUntouched
<1> SUFFICES ASSUME NEW c \in Calls, call'[c] # call[c],
                    NEW a \in closedBefore[c]
             PROVE  rows'[a] = rows[a] /\ history'[a] = history[a]
  BY DEF ClosedUntouched
<1>1. Handle(c)
  BY MovedByItsHandler DEF RowsInv
<1>2. a \in Closed /\ a \in Accounts
  BY DEF ClosedAreLeft, Closed
<1>3. CASE WriteStatus(c)
  <2> DEFINE b == call[c].account
             change == ChangeOf(c, NewId(history[b]))
  <2>1. /\ b \in Accounts /\ rows[b] # None /\ change \in Change
        /\ LoggedChange(b, change)
    BY <1>3, WriteStatusLogs
  <2>2. b # a
    BY <1>3 DEF WriteStatus, ClosedAreLeft, Acting
  <2> HIDE DEF b, change
  <2> QED
    BY <1>2, <2>1, <2>2, LoggedChangeStep DEF RowsInv
<1>4. CASE CommitAccount(c)
  <2>1. history[call[c].account] = {}
    BY <1>4, CommitAccountStep
  <2>2. call[c].account # a
    BY <1>2, <2>1 DEF Closed
  <2> QED
    BY <1>2, <1>4, <2>2, CommitAccountStep
<1> QED
  BY <1>1, <1>3, <1>4, RowWritersOfCall

\* A closed account is left as it is by every request that comes after its
\* closing, however the requests before it interleave.
THEOREM ClosedForGood == Spec => ClosedStaysClosed
<1>1. Init => ClosedAreLeft
  BY DEF Init, ClosedAreLeft, Acting
<1>2. RowsInv /\ ClosedAreLeft /\ [Next]_vars => ClosedAreLeft'
  BY ClosedStayLeft
<1>3. RowsInv /\ ClosedAreLeft /\ [Next]_vars => [ClosedUntouched]_vars
  BY ClosedAreUntouched
<1>4. ClosedStaysClosed <=> [][ClosedUntouched]_vars
  BY DEF ClosedStaysClosed, ClosedUntouched
<1> QED
  BY <1>1, <1>2, <1>3, <1>4, RowsInvariance, PTL DEF Spec
-----------------------------------------------------------------------------
(* Transfers. *)

\* How a call reaches the destination check and the ledger.
LEMMA TransferSteps ==
    ASSUME RowsInv, NEW c \in Calls, Handle(c),
           call'[c].phase \in {"destination", "post"}
    PROVE  \/ /\ ValidateSource(c)
              /\ Open(request[c].account)
              /\ call'[c].phase = "destination"
           \/ /\ ValidateDestination(c)
              /\ Open(request[c].to)
              /\ call[c].phase = "destination"
<1> USE DEF RowsInv
<1>1. call \in [Calls -> CallState]
  BY DEF TypeOK, CallState
<1>2. ASSUME NEW phase \in CallPhase \ {"destination", "post"}, Go(c, phase)
      PROVE  FALSE
  BY <1>2, GoStep
<1>3. {"failed", "done", "count", "insert", "write"}
          \subseteq CallPhase \ {"destination", "post"}
  BY DEF CallPhase, Answered
<1>4. CASE ReadAccount(c)
  <2>1. ~Go(c, "failed")
    BY <1>2, <1>3
  <2> DEFINE next == IF request[c].op = "close" THEN "balance" ELSE "write"
  <2>2. PICK seen, phase : /\ phase = next
                           /\ call' = [call EXCEPT ![c].seen = seen,
                                                   ![c].phase = phase]
    BY <1>4, <2>1 DEF ReadAccount
  <2>3. call'[c].phase = phase
    BY <1>1, <2>2 DEF CallState
  <2> QED
    BY <2>2, <2>3
<1>5. CASE WriteStatus(c)
  <2>1. PICK id : call' = [call EXCEPT ![c].phase = "publish", ![c].logged = id]
    BY <1>5 DEF WriteStatus
  <2> QED
    BY <1>1, <2>1 DEF CallState
<1>6. CASE InsertAccount(c)
  <2>1. PICK a : call' = [call EXCEPT ![c].phase = "commit", ![c].account = a]
    BY <1>6 DEF InsertAccount
  <2> QED
    BY <1>1, <2>1 DEF CallState
<1>7. CASE \/ CheckBalance(c) \/ PublishStatusChanged(c) \/ FailCall(c)
           \/ VerifyUserKyc(c) \/ CountAccounts(c) \/ CommitAccount(c)
           \/ PostTransfer(c)
  <2>1. \E phase \in {"failed", "done", "count", "insert", "write"} : Go(c, phase)
    BY <1>7 DEF CheckBalance, PublishStatusChanged, FailCall, VerifyUserKyc,
       CountAccounts, CommitAccount, PostTransfer
  <2> QED
    BY <1>2, <1>3, <2>1
<1>8. CASE ValidateSource(c)
  <2>1. Go(c, "destination") /\ Open(request[c].account)
    BY <1>2, <1>3, <1>8 DEF ValidateSource
  <2>2. "destination" \in CallPhase
    BY DEF CallPhase
  <2> QED
    BY <1>8, <2>1, <2>2, GoStep
<1>9. CASE ValidateDestination(c)
  BY <1>2, <1>3, <1>9 DEF ValidateDestination
<1> QED
  BY <1>4, <1>5, <1>6, <1>7, <1>8, <1>9 DEF Handle

\* What a transfer has seen open is not forgotten before it is answered.
LEMMA OpenSinceStep ==
    ASSUME TypeOK, [Next]_vars, NEW c \in Calls
    PROVE  ValidateSource(c) \/ openSince[c] \subseteq openSince'[c]
<1>1. \/ UNCHANGED openSince
      \/ \E d \in Calls : ValidateSource(d)
      \/ \E a \in Accounts : openSince' = OpenFor(a)
  <2>1. ASSUME NEW d \in Calls, WriteStatus(d) \/ CommitAccount(d)
        PROVE  \/ UNCHANGED openSince
               \/ \E a \in Accounts : openSince' = OpenFor(a)
    <3>1. call[d].account \in Accounts
      BY DEF TypeOK
    <3> QED
      BY <2>1, <3>1 DEF WriteStatus, CommitAccount
  <2> QED
    BY <2>1 DEF Next, Handle, ReadAccount, CheckBalance, PublishStatusChanged,
       FailCall, VerifyUserKyc, CountAccounts, InsertAccount,
       ValidateDestination, PostTransfer, Sync, Receive, OpenSync, FreezeNext,
       AnnounceFreeze, CommitSync, AckSync, CrashSync, FailSync, SwallowFailure,
       PublishReview, CommitReview, RollbackReview, vars, ghosts
<1>2. ASSUME NEW d \in Calls, ValidateSource(d), d # c
      PROVE  openSince'[c] = openSince[c]
  <2>1. openSince' = [openSince EXCEPT ![d] = {a \in Accounts : Open(a)}]
    BY <1>2 DEF ValidateSource
  <2> QED
    BY <1>2, <2>1 DEF TypeOK
<1>3. ASSUME NEW a \in Accounts, openSince' = OpenFor(a)
      PROVE  openSince[c] \subseteq openSince'[c]
  BY <1>3 DEF OpenFor
<1> QED
  BY <1>1, <1>2, <1>3

\* A transfer that passed a check counts among the open accounts all that are,
\* and those it checked.
OpenAreKnown ==
    \A c \in Calls :
        /\ call[c].phase \in {"destination", "post"} =>
               /\ \A a \in Accounts : Open(a) => a \in openSince[c]
               /\ request[c].account \in openSince[c]
        /\ call[c].phase = "post" => request[c].to \in openSince[c]

\* Accounts open by an unfreeze or a creation, which tell the transfers.
LEMMA OpenStayKnown ==
    ASSUME RowsInv, OpenAreKnown, [Next]_vars
    PROVE  OpenAreKnown'
<1> SUFFICES ASSUME NEW c \in Calls, call'[c].phase \in {"destination", "post"}
             PROVE  /\ \A a \in Accounts : Open(a)' => a \in openSince'[c]
                    /\ request'[c].account \in openSince'[c]
                    /\ call'[c].phase = "post" => request'[c].to \in openSince'[c]
  BY DEF OpenAreKnown
<1> request' = request
  BY HandlersLeaveAlone DEF Next, Sync, Receive, OpenSync, FreezeNext,
     AnnounceFreeze, CommitSync, AckSync, CrashSync, FailSync, SwallowFailure,
     PublishReview, CommitReview, RollbackReview, vars, calls
<1> request[c].account \in Accounts /\ request[c].to \in Accounts
  BY InputsAssumption DEF RowsInv, TypeOK, Input
<1>1. ASSUME ~Handle(c)
      PROVE  /\ \A a \in Accounts : Open(a)' => a \in openSince'[c]
             /\ request[c].account \in openSince'[c]
             /\ call'[c].phase = "post" => request[c].to \in openSince'[c]
  <2>1. call'[c] = call[c]
    BY <1>1, MovedByItsHandler DEF RowsInv
  <2>2. openSince[c] \subseteq openSince'[c]
    BY <1>1, OpenSinceStep DEF Handle, RowsInv
  <2>3. ASSUME NEW a \in Accounts, ~Open(a), Open(a)'
        PROVE  a \in openSince'[c]
    <3>1. openSince' = OpenFor(a)
      BY <2>3, WaysToOpen DEF WriteStatus, CommitAccount
    <3> QED
      BY <2>1, <3>1 DEF OpenFor
  <2> QED
    BY <2>1, <2>2, <2>3 DEF OpenAreKnown
<1>2. ASSUME ValidateSource(c), Open(request[c].account),
             call'[c].phase = "destination"
      PROVE  /\ \A a \in Accounts : Open(a)' => a \in openSince'[c]
             /\ request[c].account \in openSince'[c]
             /\ call'[c].phase = "post" => request[c].to \in openSince'[c]
  <2>1. openSince'[c] = {a \in Accounts : Open(a)} /\ rows' = rows
    BY <1>2 DEF ValidateSource, RowsInv, TypeOK, tables
  <2> QED
    BY <1>2, <2>1 DEF Open, Found
<1>3. ASSUME ValidateDestination(c), Open(request[c].to),
             call[c].phase = "destination"
      PROVE  /\ \A a \in Accounts : Open(a)' => a \in openSince'[c]
             /\ request[c].account \in openSince'[c]
             /\ call'[c].phase = "post" => request[c].to \in openSince'[c]
  <2>1. openSince' = openSince /\ rows' = rows
    BY <1>3 DEF ValidateDestination, ghosts, tables
  <2>2. \A a \in Accounts : Open(a)' <=> Open(a)
    BY <2>1 DEF Open, Found
  <2> QED
    BY <1>3, <2>1, <2>2 DEF OpenAreKnown
<1> QED
  BY <1>1, <1>2, <1>3, TransferSteps

\* What a step of one call may do to balances.
ShutUntouched ==
    \A c \in Calls : call'[c] # call[c] =>
        \A a \in Accounts \ openSince[c] : balance'[a] = balance[a]

LEMMA ShutAreUntouched ==
    ASSUME RowsInv, OpenAreKnown, [Next]_vars
    PROVE  ShutUntouched
<1> SUFFICES ASSUME NEW c \in Calls, call'[c] # call[c],
                    NEW a \in Accounts \ openSince[c]
             PROVE  balance'[a] = balance[a]
  BY DEF ShutUntouched
<1>1. Handle(c)
  BY MovedByItsHandler DEF RowsInv
<1>2. CASE PostTransfer(c)
  <2>1. a # request[c].account /\ a # request[c].to
    BY <1>2 DEF PostTransfer, OpenAreKnown
  <2>2. PICK x, y : balance' = [balance EXCEPT ![request[c].account] = x,
                                               ![request[c].to] = y]
    BY <1>2 DEF PostTransfer
  <2> QED
    BY <2>1, <2>2 DEF RowsInv, TypeOK
<1>3. ASSUME ~PostTransfer(c)
      PROVE  balance' = balance
  BY <1>1, <1>3 DEF Handle, ReadAccount, CheckBalance, WriteStatus,
     PublishStatusChanged, FailCall, VerifyUserKyc, CountAccounts, InsertAccount,
     CommitAccount, ValidateSource, ValidateDestination, outside
<1> QED
  BY <1>2, <1>3

\* No transfer moves money of an account that has been shut ever since the
\* transfer arrived.
THEOREM MoneyMovesInTheOpen == Spec => ShutAccountsMoveNothing
<1>1. Init => OpenAreKnown
  BY DEF Init, OpenAreKnown
<1>2. RowsInv /\ OpenAreKnown /\ [Next]_vars => OpenAreKnown'
  BY OpenStayKnown
<1>3. RowsInv /\ OpenAreKnown /\ [Next]_vars => [ShutUntouched]_vars
  BY ShutAreUntouched
<1>4. ShutAccountsMoveNothing <=> [][ShutUntouched]_vars
  BY DEF ShutAccountsMoveNothing, ShutUntouched
<1> QED
  BY <1>1, <1>2, <1>3, <1>4, RowsInvariance, PTL DEF Spec
-----------------------------------------------------------------------------
(* The limit. *)

\* Creations that another one overtook, and that were committed.
Late == {c \in overtaken : call[c].phase = "done"}

\* The portfolio is finite and over the limit by late creations only, and
\* whoever is past its count without being overtaken has room.
RoomIsKept ==
    /\ IsFiniteSet(Portfolio)
    /\ Cardinality(Portfolio) <= AccountLimit + Cardinality(Late)
    /\ \A c \in Calls \ overtaken : call[c].phase \in {"insert", "commit"} =>
           Cardinality(Portfolio) < AccountLimit

\* Only a creation adds to the portfolio, and only its account.
LEMMA PortfolioAfter ==
    ASSUME RowsInv, [Next]_vars
    PROVE  /\ \A c \in Calls : CommitAccount(c) =>
                  /\ call[c].account \notin Portfolio
                  /\ Portfolio' \subseteq Portfolio \union {call[c].account}
           /\ ~(\E c \in Calls : CommitAccount(c)) => Portfolio' \subseteq Portfolio
<1> USE DEF Portfolio, Found
<1>1. ASSUME NEW c \in Calls, CommitAccount(c)
      PROVE  /\ call[c].account \notin Portfolio
             /\ Portfolio' \subseteq Portfolio \union {call[c].account}
  BY <1>1, CommitAccountStep
<1>2. ASSUME NEW b \in Accounts, rows[b] # None, NEW change \in Change,
             LoggedChange(b, change)
      PROVE  Portfolio' \subseteq Portfolio
  <2>1. /\ rows'[b].status = change.new
        /\ rows'[b].deleted <=> rows[b].deleted \/ change.new = "CLOSED"
        /\ \A x \in Accounts \ {b} : rows'[x] = rows[x]
    BY <1>2, LoggedChangeStep DEF RowsInv
  <2>2. rows[b].status = "CLOSED" => rows[b].deleted
    BY <1>2 DEF RowsInv, RowsRemember
  <2> QED
    BY <1>2, <2>1, <2>2
<1>3. ASSUME NEW c \in Calls, WriteStatus(c)
      PROVE  Portfolio' \subseteq Portfolio
  BY <1>2, <1>3, WriteStatusLogs
<1>4. ASSUME NEW b \in Accounts, FreezeNext(b)
      PROVE  Portfolio' \subseteq Portfolio
  BY <1>2, <1>4, FreezeNextLogs
<1> HIDE DEF Portfolio, Found
<1>5. UNCHANGED rows => Portfolio' = Portfolio
  BY DEF Portfolio, Found
<1> QED
  BY <1>1, <1>3, <1>4, <1>5, RowWriters

\* How a call gets past its count.
LEMMA CreationSteps ==
    ASSUME RowsInv, IsFiniteSet(Portfolio), NEW c \in Calls, Handle(c),
           call'[c].phase \in {"insert", "commit"}
    PROVE  \/ /\ CountAccounts(c)
              /\ Cardinality(Portfolio) < AccountLimit
           \/ call[c].phase \in {"insert", "commit"}
<1> USE DEF RowsInv
<1>1. call \in [Calls -> CallState]
  BY DEF TypeOK, CallState
<1>2. ASSUME NEW phase \in CallPhase \ {"insert", "commit"}, Go(c, phase)
      PROVE  FALSE
  BY <1>2, GoStep
<1>3. {"failed", "done", "count", "write", "destination", "post"}
          \subseteq CallPhase \ {"insert", "commit"}
  BY DEF CallPhase, Answered
<1>4. CASE ReadAccount(c)
  <2>1. ~Go(c, "failed")
    BY <1>2, <1>3
  <2> DEFINE next == IF request[c].op = "close" THEN "balance" ELSE "write"
  <2>2. PICK seen, phase : /\ phase = next
                           /\ call' = [call EXCEPT ![c].seen = seen,
                                                   ![c].phase = phase]
    BY <1>4, <2>1 DEF ReadAccount
  <2>3. call'[c].phase = phase
    BY <1>1, <2>2 DEF CallState
  <2> QED
    BY <2>2, <2>3
<1>5. CASE WriteStatus(c)
  <2>1. PICK id : call' = [call EXCEPT ![c].phase = "publish", ![c].logged = id]
    BY <1>5 DEF WriteStatus
  <2> QED
    BY <1>1, <2>1 DEF CallState
<1>6. CASE InsertAccount(c)
  BY <1>6 DEF InsertAccount
<1>7. CASE \/ CheckBalance(c) \/ PublishStatusChanged(c) \/ FailCall(c)
           \/ VerifyUserKyc(c) \/ CommitAccount(c)
           \/ ValidateSource(c) \/ ValidateDestination(c) \/ PostTransfer(c)
  <2>1. \E phase \in {"failed", "done", "count", "write", "destination", "post"} :
            Go(c, phase)
    BY <1>7 DEF CheckBalance, PublishStatusChanged, FailCall, VerifyUserKyc,
       CommitAccount, ValidateSource, ValidateDestination, PostTransfer
  <2> QED
    BY <1>2, <1>3, <2>1
<1>8. CASE CountAccounts(c)
  <2>1. ~Go(c, "failed")
    BY <1>2, <1>3
  <2>2. ~(Cardinality(Portfolio) >= AccountLimit)
    BY <1>8, <2>1 DEF CountAccounts
  <2>3. Cardinality(Portfolio) \in Nat /\ AccountLimit \in Nat
    BY FS_CardinalityType, AccountBoundsAssumption
  <2>4. Cardinality(Portfolio) < AccountLimit
    BY <2>2, <2>3
  <2> QED
    BY <1>8, <2>4
<1> QED
  BY <1>4, <1>5, <1>6, <1>7, <1>8 DEF Handle
\* Nobody leaves "done", and overtaken creations stay overtaken.
LEMMA LateStep ==
    ASSUME RowsInv, [Next]_vars
    PROVE  /\ overtaken \subseteq overtaken'
           /\ Late \subseteq Late'
           /\ overtaken' # overtaken => \E c \in Calls : CommitAccount(c)
<1>1. /\ overtaken \subseteq overtaken'
      /\ overtaken' # overtaken => \E c \in Calls : CommitAccount(c)
  BY DEF Next, Handle, ReadAccount, CheckBalance, WriteStatus,
     PublishStatusChanged, FailCall, VerifyUserKyc, CountAccounts, InsertAccount,
     CommitAccount, ValidateSource, ValidateDestination, PostTransfer, Sync,
     Receive, OpenSync, FreezeNext, AnnounceFreeze, CommitSync, AckSync,
     CrashSync, FailSync, SwallowFailure, PublishReview, CommitReview,
     RollbackReview, vars, ghosts
<1>2. ASSUME NEW c \in Calls, call[c].phase = "done"
      PROVE  ~Handle(c)
  BY <1>2 DEF Handle, ReadAccount, CheckBalance, WriteStatus,
     PublishStatusChanged, FailCall, VerifyUserKyc, CountAccounts, InsertAccount,
     CommitAccount, ValidateSource, ValidateDestination, PostTransfer, Answered
<1>3. \A c \in Calls : call[c].phase = "done" => call'[c].phase = "done"
  BY <1>2, MovedByItsHandler DEF RowsInv
<1>4. overtaken \subseteq Calls
  BY DEF RowsInv, TypeOK
<1> QED
  BY <1>1, <1>3, <1>4 DEF Late

\* A commit takes the room its own count has left, unless it was overtaken:
\* then it counts as late.
LEMMA CommitKeepsRoom ==
    ASSUME RowsInv, RoomIsKept, IsFiniteSet(Calls), [Next]_vars,
           NEW c \in Calls, CommitAccount(c)
    PROVE  RoomIsKept'
<1> DEFINE P == Portfolio
           Q == Portfolio'
           L == Late
           M == Late'
           a == call[c].account
           p == Cardinality(P)
           q == Cardinality(Q)
           l == Cardinality(L)
           m == Cardinality(M)
<1>1. /\ IsFiniteSet(P) /\ p <= AccountLimit + l
      /\ c \notin overtaken => p < AccountLimit
  BY DEF RoomIsKept, CommitAccount
<1>2. a \notin P /\ Q \subseteq P \union {a}
  BY PortfolioAfter
<1>3. /\ overtaken \subseteq overtaken' /\ L \subseteq M
      /\ overtaken' \subseteq Calls
  BY LateStep, RowsInvInductive DEF RowsInv, TypeOK
<1>4. call'[c].phase = "done"
  <2>1. "done" \in CallPhase /\ Go(c, "done")
    BY DEF CommitAccount, CallPhase, Answered
  <2> QED
    BY <2>1, GoStep DEF RowsInv
<1>5. c \in overtaken => c \notin L /\ c \in M
  <2>1. call[c].phase = "commit"
    BY DEF CommitAccount
  <2> QED
    BY <1>3, <1>4, <2>1 DEF Late
<1>6. L \subseteq Calls /\ M \subseteq Calls
  BY <1>3 DEF Late, RowsInv, TypeOK
<1>7. \A d \in Calls \ overtaken' : call'[d].phase \notin {"insert", "commit"}
  <2> SUFFICES ASSUME NEW d \in Calls \ overtaken'
               PROVE  call'[d].phase \notin {"insert", "commit"}
    OBVIOUS
  <2>1. CASE d = c
    BY <1>4, <2>1
  <2>2. CASE d # c
    <3>1. Handle(c)
      BY DEF Handle
    <3>2. call'[d] = call[d]
      BY <2>2, <3>1, HandleMovesItsOwn DEF RowsInv
    <3>3. call[d].phase \notin {"insert", "commit"}
      BY <2>2 DEF CommitAccount
    <3> QED
      BY <3>2, <3>3
  <2> QED
    BY <2>1, <2>2
<1> HIDE DEF P, Q, L, M, a
<1>8. IsFiniteSet(L) /\ IsFiniteSet(M) /\ l \in Nat /\ m \in Nat /\ l <= m
  BY <1>3, <1>6, FS_Subset, FS_CardinalityType
<1>9. IsFiniteSet(Q) /\ q \in Nat /\ p \in Nat /\ q <= p + 1
  <2> DEFINE R == P \union {a}
  <2>1. IsFiniteSet(R) /\ Cardinality(R) = p + 1
    BY <1>1, <1>2, FS_AddElement
  <2>2. Q \subseteq R
    BY <1>2
  <2> HIDE DEF R
  <2> QED
    BY <1>1, <2>1, <2>2, FS_Subset, FS_CardinalityType
<1>10. c \in overtaken => l + 1 <= m
  <2> SUFFICES ASSUME c \in overtaken
               PROVE  l + 1 <= m
    OBVIOUS
  <2> DEFINE N == L \union {c}
  <2>1. IsFiniteSet(N) /\ Cardinality(N) = l + 1
    BY <1>5, <1>8, FS_AddElement
  <2>2. N \subseteq M
    BY <1>3, <1>5
  <2> HIDE DEF N
  <2>3. Cardinality(N) <= Cardinality(M)
    BY <1>8, <2>2, FS_Subset
  <2> QED
    BY <2>1, <2>3
<1> HIDE DEF p, q, l, m
<1>11. q <= AccountLimit + m
  BY <1>1, <1>8, <1>9, <1>10, AccountBoundsAssumption
<1> QED
  BY <1>7, <1>9, <1>11 DEF RoomIsKept, P, Q, L, M, q, m

\* Every step leaves room where there was, and takes only what a count left.
LEMMA RoomStaysKept ==
    ASSUME RowsInv, RoomIsKept, IsFiniteSet(Calls), [Next]_vars
    PROVE  RoomIsKept'
<1>1. ASSUME ~(\E c \in Calls : CommitAccount(c))
      PROVE  RoomIsKept'
  <2> DEFINE P == Portfolio
             Q == Portfolio'
             L == Late
             M == Late'
  <2>1. Q \subseteq P /\ L \subseteq M /\ overtaken' = overtaken
    BY <1>1, PortfolioAfter, LateStep
  <2>2. L \subseteq Calls /\ M \subseteq Calls
    BY <2>1 DEF Late, RowsInv, TypeOK
  <2>3. IsFiniteSet(P) /\ Cardinality(P) <= AccountLimit + Cardinality(L)
    BY DEF RoomIsKept
  <2>4. ASSUME NEW c \in Calls \ overtaken', call'[c].phase \in {"insert", "commit"}
        PROVE  Cardinality(P) < AccountLimit
    <3>1. CASE ~Handle(c)
      BY <2>1, <2>4, <3>1, MovedByItsHandler DEF RowsInv, RoomIsKept
    <3>2. CASE Handle(c)
      BY <2>1, <2>3, <2>4, <3>2, CreationSteps DEF RoomIsKept
    <3> QED
      BY <3>1, <3>2
  <2> HIDE DEF P, Q, L, M
  <2>5. /\ IsFiniteSet(Q) /\ Cardinality(Q) \in Nat /\ Cardinality(P) \in Nat
        /\ Cardinality(Q) <= Cardinality(P)
    BY <2>1, <2>3, FS_Subset, FS_CardinalityType
  <2>6. /\ Cardinality(L) \in Nat /\ Cardinality(M) \in Nat
        /\ Cardinality(L) <= Cardinality(M)
    BY <2>1, <2>2, FS_Subset, FS_CardinalityType
  <2>7. Cardinality(Q) <= AccountLimit + Cardinality(M)
    BY <2>3, <2>5, <2>6, AccountBoundsAssumption
  <2>8. \A c \in Calls \ overtaken' : call'[c].phase \in {"insert", "commit"} =>
            Cardinality(Q) < AccountLimit
    BY <2>4, <2>5, AccountBoundsAssumption
  <2> QED
    BY <2>5, <2>7, <2>8 DEF RoomIsKept, P, Q, L, M
<1> QED
  BY <1>1, CommitKeepsRoom

\* Count-then-insert lets the user's accounts exceed the limit by no more than
\* the creations overtaken between the two, however many run at once.
THEOREM LimitExceededByLateOnly ==
    ASSUME IsFiniteSet(Calls), IsFiniteSet(Opened),
           Cardinality(Opened) <= AccountLimit
    PROVE  Spec => []LimitOverrunByRace
<1>1. Init => RoomIsKept
  <2> SUFFICES ASSUME Init
               PROVE  RoomIsKept
    OBVIOUS
  <2>1. Portfolio = Opened
    <3>1. \A a \in Opened : rows[a] = [status |-> "ACTIVE", deleted |-> FALSE]
      BY OpenedAssumption DEF Init
    <3>2. \A a \in Opened : a \in Accounts /\ rows[a] # None
                            /\ ~rows[a].deleted /\ rows[a].status # "CLOSED"
      BY <3>1, OpenRow, OpenedAssumption, NoneAssumption
    <3>3. \A a \in Accounts \ Opened : rows[a] = None
      BY DEF Init
    <3> QED
      BY <3>2, <3>3 DEF Portfolio, Found
  <2>2. Late = {}
    BY DEF Init, Late
  <2>3. Cardinality(Late) = 0
    BY <2>2, FS_EmptySet
  <2>4. Cardinality(Opened) \in Nat
    BY FS_CardinalityType
  <2>5. \A c \in Calls : call[c].phase = "start"
    BY DEF Init
  <2> QED
    BY <2>1, <2>3, <2>4, <2>5, AccountBoundsAssumption DEF RoomIsKept
<1>2. RowsInv /\ RoomIsKept /\ [Next]_vars => RoomIsKept'
  BY RoomStaysKept
<1>3. RoomIsKept => LimitOverrunByRace
  BY DEF RoomIsKept, Late, LimitOverrunByRace
<1> QED
  BY <1>1, <1>2, <1>3, RowsInvariance, PTL DEF Spec
-----------------------------------------------------------------------------
(* The events. *)

\* The audit row call c is about to announce.
Owed(c) == ChangeOf(c, call[c].logged)

\* A row that waits for its event is in the history of account a, and no event
\* has told of it.
Unannounced(a, change) ==
    /\ change \in history[a]
    /\ \A i \in DOMAIN events[a] : events[a][i] # change

\* After a step it still waits.
StillUnannounced(a, change) ==
    /\ change \in history'[a]
    /\ \A i \in DOMAIN events'[a] : events'[a][i] # change

\* Whoever is about to publish has logged a change nobody else will announce.
EventsOwed ==
    /\ EventsAreRecorded
    /\ \A c \in Calls : call[c].phase = "publish" =>
           /\ Unannounced(call[c].account, Owed(c))
           /\ \A d \in Calls \ {c} :
                  call[d].phase = "publish" /\ call[d].account = call[c].account
                      => call[d].logged # call[c].logged
    /\ sync.phase = "announcing" =>
           Unannounced(sync.account, SystemFreeze(sync.logged))

\* What a call owes tells its id and is not the consumer's.
LEMMA OwedIsItsOwn ==
    ASSUME RowsInv, NEW c \in Calls, call[c].phase = "publish"
    PROVE  /\ Owed(c) \in Change
           /\ Owed(c).id = call[c].logged
           /\ Owed(c).by # "SYSTEM"
<1>1. call[c].phase \in Acting /\ call[c].logged \in Nat
  BY DEF Acting, RowsInv, TypeOK
<1> QED
  BY <1>1, ChangeOfIsChange DEF Owed, RowsInv

\* A call that is not moved owes what it owed.
LEMMA OwedStays ==
    ASSUME NEW c \in Calls, call'[c] = call[c], request' = request
    PROVE  Owed(c)' = Owed(c)
BY DEF Owed, ChangeOf

\* Announcing what waits for it keeps events recorded, and takes nothing from
\* what else waits.
LEMMA AnnouncedStep ==
    ASSUME TypeOK, EventsAreRecorded, NEW a \in Accounts, NEW change \in Change,
           Unannounced(a, change), history' = history,
           events' = [events EXCEPT ![a] = Append(@, change)]
    PROVE  /\ EventsAreRecorded'
           /\ \A b \in Accounts : \A other :
                  Unannounced(b, other) /\ (b = a => other # change)
                      => StillUnannounced(b, other)
<1> DEFINE e == events[a]
           f == events'[a]
<1>1. /\ e \in Seq(Change) /\ f = Append(e, change)
      /\ \A b \in Accounts \ {a} : events'[b] = events[b]
  BY DEF TypeOK
<1>2. /\ DOMAIN e = 1 .. Len(e) /\ Len(e) \in Nat
      /\ DOMAIN f = 1 .. Len(e) + 1
      /\ \A i \in 1 .. Len(e) : f[i] = e[i]
      /\ f[Len(e) + 1] = change
  BY <1>1
<1>3. /\ \A i \in DOMAIN e : e[i] \in history[a] /\ e[i] # change
      /\ \A i, j \in DOMAIN e : e[j] = e[i] => j = i
      /\ change \in history[a]
  BY DEF EventsAreRecorded, Unannounced
<1> HIDE DEF e, f
<1>4. /\ \A i \in DOMAIN f : f[i] \in history[a]
      /\ \A i, j \in DOMAIN f : f[j] = f[i] => j = i
  <2>1. \A i \in DOMAIN f : i \in DOMAIN e \/ i = Len(e) + 1
    BY <1>2
  <2> QED
    BY <1>2, <1>3, <2>1
<1>5. EventsAreRecorded'
  BY <1>1, <1>4 DEF EventsAreRecorded, f
<1>6. ASSUME NEW b \in Accounts, NEW other, Unannounced(b, other),
             b = a => other # change
      PROVE  StillUnannounced(b, other)
  <2>1. CASE b = a
    <3>1. \A i \in DOMAIN f : f[i] # other
      BY <1>2, <1>6, <2>1 DEF Unannounced, e
    <3> QED
      BY <1>6, <2>1, <3>1 DEF Unannounced, StillUnannounced, f
  <2>2. CASE b # a
    BY <1>1, <1>6, <2>2 DEF Unannounced, StillUnannounced
  <2> QED
    BY <2>1, <2>2
<1> QED
  BY <1>5, <1>6

\* Logging a change keeps events recorded and what waits waiting, and the
\* change waits.
LEMMA LoggedStep ==
    ASSUME RowsInv, EventsAreRecorded, NEW a \in Accounts, rows[a] # None,
           NEW change \in Change, LoggedChange(a, change), events' = events
    PROVE  /\ EventsAreRecorded'
           /\ \A b \in Accounts : \A other :
                  Unannounced(b, other) => StillUnannounced(b, other)
           /\ StillUnannounced(a, change)
           /\ change \notin history[a]
<1>1. /\ history'[a] = history[a] \union {change}
      /\ \A b \in Accounts \ {a} : history'[b] = history[b]
  BY LoggedChangeStep DEF RowsInv
<1>2. change \notin history[a]
  BY NewIdIsNew DEF LoggedChange, RowsInv
<1> QED
  BY <1>1, <1>2 DEF EventsAreRecorded, Unannounced, StillUnannounced
\* Only the write of a status lets a call owe an event.
LEMMA PublishSteps ==
    ASSUME RowsInv, NEW c \in Calls, Handle(c), ~WriteStatus(c)
    PROVE  call'[c].phase # "publish"
<1> USE DEF RowsInv
<1>1. call \in [Calls -> CallState]
  BY DEF TypeOK, CallState
<1>2. ASSUME NEW phase \in CallPhase \ {"publish"}, Go(c, phase)
      PROVE  call'[c].phase # "publish"
  BY <1>2, GoStep
<1>3. {"failed", "done", "write", "count", "insert", "destination", "post"}
          \subseteq CallPhase \ {"publish"}
  BY DEF CallPhase, Answered
<1>4. CASE ReadAccount(c) /\ ~Go(c, "failed")
  <2> DEFINE next == IF request[c].op = "close" THEN "balance" ELSE "write"
  <2>1. PICK seen, phase : /\ phase = next
                           /\ call' = [call EXCEPT ![c].seen = seen,
                                                   ![c].phase = phase]
    BY <1>4 DEF ReadAccount
  <2> QED
    BY <1>1, <2>1 DEF CallState
<1>5. CASE InsertAccount(c)
  <2>1. PICK a : call' = [call EXCEPT ![c].phase = "commit", ![c].account = a]
    BY <1>5 DEF InsertAccount
  <2> QED
    BY <1>1, <2>1 DEF CallState
<1>6. CASE \/ ReadAccount(c) /\ Go(c, "failed")
           \/ CheckBalance(c) \/ PublishStatusChanged(c) \/ FailCall(c)
           \/ VerifyUserKyc(c) \/ CountAccounts(c) \/ CommitAccount(c)
           \/ ValidateSource(c) \/ ValidateDestination(c) \/ PostTransfer(c)
  <2>1. \E phase \in {"failed", "done", "write", "count", "insert",
                      "destination", "post"} : Go(c, phase)
    BY <1>6 DEF CheckBalance, PublishStatusChanged, FailCall, VerifyUserKyc,
       CountAccounts, CommitAccount, ValidateSource, ValidateDestination,
       PostTransfer
  <2> QED
    BY <1>2, <1>3, <2>1
<1> QED
  BY <1>4, <1>5, <1>6 DEF Handle

\* What has to hold after a step.
LEMMA EventsOwedNext ==
    ASSUME EventsAreRecorded',
           \A c \in Calls : call'[c].phase = "publish" =>
               /\ StillUnannounced(call'[c].account, Owed(c)')
               /\ \A d \in Calls \ {c} :
                      call'[d].phase = "publish" /\ call'[d].account = call'[c].account
                          => call'[d].logged # call'[c].logged,
           sync'.phase = "announcing" =>
               StillUnannounced(sync'.account, SystemFreeze(sync'.logged))
    PROVE  EventsOwed'
BY DEF EventsOwed, Unannounced, StillUnannounced, SystemFreeze

\* What a handler owes after it has written.
LEMMA WriteStatusOwes ==
    ASSUME RowsInv, EventsOwed, NEW c \in Calls, WriteStatus(c)
    PROVE  EventsOwed'
<1> DEFINE a == call[c].account
           id == NewId(history[a])
           change == ChangeOf(c, id)
<1> USE DEF RowsInv
<1>1. /\ a \in Accounts /\ rows[a] # None /\ id \in Nat
      /\ change \in Change /\ LoggedChange(a, change)
  BY WriteStatusLogs
<1>2. /\ UNCHANGED <<events, request, sync>>
      /\ call' = [call EXCEPT ![c].phase = "publish", ![c].logged = id]
  BY DEF WriteStatus, published, consumer
<1>3. call \in [Calls -> CallState]
  BY DEF TypeOK, CallState
<1>4. change = [id |-> id, old |-> call[c].seen,
                new |-> Outcome[request[c].op], by |-> request[c].role]
  BY DEF ChangeOf
<1>5. \A d \in Calls : call[d].phase = "publish" /\ call[d].account = a
          => call[d].logged # id
  <2> SUFFICES ASSUME NEW d \in Calls, call[d].phase = "publish",
                      call[d].account = a
               PROVE  call[d].logged # id
    OBVIOUS
  <2>1. Owed(d) \in history[a] /\ Owed(d).id = call[d].logged
    BY OwedIsItsOwn DEF EventsOwed, Unannounced
  <2> QED
    BY <1>1, <2>1, NewIdIsNew
<1> HIDE DEF a, id, change
<1>6. /\ EventsAreRecorded'
      /\ \A b \in Accounts : \A other :
             Unannounced(b, other) => StillUnannounced(b, other)
      /\ StillUnannounced(a, change)
  BY <1>1, <1>2, LoggedStep DEF EventsOwed
<1>7. /\ call'[c].phase = "publish" /\ call'[c].logged = id
      /\ call'[c].account = a /\ call'[c].seen = call[c].seen
      /\ \A d \in Calls \ {c} : call'[d] = call[d]
  BY <1>1, <1>2, <1>3 DEF CallState, a
<1>8. Owed(c)' = change
  BY <1>2, <1>4, <1>7 DEF Owed, ChangeOf
<1>9. \A d \in Calls \ {c} : Owed(d)' = Owed(d)
  BY <1>2, <1>7, OwedStays
<1>10. \A d \in Calls : call'[d].phase = "publish" =>
           StillUnannounced(call'[d].account, Owed(d)')
  <2> SUFFICES ASSUME NEW d \in Calls, call'[d].phase = "publish"
               PROVE  StillUnannounced(call'[d].account, Owed(d)')
    OBVIOUS
  <2>1. CASE d = c
    BY <1>6, <1>7, <1>8, <2>1
  <2>2. CASE d # c
    <3>1. Unannounced(call[d].account, Owed(d)) /\ call[d].account \in Accounts
      BY <1>7, <2>2 DEF EventsOwed, TypeOK
    <3>2. call'[d].account = call[d].account /\ Owed(d)' = Owed(d)
      BY <1>7, <1>9, <2>2
    <3> QED
      BY <1>6, <3>1, <3>2
  <2> QED
    BY <2>1, <2>2
<1>11. \A d \in Calls : \A x \in Calls \ {d} :
           /\ call'[d].phase = "publish" /\ call'[x].phase = "publish"
           /\ call'[x].account = call'[d].account
           => call'[x].logged # call'[d].logged
  BY <1>5, <1>7 DEF EventsOwed
<1>12. sync.phase = "announcing" =>
           StillUnannounced(sync.account, SystemFreeze(sync.logged))
  BY <1>6 DEF EventsOwed, SyncKnowsRows, TypeOK
<1> QED
  BY <1>2, <1>6, <1>10, <1>11, <1>12, EventsOwedNext

\* The event of a handler tells of what it owes.
LEMMA PublishPays ==
    ASSUME RowsInv, EventsOwed, NEW c \in Calls, PublishStatusChanged(c)
    PROVE  EventsOwed'
<1> DEFINE a == call[c].account
           change == Owed(c)
<1> USE DEF RowsInv
<1>1. /\ call[c].phase = "publish" /\ a \in Accounts
      /\ UNCHANGED <<history, request, sync>>
      /\ Go(c, "done") /\ "done" \in CallPhase
  BY DEF PublishStatusChanged, tables, consumer, TypeOK, CallPhase, Answered
<1>2. events' = [events EXCEPT ![a] = Append(@, change)]
  BY DEF PublishStatusChanged, Owed
<1>3. /\ change \in Change /\ change.by # "SYSTEM"
      /\ change.id = call[c].logged /\ Unannounced(a, change)
  BY <1>1, OwedIsItsOwn DEF EventsOwed
<1>4. /\ call'[c].phase = "done"
      /\ \A d \in Calls \ {c} : call'[d] = call[d]
  BY <1>1, GoStep
<1>5. \A d \in Calls \ {c} : Owed(d)' = Owed(d)
  BY <1>1, <1>4, OwedStays
<1> HIDE DEF change
<1>6. /\ EventsAreRecorded'
      /\ \A b \in Accounts : \A other :
             Unannounced(b, other) /\ (b = a => other # change)
                 => StillUnannounced(b, other)
  BY <1>1, <1>2, <1>3, AnnouncedStep DEF EventsOwed
<1>7. \A d \in Calls : call'[d].phase = "publish" =>
          StillUnannounced(call'[d].account, Owed(d)')
  <2> SUFFICES ASSUME NEW d \in Calls, call'[d].phase = "publish"
               PROVE  StillUnannounced(call'[d].account, Owed(d)')
    OBVIOUS
  <2>1. d # c /\ call'[d] = call[d] /\ Owed(d)' = Owed(d)
    BY <1>4, <1>5
  <2>2. Unannounced(call[d].account, Owed(d)) /\ call[d].account \in Accounts
    BY <2>1 DEF EventsOwed, TypeOK
  <2>3. Owed(d).id = call[d].logged
    BY <2>1, OwedIsItsOwn
  <2>4. call[d].account = a => Owed(d) # change
    BY <1>1, <1>3, <2>1, <2>3 DEF EventsOwed
  <2> QED
    BY <1>6, <2>1, <2>2, <2>4
<1>8. \A d \in Calls : \A x \in Calls \ {d} :
          /\ call'[d].phase = "publish" /\ call'[x].phase = "publish"
          /\ call'[x].account = call'[d].account
          => call'[x].logged # call'[d].logged
  BY <1>4 DEF EventsOwed
<1>9. sync.phase = "announcing" =>
          StillUnannounced(sync.account, SystemFreeze(sync.logged))
  <2> SUFFICES ASSUME sync.phase = "announcing"
               PROVE  StillUnannounced(sync.account, SystemFreeze(sync.logged))
    OBVIOUS
  <2>1. sync.account \in Accounts /\ sync.logged \in Nat
    BY DEF SyncKnowsRows, TypeOK
  <2>2. SystemFreeze(sync.logged) # change
    BY <1>3, <2>1, SystemFreezeIsChange
  <2> QED
    BY <1>6, <2>1, <2>2 DEF EventsOwed
<1> QED
  BY <1>1, <1>6, <1>7, <1>8, <1>9, EventsOwedNext

\* What the consumer owes after a freeze.
LEMMA FreezeNextOwes ==
    ASSUME RowsInv, EventsOwed, NEW a \in Accounts, FreezeNext(a)
    PROVE  EventsOwed'
<1> DEFINE id == NewId(history[a])
<1> USE DEF RowsInv
<1>1. /\ rows[a] # None /\ id \in Nat
      /\ SystemFreeze(id) \in Change /\ LoggedChange(a, SystemFreeze(id))
  BY FreezeNextLogs
<1>2. /\ UNCHANGED <<events, request, call>>
      /\ sync' = [sync EXCEPT !.phase = "announcing", !.account = a, !.logged = id]
  BY DEF FreezeNext, published, calls
<1> HIDE DEF id
<1>3. sync \in SyncState
  BY DEF TypeOK, SyncState
<1>4. sync'.account = a /\ sync'.logged = id
  BY <1>2, <1>3 DEF SyncState
<1>5. /\ EventsAreRecorded'
      /\ \A b \in Accounts : \A other :
             Unannounced(b, other) => StillUnannounced(b, other)
      /\ StillUnannounced(a, SystemFreeze(id))
  BY <1>1, <1>2, LoggedStep DEF EventsOwed
<1>6. \A d \in Calls : Owed(d)' = Owed(d)
  BY <1>2, OwedStays
<1>7. \A d \in Calls : call'[d].phase = "publish" =>
          /\ StillUnannounced(call'[d].account, Owed(d)')
          /\ \A x \in Calls \ {d} :
                 call'[x].phase = "publish" /\ call'[x].account = call'[d].account
                     => call'[x].logged # call'[d].logged
  BY <1>2, <1>5, <1>6 DEF EventsOwed, TypeOK
<1> QED
  BY <1>4, <1>5, <1>7, EventsOwedNext

\* The event of the consumer tells of the freeze it owes.
LEMMA AnnouncePays ==
    ASSUME RowsInv, EventsOwed, AnnounceFreeze
    PROVE  EventsOwed'
<1> DEFINE a == sync.account
           change == SystemFreeze(sync.logged)
<1> USE DEF RowsInv
<1>1. /\ sync.phase = "announcing" /\ UNCHANGED <<history, request, call>>
      /\ events' = [events EXCEPT ![a] = Append(@, change)]
  BY DEF AnnounceFreeze, tables, calls
<1>2. a \in Accounts /\ sync.logged \in Nat /\ sync \in SyncState
  BY <1>1 DEF SyncKnowsRows, TypeOK, SyncState
<1>3. change \in Change /\ change.by = "SYSTEM" /\ Unannounced(a, change)
  BY <1>1, <1>2, SystemFreezeIsChange DEF EventsOwed
<1>4. sync'.phase = "freezing"
  BY <1>2 DEF AnnounceFreeze, SyncState
<1>5. \A d \in Calls : Owed(d)' = Owed(d)
  BY <1>1, OwedStays
<1> HIDE DEF a, change
<1>6. /\ EventsAreRecorded'
      /\ \A b \in Accounts : \A other :
             Unannounced(b, other) /\ (b = a => other # change)
                 => StillUnannounced(b, other)
  BY <1>1, <1>2, <1>3, AnnouncedStep DEF EventsOwed
<1>7. \A d \in Calls : call'[d].phase = "publish" =>
          StillUnannounced(call'[d].account, Owed(d)')
  <2> SUFFICES ASSUME NEW d \in Calls, call[d].phase = "publish"
               PROVE  StillUnannounced(call[d].account, Owed(d))
    BY <1>1, <1>5
  <2>1. Unannounced(call[d].account, Owed(d)) /\ call[d].account \in Accounts
    BY DEF EventsOwed, TypeOK
  <2>2. Owed(d) # change
    BY <1>3, OwedIsItsOwn
  <2> QED
    BY <1>6, <2>1, <2>2
<1>8. \A d \in Calls : \A x \in Calls \ {d} :
          /\ call'[d].phase = "publish" /\ call'[x].phase = "publish"
          /\ call'[x].account = call'[d].account
          => call'[x].logged # call'[d].logged
  BY <1>1 DEF EventsOwed
<1> QED
  BY <1>4, <1>6, <1>7, <1>8, EventsOwedNext
\* The other steps write no history, publish nothing and owe nothing.
LEMMA OthersOweNothing ==
    ASSUME RowsInv, EventsOwed, [Next]_vars,
           \A c \in Calls : ~WriteStatus(c) /\ ~PublishStatusChanged(c),
           \A a \in Accounts : ~FreezeNext(a), ~AnnounceFreeze
    PROVE  EventsOwed'
<1> USE DEF RowsInv
<1>1. history' = history
  BY RowWriters DEF CommitAccount
<1>2. events' = events /\ request' = request
  <2>1. ASSUME NEW c \in Calls, Handle(c)
        PROVE  events' = events /\ request' = request
    <3>1. ~WriteStatus(c) /\ ~PublishStatusChanged(c)
      OBVIOUS
    <3> QED
      BY <2>1, <3>1 DEF Handle, ReadAccount, CheckBalance, FailCall,
         VerifyUserKyc, CountAccounts, InsertAccount, CommitAccount,
         ValidateSource, ValidateDestination, PostTransfer, published
  <2>2. \/ Receive \/ OpenSync \/ CommitSync \/ AckSync
        \/ CrashSync \/ FailSync \/ \E a \in Accounts : SwallowFailure(a)
        \/ \E e \in Reviews : PublishReview(e)
        \/ CommitReview \/ RollbackReview \/ UNCHANGED vars
        => events' = events /\ request' = request
    BY DEF Receive, OpenSync, CommitSync, AckSync, CrashSync, FailSync,
       SwallowFailure, PublishReview, CommitReview, RollbackReview, vars,
       published, calls
  <2> QED
    BY <2>1, <2>2 DEF Next, Sync
<1>3. \A c \in Calls : call'[c].phase = "publish" => call'[c] = call[c]
  BY PublishSteps, MovedByItsHandler
<1>4. sync'.phase = "announcing" => sync' = sync
  <2>1. Idle.phase = "idle"
        /\ [Idle EXCEPT !.phase = "received", !.event = Head(queue)].phase = "received"
    BY DEF Idle
  <2>2. CASE Receive \/ AckSync \/ CrashSync \/ FailSync
    BY <2>1, <2>2 DEF Receive, AckSync, CrashSync, FailSync
  <2>3. CASE CommitSync
    BY <2>3 DEF CommitSync, TypeOK
  <2>4. CASE OpenSync
    BY <2>1, <2>4 DEF OpenSync, TypeOK
  <2>5. CASE \E a \in Accounts : SwallowFailure(a)
    BY <2>5 DEF SwallowFailure, TypeOK
  <2>6. CASE \/ \E e \in Reviews : PublishReview(e)
             \/ CommitReview \/ RollbackReview \/ UNCHANGED vars
    BY <2>6 DEF PublishReview, CommitReview, RollbackReview, vars, consumer
  <2>7. CASE \E c \in Calls : Handle(c)
    BY <2>7, HandlersLeaveAlone
  <2> QED
    BY <2>2, <2>3, <2>4, <2>5, <2>6, <2>7 DEF Next, Sync
<1>5. \A b, other : Unannounced(b, other) => StillUnannounced(b, other)
  BY <1>1, <1>2 DEF Unannounced, StillUnannounced
<1>6. EventsAreRecorded'
  BY <1>1, <1>2 DEF EventsOwed, EventsAreRecorded
<1>7. \A c \in Calls : call'[c].phase = "publish" =>
          StillUnannounced(call'[c].account, Owed(c)')
  <2> SUFFICES ASSUME NEW c \in Calls, call'[c].phase = "publish"
               PROVE  StillUnannounced(call'[c].account, Owed(c)')
    OBVIOUS
  <2>1. call'[c] = call[c]
    BY <1>3
  <2>2. Owed(c)' = Owed(c)
    BY <1>2, <2>1, OwedStays
  <2> QED
    BY <1>5, <2>1, <2>2 DEF EventsOwed
<1>8. \A c \in Calls : \A d \in Calls \ {c} :
          /\ call'[c].phase = "publish" /\ call'[d].phase = "publish"
          /\ call'[d].account = call'[c].account
          => call'[d].logged # call'[c].logged
  BY <1>3 DEF EventsOwed
<1>9. sync'.phase = "announcing" =>
          StillUnannounced(sync'.account, SystemFreeze(sync'.logged))
  BY <1>4, <1>5 DEF EventsOwed
<1> QED
  BY <1>6, <1>7, <1>8, <1>9, EventsOwedNext

\* Every account.status_changed tells of one committed row of the audit log,
\* and no two tell of the same one.
THEOREM EventsRecorded == Spec => []EventsAreRecorded
<1>1. Init => EventsOwed
  <2> SUFFICES ASSUME Init
               PROVE  EventsOwed
    OBVIOUS
  <2>1. EventsAreRecorded
    BY DEF Init, EventsAreRecorded
  <2>2. \A c \in Calls : call[c].phase = "start"
    BY DEF Init
  <2>3. sync.phase = "idle"
    BY DEF Init, Idle
  <2> QED
    BY <2>1, <2>2, <2>3 DEF EventsOwed
<1>2. RowsInv /\ EventsOwed /\ [Next]_vars => EventsOwed'
  BY WriteStatusOwes, PublishPays, FreezeNextOwes, AnnouncePays, OthersOweNothing
<1>3. EventsOwed => EventsAreRecorded
  BY DEF EventsOwed
<1> QED
  BY <1>1, <1>2, <1>3, RowsInvariance, PTL DEF Spec
-----------------------------------------------------------------------------
(* A rejection. *)

\* The open accounts that count on the rejection to be frozen.
Relying == {a \in Accounts : Open(a) /\ a \notin spared}

Rejecting(e) == DecisionOf[e] = "REJECTED"

Queued == {queue[i] : i \in DOMAIN queue}

\* Every event comes from a review, and a user is rejected by one.
EventsKnown ==
    /\ Queued \union inbox \subseteq reviewed
    /\ sync.phase # "idle" => sync.event \in reviewed
    /\ reviewing # None => reviewing \in reviewed
    /\ kyc = "REJECTED" => \E e \in reviewed : Rejecting(e)

\* While the consumer applies a rejection, it has listed what counts on it.
RelyingListed ==
    /\ sync.phase \in {"freezing", "announcing", "committed"}
           /\ Rejecting(sync.event) => Relying \subseteq sync.todo
    /\ sync.phase = "announcing" => sync.account \notin Relying
    /\ sync.phase = "committed" => sync.todo = {}

Holding == {"received", "freezing", "announcing"}

\* A rejection that has not been applied waits or is being applied.
Pending(e) ==
    /\ Rejecting(e)
    /\ e \notin inbox
    /\ e \in Queued \/ (sync.phase \in Holding /\ sync.event = e)

\* Whatever counts on a rejection has one that is pending.
RelyingIsPending ==
    /\ EventsKnown
    /\ RelyingListed
    /\ Relying # {} /\ (\E e \in reviewed : Rejecting(e)) =>
           \E e \in Reviews : Pending(e)

\* Accounts come to count on a rejection when the consumer lists them.
LEMMA RelyingShrinks ==
    ASSUME RowsInv, [Next]_vars, ~OpenSync
    PROVE  Relying' \subseteq Relying
<1>1. spared \subseteq spared'
  BY DEF Next, Handle, ReadAccount, CheckBalance, WriteStatus,
     PublishStatusChanged, FailCall, VerifyUserKyc, CountAccounts, InsertAccount,
     CommitAccount, ValidateSource, ValidateDestination, PostTransfer, Sync,
     Receive, FreezeNext, AnnounceFreeze, CommitSync, AckSync, CrashSync,
     FailSync, SwallowFailure, PublishReview, CommitReview, RollbackReview,
     vars, ghosts
<1>2. ASSUME NEW a \in Accounts, ~Open(a), Open(a)'
      PROVE  a \in spared'
  BY <1>2, WaysToOpen DEF WriteStatus, CommitAccount
<1> QED
  BY <1>1, <1>2 DEF Relying

\* A step that touches neither consumer, queue nor inbox keeps the pending
\* rejections.
LEMMA OutsideKeepsPending ==
    ASSUME RelyingIsPending, Relying' \subseteq Relying, EventsKnown',
           UNCHANGED <<sync, queue, inbox, reviewed>>
    PROVE  RelyingIsPending'
<1>1. Queued' = Queued
  BY DEF Queued
<1>2. RelyingListed'
  BY DEF RelyingIsPending, RelyingListed, Rejecting
<1>3. \A e : Pending(e) => Pending(e)'
  BY <1>1 DEF Pending, Rejecting
<1> QED
  BY <1>2, <1>3 DEF RelyingIsPending, Rejecting

\* What the ways to change the queue do to the events in it.
LEMMA QueueSteps ==
    ASSUME TypeOK
    PROVE  /\ \A e \in Reviews : queue' = Append(queue, e) =>
                  Queued' = Queued \union {e}
           /\ \A e \in Reviews : queue' = <<e>> \o queue =>
                  Queued' = Queued \union {e}
           /\ queue # <<>> /\ queue' = Tail(queue) =>
                  /\ Head(queue) \in Queued
                  /\ Queued = Queued' \union {Head(queue)}
           /\ queue = <<>> => Queued = {}
           /\ queue' = queue => Queued' = Queued
<1>1. queue \in Seq(Reviews) /\ Len(queue) \in Nat /\ DOMAIN queue = 1 .. Len(queue)
  BY DEF TypeOK
<1>2. ASSUME NEW e \in Reviews, queue' = Append(queue, e)
      PROVE  Queued' = Queued \union {e}
  <2>1. /\ DOMAIN queue' = 1 .. Len(queue) + 1
        /\ queue'[Len(queue) + 1] = e
        /\ \A i \in 1 .. Len(queue) : queue'[i] = queue[i]
    BY <1>1, <1>2
  <2>2. \A i \in DOMAIN queue' : i \in DOMAIN queue \/ i = Len(queue) + 1
    BY <1>1, <2>1
  <2>3. \A i \in DOMAIN queue : i \in DOMAIN queue' /\ queue'[i] = queue[i]
    BY <1>1, <2>1
  <2>4. Len(queue) + 1 \in DOMAIN queue'
    BY <1>1, <2>1
  <2> QED
    BY <2>1, <2>2, <2>3, <2>4 DEF Queued
<1>3. ASSUME NEW e \in Reviews, queue' = <<e>> \o queue
      PROVE  Queued' = Queued \union {e}
  <2>1. /\ DOMAIN queue' = 1 .. Len(queue) + 1
        /\ queue'[1] = e
        /\ \A i \in 1 .. Len(queue) : queue'[i + 1] = queue[i]
    BY <1>1, <1>3
  <2>2. \A i \in DOMAIN queue' :
            i = 1 \/ \E j \in DOMAIN queue : queue'[i] = queue[j]
    <3>1. \A i \in DOMAIN queue' : i = 1 \/ i - 1 \in 1 .. Len(queue)
      BY <1>1, <2>1
    <3>2. \A i \in DOMAIN queue' : i = (i - 1) + 1
      BY <2>1
    <3> QED
      BY <1>1, <2>1, <3>1, <3>2
  <2>3. \A i \in DOMAIN queue : \E j \in DOMAIN queue' : queue[i] = queue'[j]
    <3>1. \A i \in DOMAIN queue : i + 1 \in DOMAIN queue'
      BY <1>1, <2>1
    <3> QED
      BY <1>1, <2>1, <3>1
  <2>4. 1 \in DOMAIN queue'
    BY <1>1, <2>1
  <2> QED
    BY <2>1, <2>2, <2>3, <2>4 DEF Queued
<1>4. ASSUME queue # <<>>, queue' = Tail(queue)
      PROVE  /\ Head(queue) \in Queued
             /\ Queued = Queued' \union {Head(queue)}
  <2>1. /\ 1 \in DOMAIN queue /\ queue[1] = Head(queue)
        /\ DOMAIN queue' = 1 .. Len(queue) - 1
        /\ \A i \in 1 .. Len(queue) - 1 : queue'[i] = queue[i + 1]
    BY <1>1, <1>4
  <2>2. \A i \in DOMAIN queue : i = 1 \/ i - 1 \in DOMAIN queue'
    BY <1>1, <2>1
  <2>3. \A i \in DOMAIN queue' : i + 1 \in DOMAIN queue /\ queue'[i] = queue[i + 1]
    BY <1>1, <2>1
  <2>4. \A i \in DOMAIN queue : i # 1 => queue[i] = queue'[i - 1]
    BY <1>1, <2>1, <2>2
  <2> QED
    BY <2>1, <2>2, <2>3, <2>4 DEF Queued
<1>5. queue = <<>> => Queued = {}
  BY <1>1 DEF Queued
<1>6. queue' = queue => Queued' = Queued
  BY DEF Queued
<1> QED
  BY <1>2, <1>3, <1>4, <1>5, <1>6
\* A published rejection is pending at once.
LEMMA PublishReviewKeepsPending ==
    ASSUME RowsInv, RelyingIsPending, NEW e \in Reviews, PublishReview(e)
    PROVE  RelyingIsPending'
<1>1. /\ UNCHANGED <<kyc, sync, inbox>> /\ e \notin reviewed
      /\ reviewing' = e /\ reviewed' = reviewed \union {e}
      /\ queue' = Append(queue, e)
  BY DEF PublishReview, tables
<1>2. Queued' = Queued \union {e}
  BY <1>1, QueueSteps DEF RowsInv
<1>3. Relying' \subseteq Relying
  BY DEF PublishReview, tables, ghosts, Relying, Open, Found
<1>4. e \notin inbox
  BY <1>1 DEF RelyingIsPending, EventsKnown
<1>5. EventsKnown'
  BY <1>1, <1>2 DEF RelyingIsPending, EventsKnown, Rejecting
<1>6. RelyingListed'
  BY <1>1, <1>3 DEF RelyingIsPending, RelyingListed, Rejecting
<1>7. \A x : Pending(x) => Pending(x)'
  BY <1>1, <1>2 DEF Pending, Rejecting
<1>8. Rejecting(e) => Pending(e)'
  BY <1>1, <1>2, <1>4 DEF Pending, Rejecting
<1>9. Relying' # {} /\ (\E x \in reviewed' : Rejecting(x)) =>
          \E x \in Reviews : Pending(x)'
  <2>1. CASE Rejecting(e)
    BY <1>8, <2>1
  <2>2. CASE ~Rejecting(e)
    BY <1>1, <1>3, <1>7, <2>2 DEF RelyingIsPending
  <2> QED
    BY <2>1, <2>2
<1> QED
  BY <1>5, <1>6, <1>9 DEF RelyingIsPending, Rejecting

\* The end of a transaction in user-service.
LEMMA ReviewEndKeepsPending ==
    ASSUME RowsInv, RelyingIsPending, CommitReview \/ RollbackReview
    PROVE  RelyingIsPending'
<1>1. /\ UNCHANGED <<sync, queue, inbox, reviewed>> /\ reviewing' = None
      /\ kyc' = kyc \/ (kyc' = DecisionOf[reviewing] /\ reviewing # None)
  BY DEF CommitReview, RollbackReview, tables, consumer
<1>2. Relying' \subseteq Relying
  BY DEF CommitReview, RollbackReview, tables, ghosts, Relying, Open, Found
<1>3. Queued' = Queued
  BY <1>1 DEF Queued
<1>4. EventsKnown'
  BY <1>1, <1>3 DEF RelyingIsPending, EventsKnown, Rejecting
<1> QED
  BY <1>1, <1>2, <1>4, OutsideKeepsPending
\* A delivery moves an event from the queue to the consumer.
LEMMA ReceiveKeepsPending ==
    ASSUME RowsInv, RelyingIsPending, Receive
    PROVE  RelyingIsPending'
<1>1. /\ UNCHANGED <<kyc, inbox, reviewing, reviewed>> /\ sync = Idle
      /\ queue # <<>> /\ queue' = Tail(queue)
      /\ sync' = [Idle EXCEPT !.phase = "received", !.event = Head(queue)]
  BY DEF Receive, tables, outside
<1>2. sync'.phase = "received" /\ sync'.event = Head(queue)
  BY <1>1 DEF Idle
<1>3. Head(queue) \in Queued /\ Queued = Queued' \union {Head(queue)}
  BY <1>1, QueueSteps DEF RowsInv
<1>4. Relying' = Relying
  BY DEF Receive, tables, ghosts, Relying, Open, Found
<1>5. EventsKnown'
  BY <1>1, <1>2, <1>3 DEF RelyingIsPending, EventsKnown, Rejecting
<1>6. RelyingListed'
  BY <1>2 DEF RelyingListed
<1>7. \A x : Pending(x) => Pending(x)'
  <2> SUFFICES ASSUME NEW x, Pending(x)
               PROVE  Pending(x)'
    OBVIOUS
  <2>1. sync.phase \notin Holding
    BY <1>1 DEF Idle, Holding
  <2>2. Rejecting(x) /\ x \notin inbox' /\ x \in Queued
    BY <1>1, <2>1 DEF Pending
  <2>3. x \in Queued' \/ (sync'.phase \in Holding /\ sync'.event = x)
    BY <1>2, <1>3, <2>2 DEF Holding
  <2> QED
    BY <2>2, <2>3 DEF Pending, Rejecting, Holding
<1> QED
  BY <1>1, <1>4, <1>5, <1>6, <1>7 DEF RelyingIsPending, Rejecting

\* The consumer lists what counts on the rejection it begins to apply, which
\* is pending then if nothing else is.
LEMMA OpenSyncKeepsPending ==
    ASSUME RowsInv, RelyingIsPending, OpenSync
    PROVE  RelyingIsPending'
<1> DEFINE e == sync.event
<1>1. /\ UNCHANGED <<rows, kyc, inbox, reviewing, reviewed, queue>>
      /\ sync.phase = "received"
  BY DEF OpenSync, tables, outside
<1>2. e \in Reviews /\ e \in reviewed /\ sync \in SyncState
  BY <1>1 DEF RowsInv, SyncKnowsRows, TypeOK, SyncState, RelyingIsPending,
     EventsKnown
<1>3. Queued' = Queued
  BY <1>1 DEF Queued
<1>4. CASE e \in inbox
  <2>1. sync' = Idle /\ spared' = spared
    BY <1>4 DEF OpenSync
  <2>2. sync'.phase = "idle"
    BY <2>1 DEF Idle
  <2>3. Relying' = Relying
    BY <1>1, <2>1 DEF Relying, Open, Found
  <2>4. EventsKnown' /\ RelyingListed'
    BY <1>1, <1>3, <2>2 DEF RelyingIsPending, EventsKnown, RelyingListed, Rejecting
  <2>5. \A x : Pending(x) => Pending(x)'
    BY <1>1, <1>3, <1>4 DEF Pending, Rejecting
  <2> QED
    BY <1>1, <2>3, <2>4, <2>5 DEF RelyingIsPending, Rejecting
<1>5. CASE e \notin inbox
  <2>1. /\ sync' = [sync EXCEPT !.phase = "freezing", !.todo = ToFreeze(e)]
        /\ spared' = spared \ ToFreeze(e)
    BY <1>5 DEF OpenSync
  <2>2. sync'.phase = "freezing" /\ sync'.event = e /\ sync'.todo = ToFreeze(e)
    BY <1>2, <2>1 DEF SyncState
  <2>3. EventsKnown'
    BY <1>1, <1>2, <1>3, <2>2 DEF RelyingIsPending, EventsKnown, Rejecting
  <2>4. \A a \in Accounts : Open(a)' <=> Open(a)
    BY <1>1 DEF Open, Found
  <2>5. Rejecting(e) => Relying' \subseteq ToFreeze(e)
    BY <2>4 DEF Relying, ToFreeze, Rejecting
  <2>6. ~Rejecting(e) => Relying' = Relying
    BY <2>1, <2>4 DEF Relying, ToFreeze, Rejecting
  <2>7. RelyingListed'
    BY <2>2, <2>5 DEF RelyingListed, Rejecting
  <2>8. \A x : Pending(x) => Pending(x)'
    BY <1>1, <1>3, <2>2 DEF Pending, Rejecting, Holding
  <2>9. Relying' # {} /\ (\E x \in reviewed' : Rejecting(x)) =>
             \E x \in Reviews : Pending(x)'
    <3>1. CASE Rejecting(e)
      BY <1>1, <1>2, <1>5, <2>2, <3>1 DEF Pending, Rejecting, Holding
    <3>2. CASE ~Rejecting(e)
      BY <1>1, <2>6, <2>8, <3>2 DEF RelyingIsPending
    <3> QED
      BY <3>1, <3>2
  <2> QED
    BY <2>3, <2>7, <2>9 DEF RelyingIsPending, Rejecting
<1> QED
  BY <1>4, <1>5

\* Freezing, announcing, and failing to, cross an account off the list only
\* when it does not count on the rejection any more.
LEMMA ApplyKeepsPending ==
    ASSUME RowsInv, RelyingIsPending,
           \/ AnnounceFreeze
           \/ \E a \in Accounts : FreezeNext(a) \/ SwallowFailure(a)
    PROVE  RelyingIsPending'
<1>1. /\ UNCHANGED <<kyc, inbox, reviewing, reviewed, queue>>
      /\ sync.phase \in {"freezing", "announcing"}
      /\ sync \in SyncState
  BY DEF FreezeNext, AnnounceFreeze, SwallowFailure, tables, outside, RowsInv,
     TypeOK, SyncState
<1>2. Relying' \subseteq Relying
  <2>1. ~OpenSync
    BY <1>1 DEF OpenSync
  <2>2. Next
    BY DEF Next, Sync
  <2> QED
    BY <2>1, <2>2, RelyingShrinks
<1>3. /\ sync'.event = sync.event
      /\ sync'.phase \in {"freezing", "announcing"}
      /\ Rejecting(sync.event) => Relying' \subseteq sync'.todo
      /\ sync'.phase = "announcing" => sync'.account \notin Relying'
  <2>1. ASSUME NEW a \in Accounts, FreezeNext(a)
        PROVE  <1>3!1 /\ <1>3!2 /\ <1>3!3 /\ <1>3!4
    <3> DEFINE id == NewId(history[a])
    <3>1. /\ sync' = [sync EXCEPT !.phase = "announcing", !.account = a,
                                  !.logged = id]
          /\ sync.phase = "freezing"
          /\ rows' = [rows EXCEPT ![a].status = "FROZEN"]
      BY <2>1 DEF FreezeNext
    <3>2. rows[a] \in Row /\ rows' \in [Accounts -> Row \union {None}]
      BY <2>1, RowsInvInductive DEF RowsInv, TypeOK, FreezeNext, SyncKnowsRows,
         Next, Sync
    <3>3. rows'[a].status = "FROZEN"
      BY <3>1, <3>2 DEF RowsInv, TypeOK, Row
    <3>4. a \notin Relying'
      BY <3>3 DEF Relying, Open
    <3>5. /\ sync'.event = sync.event /\ sync'.phase = "announcing"
          /\ sync'.todo = sync.todo /\ sync'.account = a
      BY <1>1, <3>1 DEF SyncState
    <3> QED
      BY <1>2, <3>1, <3>4, <3>5 DEF RelyingIsPending, RelyingListed
  <2>2. CASE AnnounceFreeze
    <3>1. /\ sync'.event = sync.event /\ sync'.phase = "freezing"
          /\ sync'.todo = sync.todo \ {sync.account}
      BY <1>1, <2>2 DEF AnnounceFreeze, SyncState
    <3>2. sync.phase = "announcing"
      BY <2>2 DEF AnnounceFreeze
    <3> QED
      BY <1>2, <3>1, <3>2 DEF RelyingIsPending, RelyingListed
  <2>3. ASSUME NEW a \in Accounts, SwallowFailure(a)
        PROVE  <1>3!1 /\ <1>3!2 /\ <1>3!3 /\ <1>3!4
    <3>1. /\ sync'.event = sync.event /\ sync'.phase = "freezing"
          /\ sync'.todo = sync.todo \ {a}
      BY <1>1, <2>3 DEF SwallowFailure, SyncState
    <3>2. a \notin Relying'
      BY <1>2, <2>3 DEF SwallowFailure, Relying, RelyingIsPending, RelyingListed
    <3> QED
      BY <1>1, <1>2, <3>1, <3>2 DEF RelyingIsPending, RelyingListed
  <2> QED
    BY <2>1, <2>2, <2>3
<1>4. Queued' = Queued
  BY <1>1 DEF Queued
<1>5. EventsKnown'
  BY <1>1, <1>3, <1>4 DEF RelyingIsPending, EventsKnown, Rejecting
<1>6. RelyingListed'
  BY <1>3 DEF RelyingListed, Rejecting
<1>7. \A x : Pending(x) => Pending(x)'
  BY <1>1, <1>3, <1>4 DEF Pending, Rejecting, Holding
<1> QED
  BY <1>1, <1>2, <1>5, <1>6, <1>7 DEF RelyingIsPending, Rejecting
\* An event leaves the consumer for good when it was applied, when it was a
\* duplicate, or when nothing counts on it any more.
LEMMA LeaveKeepsPending ==
    ASSUME RowsInv, ApplyingIsNew, RelyingIsPending,
           CommitSync \/ AckSync \/ FailSync
    PROVE  RelyingIsPending'
<1> DEFINE e == sync.event
<1>1. /\ UNCHANGED <<rows, kyc, reviewing, reviewed, queue>>
      /\ inbox' \in {inbox, inbox \union {e}}
      /\ sync \in SyncState /\ sync.phase # "idle" /\ e \in reviewed
  <2>1. /\ UNCHANGED <<rows, kyc, reviewing, reviewed, queue>>
        /\ inbox' \in {inbox, inbox \union {e}}
        /\ sync.phase # "idle"
    BY DEF CommitSync, AckSync, FailSync, tables, outside
  <2> QED
    BY <2>1 DEF RowsInv, TypeOK, SyncState, RelyingIsPending, EventsKnown
<1>2. Relying' \subseteq Relying
  <2>1. ~OpenSync
    BY DEF CommitSync, AckSync, FailSync, OpenSync, RowsInv, TypeOK
  <2>2. Next
    BY DEF Next, Sync
  <2> QED
    BY <2>1, <2>2, RelyingShrinks
<1>3. Queued' = Queued
  BY <1>1 DEF Queued
<1>4. sync'.phase \in {"idle", "committed"}
  BY <1>1 DEF CommitSync, AckSync, FailSync, Idle, SyncState
<1>5. sync'.phase = "committed" => /\ sync'.event = e /\ sync'.todo = sync.todo
                                   /\ sync.todo = {} /\ sync.phase = "freezing"
  BY <1>1 DEF CommitSync, AckSync, FailSync, Idle, SyncState
<1>6. Rejecting(e) /\ (e \notin inbox \/ sync.phase = "committed")
      => Relying' = {}
  <2>1. CASE CommitSync \/ AckSync
    BY <1>2, <2>1 DEF CommitSync, AckSync, RelyingIsPending, RelyingListed
  <2>2. CASE FailSync /\ sync.phase = "freezing"
    BY <1>2, <2>2 DEF FailSync, RelyingIsPending, RelyingListed
  <2>3. CASE FailSync /\ sync.phase = "received"
    <3>1. spared' = spared \union ToFreeze(e)
      BY <2>3 DEF FailSync
    <3> QED
      BY <1>1, <3>1, <2>3 DEF Relying, Open, Found, ToFreeze, Rejecting
  <2> QED
    BY <2>1, <2>2, <2>3 DEF FailSync
<1>7. EventsKnown'
  BY <1>1, <1>3, <1>4, <1>5 DEF RelyingIsPending, EventsKnown, Rejecting
<1>8. RelyingListed'
  BY <1>2, <1>4, <1>5 DEF RelyingIsPending, RelyingListed, Rejecting
<1>9. ASSUME NEW x, Pending(x), x # e
      PROVE  Pending(x)'
  BY <1>1, <1>3, <1>9 DEF Pending, Rejecting
<1>10. Pending(e) => Relying' = {}
  BY <1>6 DEF Pending
<1>11. Relying' # {} /\ (\E x \in reviewed' : Rejecting(x)) =>
           \E x \in Reviews : Pending(x)'
  BY <1>1, <1>2, <1>9, <1>10 DEF RelyingIsPending
<1> QED
  BY <1>7, <1>8, <1>11 DEF RelyingIsPending, Rejecting

\* A crash puts the event back where it was.
LEMMA CrashKeepsPending ==
    ASSUME RowsInv, RelyingIsPending, CrashSync
    PROVE  RelyingIsPending'
<1> DEFINE e == sync.event
<1>1. /\ UNCHANGED <<rows, spared, kyc, reviewing, reviewed, inbox>>
      /\ queue' = <<e>> \o queue /\ sync' = Idle
  BY DEF CrashSync, tables, outside, ghosts
<1>2. e \in Reviews /\ e \in reviewed
  BY DEF CrashSync, RowsInv, SyncKnowsRows, RelyingIsPending, EventsKnown
<1>3. Queued' = Queued \union {e}
  BY <1>1, <1>2, QueueSteps DEF RowsInv
<1>4. Relying' = Relying
  BY <1>1 DEF Relying, Open, Found
<1>5. sync'.phase = "idle"
  BY <1>1 DEF Idle
<1>6. EventsKnown' /\ RelyingListed'
  BY <1>1, <1>2, <1>3, <1>5 DEF RelyingIsPending, EventsKnown, RelyingListed,
     Rejecting
<1>7. \A x : Pending(x) => Pending(x)'
  BY <1>1, <1>3 DEF Pending, Rejecting
<1> QED
  BY <1>1, <1>4, <1>6, <1>7 DEF RelyingIsPending, Rejecting

\* When a user is rejected, every event was handled and nothing is under way,
\* no account is open but those opened, unfrozen or missed by a failure since.
THEOREM RejectionFreezesAll == Spec => []RejectedHoldsNoOpenAccount
<1>1. Init => RelyingIsPending
  <2> SUFFICES ASSUME Init
               PROVE  RelyingIsPending
    OBVIOUS
  <2>1. /\ sync.phase = "idle" /\ Queued = {} /\ inbox = {} /\ reviewed = {}
        /\ reviewing = None /\ kyc = "APPROVED"
    BY DEF Init, Idle, Queued
  <2> QED
    BY <2>1 DEF RelyingIsPending, EventsKnown, RelyingListed
<1>2. RowsInv /\ ApplyingIsNew /\ RelyingIsPending /\ [Next]_vars
      => RelyingIsPending'
  <2> SUFFICES ASSUME RowsInv, ApplyingIsNew, RelyingIsPending, [Next]_vars
               PROVE  RelyingIsPending'
    OBVIOUS
  <2>1. CASE (\E c \in Calls : Handle(c)) \/ UNCHANGED vars
    <3>1. UNCHANGED <<sync, queue, inbox, kyc, reviewing, reviewed>>
      BY <2>1, HandlersLeaveAlone DEF vars, tables, outside, consumer
    <3>2. ~OpenSync \/ UNCHANGED <<rows, spared>>
      BY <2>1, <3>1 DEF vars, tables, ghosts, OpenSync, Idle, RowsInv, TypeOK
    <3>3. Relying' \subseteq Relying
      BY <3>2, RelyingShrinks DEF Relying, Open, Found
    <3>4. EventsKnown'
      BY <3>1 DEF RelyingIsPending, EventsKnown, Queued, Rejecting
    <3> QED
      BY <3>1, <3>3, <3>4, OutsideKeepsPending
  <2> QED
    BY <2>1, PublishReviewKeepsPending, ReviewEndKeepsPending,
       ReceiveKeepsPending, OpenSyncKeepsPending, ApplyKeepsPending,
       LeaveKeepsPending, CrashKeepsPending DEF Next, Sync
<1>3. RowsInv /\ RelyingIsPending => RejectedHoldsNoOpenAccount
  <2> SUFFICES ASSUME RowsInv, RelyingIsPending, kyc = "REJECTED", queue = <<>>,
                      sync = Idle, NEW a \in Accounts, Open(a)
               PROVE  a \in spared
    BY DEF RejectedHoldsNoOpenAccount, AtRest
  <2>1. Queued = {} /\ sync.phase \notin Holding
    BY QueueSteps DEF Idle, Holding, RowsInv
  <2>2. \A e : ~Pending(e)
    BY <2>1 DEF Pending
  <2> QED
    BY <2>2 DEF RelyingIsPending, EventsKnown, Relying
<1>4. Init => ApplyingIsNew
  BY DEF Init, Idle, ApplyingIsNew
<1>5. RowsInv /\ ApplyingIsNew /\ [Next]_vars => ApplyingIsNew'
  BY ApplyingStaysNew DEF RowsInv
<1> QED
  BY <1>1, <1>2, <1>3, <1>4, <1>5, RowsInvariance, PTL DEF Spec

=============================================================================
