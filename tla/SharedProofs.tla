---------------------------- MODULE SharedProofs ----------------------------
(***************************************************************************)
(* Theorems about the three modules that stand by themselves, what the      *)
(* services share and what the browser simulates without them: Pool, for    *)
(* any tasks, nesting and pool size; WebClient, for any users, tabs, calls   *)
(* and amounts; Messaging, for any events, handlers and bounds.             *)
(***************************************************************************)
EXTENDS Pool, WebClient, Messaging, FiniteSums, TLAPS

-----------------------------------------------------------------------------
(* Pool. *)

Queued(s, t) == \E i \in DOMAIN s : s[i] = t
Distinct(s) == \A i, j \in DOMAIN s : i # j => s[i] # s[j]

\* The queue and the phases of the tasks agree.
WaitersInv ==
    /\ \A t \in Tasks : Waits(task[t].phase) <=> Queued(queue, t)
    /\ Distinct(queue)

Progress == [phase : Phase, through : Nat]

\* How many connections a task in this phase holds, and how many all tasks hold.
Outer == {"outer", "nested", "inner", "broken"}
Connections(phase) == IF phase = "inner" THEN 2 ELSE IF phase \in Outer THEN 1 ELSE 0
Transactions(f) == {t \in Tasks : f[t].phase \in Outer}
Nestings(f) == {t \in Tasks : f[t].phase = "inner"}
Occupied(f) == Cardinality(Transactions(f)) + Cardinality(Nestings(f))

PoolInv ==
    /\ PoolTypeOK
    /\ free + Occupied(task) = PoolSize
    /\ free > 0 /\ ~ending => queue = <<>>
    /\ WaitersInv
-----------------------------------------------------------------------------
\* The queue: joining it, its head leaving it, anybody leaving it.
LEMMA Appended ==
    ASSUME NEW S, NEW s \in Seq(S), NEW t \in S, Distinct(s), ~Queued(s, t)
    PROVE  /\ Append(s, t) \in Seq(S)
           /\ Distinct(Append(s, t))
           /\ \A u : Queued(Append(s, t), u) <=> Queued(s, u) \/ u = t
<1>. DEFINE n == Len(s)
            q == Append(s, t)
<1>1. n \in Nat /\ DOMAIN s = 1 .. n
  OBVIOUS
<1>2. /\ q \in Seq(S)
      /\ DOMAIN q = 1 .. (n + 1)
      /\ q[n + 1] = t
      /\ \A j \in 1 .. n : q[j] = s[j]
  OBVIOUS
<1>. HIDE DEF n, q
<1>3. Distinct(q)
  BY <1>1, <1>2 DEF Distinct, Queued
<1>4. ASSUME NEW u PROVE Queued(q, u) <=> Queued(s, u) \/ u = t
  <2>1. ASSUME NEW j \in 1 .. n, s[j] = u PROVE Queued(q, u)
    <3>1. j \in 1 .. (n + 1) /\ q[j] = u
      BY <1>1, <1>2, <2>1
    <3>. QED  BY <1>2, <3>1 DEF Queued
  <2>2. Queued(q, t)
    <3>1. n + 1 \in 1 .. (n + 1)
      BY <1>1
    <3>. QED  BY <1>2, <3>1 DEF Queued
  <2>3. ASSUME NEW j \in 1 .. (n + 1), q[j] = u PROVE Queued(s, u) \/ u = t
    <3>1. j \in 1 .. n \/ j = n + 1
      BY <1>1
    <3>. QED  BY <1>1, <1>2, <2>3, <3>1 DEF Queued
  <2>. QED  BY <1>1, <1>2, <2>1, <2>2, <2>3 DEF Queued
<1>. QED  BY <1>2, <1>3, <1>4 DEF q

LEMMA HeadLeaves ==
    ASSUME NEW S, NEW s \in Seq(S), Distinct(s), s # <<>>
    PROVE  /\ Head(s) \in S
           /\ Queued(s, Head(s))
           /\ Tail(s) \in Seq(S)
           /\ Distinct(Tail(s))
           /\ \A u : Queued(Tail(s), u) <=> Queued(s, u) /\ u # Head(s)
<1>1. /\ Len(s) \in Nat \ {0}
      /\ DOMAIN s = 1 .. Len(s)
      /\ Head(s) = s[1]
      /\ Tail(s) \in Seq(S)
      /\ DOMAIN Tail(s) = 1 .. (Len(s) - 1)
      /\ \A i \in 1 .. (Len(s) - 1) : Tail(s)[i] = s[i + 1]
  OBVIOUS
<1>2. Distinct(Tail(s))
  BY <1>1 DEF Distinct
<1>3. ASSUME NEW u PROVE Queued(Tail(s), u) <=> Queued(s, u) /\ u # Head(s)
  <2>1. ASSUME NEW i \in DOMAIN s, s[i] = u, u # Head(s) PROVE Queued(Tail(s), u)
    <3>1. i - 1 \in 1 .. (Len(s) - 1)
      BY <1>1, <2>1
    <3>. QED  BY <1>1, <2>1, <3>1 DEF Queued
  <2>2. ASSUME NEW i \in DOMAIN Tail(s), Tail(s)[i] = u
        PROVE  Queued(s, u) /\ u # Head(s)
    <3>1. i + 1 \in DOMAIN s /\ 1 \in DOMAIN s /\ i + 1 # 1 /\ s[i + 1] = u
      BY <1>1, <2>2
    <3>. QED  BY <1>1, <3>1 DEF Queued, Distinct
  <2>. QED  BY <2>1, <2>2 DEF Queued
<1>. QED  BY <1>1, <1>2, <1>3 DEF Queued

LEMMA Removed ==
    ASSUME NEW S, NEW s \in Seq(S), Distinct(s), NEW i \in DOMAIN s
    PROVE  /\ RemoveAt(s, i) \in Seq(S)
           /\ Distinct(RemoveAt(s, i))
           /\ \A u : Queued(RemoveAt(s, i), u) <=> Queued(s, u) /\ u # s[i]
           /\ s = <<>> => RemoveAt(s, i) = <<>>
<1>. DEFINE n == Len(s)
            q == RemoveAt(s, i)
<1>1. n \in Nat /\ DOMAIN s = 1 .. n /\ i \in 1 .. n
  OBVIOUS
<1>2. /\ SubSeq(s, 1, i - 1) \in Seq(S)
      /\ Len(SubSeq(s, 1, i - 1)) = i - 1
      /\ \A j \in 1 .. (i - 1) : SubSeq(s, 1, i - 1)[j] = s[j]
  BY <1>1
<1>3. /\ SubSeq(s, i + 1, n) \in Seq(S)
      /\ Len(SubSeq(s, i + 1, n)) = n - i
      /\ \A j \in 1 .. (n - i) : SubSeq(s, i + 1, n)[j] = s[j + i]
  BY <1>1
<1>4. /\ q \in Seq(S)
      /\ Len(q) = n - 1
      /\ DOMAIN q = 1 .. (n - 1)
      /\ \A j \in 1 .. (n - 1) : q[j] = IF j < i THEN s[j] ELSE s[j + 1]
  <2>1. PICK a \in Seq(S) : /\ a = SubSeq(s, 1, i - 1)
                            /\ Len(a) = i - 1
                            /\ \A j \in 1 .. (i - 1) : a[j] = s[j]
    BY <1>2
  <2>2. PICK b \in Seq(S) : /\ b = SubSeq(s, i + 1, n)
                            /\ Len(b) = n - i
                            /\ \A j \in 1 .. (n - i) : b[j] = s[j + i]
    BY <1>3
  <2>3. q = a \o b
    BY <2>1, <2>2 DEF RemoveAt
  <2>. HIDE DEF n, q
  <2>4. /\ q \in Seq(S)
        /\ Len(q) = n - 1
        /\ DOMAIN q = 1 .. (n - 1)
    <3>1. q \in Seq(S) /\ Len(q) = Len(a) + Len(b) /\ DOMAIN q = 1 .. Len(q)
      BY <2>3
    <3>2. Len(a) + Len(b) = n - 1
      BY <1>1, <2>1, <2>2
    <3>. QED  BY <3>1, <3>2
  <2>5. ASSUME NEW j \in 1 .. (n - 1)
        PROVE  q[j] = IF j < i THEN s[j] ELSE s[j + 1]
    <3>1. CASE j < i
      BY <1>1, <2>1, <2>2, <2>3, <3>1
    <3>2. CASE ~(j < i)
      <4>1. j - (i - 1) \in 1 .. (n - i) /\ (j - (i - 1)) + i = j + 1
        BY <1>1, <3>2
      <4>2. /\ Len(a) = i - 1
            /\ j \in 1 .. Len(a) + Len(b)
            /\ j > Len(a)
        BY <1>1, <2>1, <2>2, <3>2
      <4>3. (a \o b)[j] = IF j <= Len(a) THEN a[j] ELSE b[j - Len(a)]
        BY <4>2
      <4>4. q[j] = b[j - Len(a)]
        BY <2>3, <4>2, <4>3
      <4>. QED  BY <2>2, <3>2, <4>1, <4>2, <4>4
    <3>. QED  BY <3>1, <3>2
  <2>. QED  BY <2>4, <2>5
<1>. HIDE DEF n, q
<1>5. Distinct(q)
  <2>. DEFINE from(j) == IF j < i THEN j ELSE j + 1
  <2>1. \A j \in 1 .. (n - 1) : from(j) \in 1 .. n /\ q[j] = s[from(j)]
    BY <1>1, <1>4
  <2>2. \A j, k \in 1 .. (n - 1) : j # k => from(j) # from(k)
    BY <1>1
  <2>. HIDE DEF from
  <2>. QED  BY <1>1, <1>4, <2>1, <2>2 DEF Distinct
<1>6. ASSUME NEW u PROVE Queued(q, u) <=> Queued(s, u) /\ u # s[i]
  <2>1. ASSUME NEW j \in 1 .. n, s[j] = u, u # s[i] PROVE Queued(q, u)
    <3>1. CASE j < i
      <4>1. j \in 1 .. (n - 1) /\ q[j] = u
        BY <1>1, <1>4, <2>1, <3>1
      <4>. QED  BY <1>4, <4>1 DEF Queued
    <3>2. CASE j > i
      <4>1. /\ j - 1 \in 1 .. (n - 1)
            /\ ~(j - 1 < i)
            /\ (j - 1) + 1 = j
        BY <1>1, <3>2
      <4>2. q[j - 1] = u
        BY <1>4, <2>1, <4>1
      <4>. QED  BY <1>4, <4>1, <4>2 DEF Queued
    <3>. QED  BY <1>1, <2>1, <3>1, <3>2
  <2>2. ASSUME NEW j \in 1 .. (n - 1), q[j] = u PROVE Queued(s, u) /\ u # s[i]
    <3>1. CASE j < i
      BY <1>1, <1>4, <2>2, <3>1 DEF Queued, Distinct
    <3>2. CASE ~(j < i)
      <4>1. j + 1 \in 1 .. n /\ j + 1 # i /\ s[j + 1] = u
        BY <1>1, <1>4, <2>2, <3>2
      <4>. QED  BY <1>1, <4>1 DEF Queued, Distinct
    <3>. QED  BY <3>1, <3>2
  <2>. QED  BY <1>1, <1>4, <2>1, <2>2 DEF Queued
<1>. QED  BY <1>1, <1>4, <1>5, <1>6 DEF q
-----------------------------------------------------------------------------
\* Sets that differ in one element at most.
One(S, t) == IF t \in S THEN 1 ELSE 0

LEMMA Toggled ==
    ASSUME NEW S, NEW T, NEW t, IsFiniteSet(S), S \ {t} = T \ {t}
    PROVE  /\ Cardinality(T) \in Nat
           /\ Cardinality(T) + One(S, t) = Cardinality(S) + One(T, t)
<1>1. CASE t \in T
  <2>1. T = S \union {t}
    BY <1>1
  <2>2. /\ Cardinality(S) \in Nat
        /\ Cardinality(T) = IF t \in S THEN Cardinality(S) ELSE Cardinality(S) + 1
    BY <2>1, FS_AddElement, FS_CardinalityType
  <2>. QED  BY <1>1, <2>2 DEF One
<1>2. CASE t \notin T
  <2>1. T = S \ {t}
    BY <1>2
  <2>2. /\ IsFiniteSet(T)
        /\ Cardinality(S) \in Nat
        /\ Cardinality(T) = IF t \in S THEN Cardinality(S) - 1 ELSE Cardinality(S)
    BY <2>1, FS_RemoveElement, FS_CardinalityType
  <2>3. Cardinality(T) \in Nat
    BY <2>2, FS_CardinalityType
  <2>. QED  BY <1>2, <2>2, <2>3 DEF One
<1>. QED  BY <1>1, <1>2

\* What all tasks hold changes by what one of them does.
LEMMA Counted ==
    ASSUME NEW f \in [Tasks -> Progress], NEW t \in Tasks, NEW q \in Progress
    PROVE  /\ Occupied(f) \in Nat
           /\ Occupied([f EXCEPT ![t] = q]) + Connections(f[t].phase) = Occupied(f) + Connections(q.phase)
<1>. DEFINE g == [f EXCEPT ![t] = q]
<1>1. /\ IsFiniteSet(Transactions(f))
      /\ IsFiniteSet(Nestings(f))
      /\ Cardinality(Transactions(f)) \in Nat
      /\ Cardinality(Nestings(f)) \in Nat
  BY PoolAssumption, FS_Subset, FS_CardinalityType DEF Transactions, Nestings
<1>2. /\ Transactions(g) \ {t} = Transactions(f) \ {t}
      /\ t \in Transactions(f) <=> f[t].phase \in Outer
      /\ t \in Transactions(g) <=> q.phase \in Outer
  BY DEF Transactions
<1>3. /\ Nestings(g) \ {t} = Nestings(f) \ {t}
      /\ t \in Nestings(f) <=> f[t].phase = "inner"
      /\ t \in Nestings(g) <=> q.phase = "inner"
  BY DEF Nestings
<1>. HIDE DEF g
<1>4. Occupied(f) \in Nat
  BY <1>1 DEF Occupied
<1>5. PICK a, b, c, d \in {0, 1} :
          /\ a = One(Transactions(f), t) /\ b = One(Transactions(g), t)
          /\ c = One(Nestings(f), t) /\ d = One(Nestings(g), t)
  BY DEF One
<1>6. Connections(f[t].phase) = a + c /\ Connections(q.phase) = b + d
  BY <1>2, <1>3, <1>5 DEF One, Connections, Outer
<1>7. /\ Cardinality(Transactions(g)) + a = Cardinality(Transactions(f)) + b
      /\ Cardinality(Nestings(g)) + c = Cardinality(Nestings(f)) + d
      /\ Cardinality(Transactions(g)) \in Nat
      /\ Cardinality(Nestings(g)) \in Nat
  BY <1>1, <1>2, <1>3, <1>5, Toggled
<1>8. Occupied(g) + Connections(f[t].phase) = Occupied(f) + Connections(q.phase)
  BY <1>1, <1>6, <1>7 DEF Occupied
<1>. QED  BY <1>4, <1>8 DEF g

\* All connections are there at first.
LEMMA PoolInitInv == PoolInit => PoolInv
<1>. SUFFICES ASSUME PoolInit PROVE PoolInv
  OBVIOUS
<1>1. PoolTypeOK
  <2>1. PoolSize \in Nat
    BY PoolAssumption
  <2>2. [phase |-> "new", through |-> 0] \in [phase : Phase, through : Nat]
    BY DEF Phase
  <2>3. free \in Nat /\ queue \in Seq(Tasks) /\ ending \in BOOLEAN
    <3>1. free \in Nat
      BY <2>1 DEF PoolInit
    <3>2. queue = <<>>
      BY DEF PoolInit
    <3>3. ending \in BOOLEAN
      BY DEF PoolInit
    <3>. QED  BY <3>1, <3>2, <3>3
  <2>4. task \in [Tasks -> [phase : Phase, through : Nat]]
    BY <2>2, Zenon DEF PoolInit
  <2>. QED  BY <2>3, <2>4 DEF PoolTypeOK
<1>2. Occupied(task) = 0
  <2>1. Transactions(task) = {} /\ Nestings(task) = {}
    BY DEF PoolInit, Transactions, Nestings, Outer
  <2>. QED  BY <2>1, FS_EmptySet DEF Occupied
<1>3. WaitersInv
  <2>1. queue = <<>> /\ DOMAIN queue = {}
    BY DEF PoolInit
  <2>2. \A t \in Tasks : ~Waits(task[t].phase)
    BY DEF PoolInit, Waits
  <2>. QED  BY <2>1, <2>2 DEF WaitersInv, Queued, Distinct
<1>. QED  BY <1>1, <1>2, <1>3, PoolAssumption DEF PoolInit, PoolInv

\* A task that neither takes nor gives nor queues.
LEMMA Stays ==
    ASSUME PoolInv, NEW t \in Tasks, NEW q \in Progress,
           task' = [task EXCEPT ![t] = q], UNCHANGED <<free, queue, ending>>,
           Connections(q.phase) = Connections(task[t].phase),
           ~Waits(task[t].phase), ~Waits(q.phase)
    PROVE  PoolInv'
<1>1. task \in [Tasks -> Progress]
  BY DEF PoolInv, PoolTypeOK, Progress
<1>2. PoolTypeOK'
  BY <1>1 DEF PoolInv, PoolTypeOK, Progress
<1>3. Occupied(task') = Occupied(task)
  <2>1. Connections(q.phase) \in Nat
    BY DEF Connections
  <2>2. task' \in [Tasks -> Progress]
    BY <1>1
  <2>3. Occupied(task) \in Nat /\ Occupied(task') \in Nat
    BY <1>1, <2>2, Counted
  <2>4. Occupied(task') + Connections(task[t].phase) = Occupied(task) + Connections(q.phase)
    BY <1>1, Counted
  <2>. QED  BY <2>1, <2>3, <2>4
<1>4. WaitersInv'
  BY <1>1 DEF PoolInv, WaitersInv
<1>. QED  BY <1>2, <1>3, <1>4 DEF PoolInv

\* pool.connect() keeps the books.
LEMMA ConnectKeeps ==
    ASSUME PoolInv, NEW t \in Tasks, NEW phase \in {"connect", "nested"},
           TaskAt(t, IF phase = "connect" THEN "new" ELSE "outer"),
           Connect(t, phase), ~ending, UNCHANGED ending
    PROVE  PoolInv'
<1>1. /\ task \in [Tasks -> Progress]
      /\ task[t] \in Progress
      /\ free \in Nat
      /\ queue \in Seq(Tasks)
  BY DEF PoolInv, PoolTypeOK, Progress
<1>2. CASE free > 0
  <2>1. PICK q : q = [task[t] EXCEPT !.phase = Granted(phase)]
    OBVIOUS
  <2>2. q \in Progress /\ q.phase = Granted(phase)
    BY <1>1, <2>1 DEF Progress, Granted, Phase
  <2>3. task' = [task EXCEPT ![t] = q]
    BY <1>2, <2>1 DEF Connect
  <2>4. Connections(q.phase) = Connections(task[t].phase) + 1 /\ Connections(task[t].phase) \in Nat
    BY <2>2 DEF Connections, Granted, Outer, TaskAt
  <2>5. PoolTypeOK'
    BY <1>1, <1>2, <2>2, <2>3 DEF PoolInv, PoolTypeOK, Progress, Connect
  <2>6. Occupied(task') = Occupied(task) + 1 /\ Occupied(task) \in Nat
    <3>1. Occupied(task) \in Nat /\ Occupied(task') \in Nat
      BY <1>1, <2>5, Counted DEF PoolTypeOK, Progress
    <3>2. Occupied(task') + Connections(task[t].phase) = Occupied(task) + Connections(q.phase)
      BY <1>1, <2>2, <2>3, Counted
    <3>. QED  BY <2>4, <3>1, <3>2
  <2>7. ~Waits(task[t].phase) /\ ~Waits(q.phase)
    BY <2>2 DEF Waits, Granted, TaskAt
  <2>8. WaitersInv'
    BY <1>1, <1>2, <2>3, <2>7 DEF PoolInv, WaitersInv, Connect
  <2>9. free' = free - 1 /\ UNCHANGED queue
    BY <1>2 DEF Connect
  <2>10. free' + Occupied(task') = PoolSize
    BY <1>1, <2>6, <2>9, PoolAssumption DEF PoolInv
  <2>. QED  BY <1>1, <1>2, <2>5, <2>8, <2>9, <2>10 DEF PoolInv
<1>3. CASE ~(free > 0)
  <2>1. PICK q : q = [task[t] EXCEPT !.phase = phase]
    OBVIOUS
  <2>2. q \in Progress /\ q.phase = phase
    BY <1>1, <2>1 DEF Progress, Phase
  <2>3. /\ task' = [task EXCEPT ![t] = q]
        /\ queue' = Append(queue, t)
        /\ UNCHANGED free
    BY <1>3, <2>1 DEF Connect
  <2>4. Connections(q.phase) = Connections(task[t].phase) /\ Connections(q.phase) \in Nat
    BY <2>2 DEF Connections, Outer, TaskAt
  <2>5. ~Queued(queue, t) /\ Waits(q.phase)
    BY <2>2 DEF PoolInv, WaitersInv, Waits, TaskAt
  <2>6. PoolTypeOK' /\ WaitersInv'
    BY <1>1, <2>2, <2>3, <2>5, Appended DEF PoolInv, PoolTypeOK, Progress, WaitersInv
  <2>7. Occupied(task') = Occupied(task)
    <3>1. Occupied(task) \in Nat /\ Occupied(task') \in Nat
      BY <1>1, <2>6, Counted DEF PoolTypeOK, Progress
    <3>2. Occupied(task') + Connections(task[t].phase) = Occupied(task) + Connections(q.phase)
      BY <1>1, <2>2, <2>3, Counted
    <3>. QED  BY <2>4, <3>1, <3>2
  <2>. QED  BY <1>3, <2>3, <2>6, <2>7 DEF PoolInv
<1>. QED  BY <1>2, <1>3

\* So does client.release(), with a waiter to pass the connection to or none.
LEMMA ReleaseKeeps ==
    ASSUME PoolInv, NEW t \in Tasks, NEW q \in Progress,
           ~Waits(task[t].phase), ~Waits(q.phase),
           Connections(task[t].phase) = Connections(q.phase) + 1,
           Release(t, q), UNCHANGED ending
    PROVE  PoolInv'
<1>. DEFINE later == [task EXCEPT ![t] = q]
<1>1. /\ task \in [Tasks -> Progress]
      /\ later \in [Tasks -> Progress]
      /\ free \in Nat
      /\ queue \in Seq(Tasks)
  BY DEF PoolInv, PoolTypeOK, Progress
<1>2. /\ Occupied(task) \in Nat
      /\ Occupied(later) + 1 = Occupied(task)
      /\ Occupied(later) \in Nat
  <2>1. Occupied(task) \in Nat /\ Occupied(later) \in Nat
    BY <1>1, Counted
  <2>2. Occupied(later) + Connections(task[t].phase) = Occupied(task) + Connections(q.phase)
    BY <1>1, Counted
  <2>3. Connections(q.phase) \in Nat
    BY DEF Connections
  <2>. QED  BY <2>1, <2>2, <2>3
<1>3. \A u \in Tasks : Waits(later[u].phase) <=> Queued(queue, u)
  BY <1>1 DEF PoolInv, WaitersInv
<1>4. CASE queue # <<>> /\ ~ending
  <2>1. PICK w \in Tasks : w = Head(queue)
    BY <1>1, <1>4, HeadLeaves DEF PoolInv, WaitersInv
  <2>2. /\ Queued(queue, w)
        /\ Tail(queue) \in Seq(Tasks)
        /\ Distinct(Tail(queue))
        /\ \A u : Queued(Tail(queue), u) <=> Queued(queue, u) /\ u # w
    BY <1>1, <1>4, <2>1, HeadLeaves DEF PoolInv, WaitersInv
  <2>3. Waits(later[w].phase) /\ later[w] \in Progress
    BY <1>1, <1>3, <2>2
  <2>4. PICK p : p = [later[w] EXCEPT !.phase = Granted(later[w].phase)]
    OBVIOUS
  <2>5. p \in Progress /\ p.phase = Granted(later[w].phase)
    BY <2>3, <2>4 DEF Progress, Phase, Granted
  <2>6. /\ task' = [later EXCEPT ![w] = p]
        /\ queue' = Tail(queue)
        /\ UNCHANGED free
    BY <1>1, <1>4, <2>1, <2>4 DEF Release
  <2>7. Connections(p.phase) = Connections(later[w].phase) + 1 /\ Connections(later[w].phase) \in Nat
    BY <2>3, <2>5 DEF Waits, Granted, Connections, Outer
  <2>8. task' \in [Tasks -> Progress]
    BY <1>1, <2>5, <2>6
  <2>9. Occupied(task') = Occupied(task)
    <3>1. Occupied(task') \in Nat
      BY <2>8, Counted
    <3>2. Occupied(task') + Connections(later[w].phase) = Occupied(later) + Connections(p.phase)
      BY <1>1, <2>5, <2>6, Counted
    <3>. QED  BY <1>2, <2>7, <3>1, <3>2
  <2>10. PoolTypeOK'
    BY <1>1, <2>2, <2>6, <2>8 DEF PoolInv, PoolTypeOK, Progress
  <2>11. WaitersInv'
    <3>1. ~Waits(p.phase)
      BY <2>3, <2>5 DEF Waits, Granted
    <3>2. \A u \in Tasks : task'[u] = IF u = w THEN p ELSE later[u]
      BY <1>1, <2>6
    <3>. HIDE DEF later
    <3>. QED  BY <1>3, <2>2, <2>6, <3>1, <3>2 DEF WaitersInv
  <2>12. free > 0 => queue = <<>>
    BY <1>4 DEF PoolInv
  <2>. QED  BY <1>4, <2>6, <2>9, <2>10, <2>11, <2>12 DEF PoolInv
<1>5. CASE queue = <<>> \/ ending
  <2>1. free' = free + 1 /\ task' = later /\ UNCHANGED queue
    BY <1>5 DEF Release
  <2>2. PoolTypeOK'
    BY <1>1, <2>1 DEF PoolInv, PoolTypeOK, Progress
  <2>3. WaitersInv'
    BY <1>3, <2>1 DEF PoolInv, WaitersInv
  <2>4. free' + Occupied(task') = PoolSize
    BY <1>1, <1>2, <2>1 DEF PoolInv
  <2>. QED  BY <1>5, <2>1, <2>2, <2>3, <2>4 DEF PoolInv
<1>. QED  BY <1>4, <1>5

\* And so does the time limit of a waiter.
LEMMA TimeoutKeeps ==
    ASSUME PoolInv, NEW t \in Tasks, Timeout(t)
    PROVE  PoolInv'
<1>1. /\ task \in [Tasks -> Progress]
      /\ task[t] \in Progress
      /\ queue \in Seq(Tasks)
      /\ free \in Nat
  BY DEF PoolInv, PoolTypeOK, Progress
<1>2. PICK i \in DOMAIN queue :
          /\ queue[i] = t
          /\ queue' = RemoveAt(queue, i)
          /\ task' = [task EXCEPT ![t] = IF TaskAt(t, "connect") THEN As(t, "failed")
                                        ELSE Back(t, Caught(t))]
          /\ UNCHANGED <<free, ending>>
  BY DEF Timeout
<1>3. Waits(task[t].phase)
  BY <1>2 DEF PoolInv, WaitersInv, Queued
<1>4. PICK q \in Progress : /\ task' = [task EXCEPT ![t] = q]
                            /\ Connections(q.phase) = Connections(task[t].phase)
                            /\ ~Waits(q.phase)
  <2>1. CASE TaskAt(t, "connect")
    <3>1. PICK q : q = As(t, "failed")
      OBVIOUS
    <3>2. q \in Progress /\ q.phase = "failed"
      BY <1>1, <3>1 DEF As, Progress, Phase
    <3>. QED  BY <1>2, <2>1, <3>1, <3>2 DEF TaskAt, Connections, Outer, Waits
  <2>2. CASE ~TaskAt(t, "connect")
    <3>1. PICK q : q = Back(t, Caught(t))
      OBVIOUS
    <3>2. PICK phase \in {"outer", "broken"} :
              phase = IF Caught(t) THEN "outer" ELSE "broken"
      OBVIOUS
    <3>3. q \in Progress /\ q.phase = phase
      BY <1>1, <3>1, <3>2 DEF Back, Progress, Phase
    <3>4. task' = [task EXCEPT ![t] = q]
      BY <1>2, <2>2, <3>1
    <3>5. Connections(q.phase) = 1 /\ Connections(task[t].phase) = 1 /\ ~Waits(q.phase)
      BY <1>3, <2>2, <3>2, <3>3 DEF TaskAt, Connections, Outer, Waits
    <3>. QED  BY <3>3, <3>4, <3>5
  <2>. QED  BY <2>1, <2>2
<1>5. task' \in [Tasks -> Progress]
  BY <1>1, <1>4
<1>6. Occupied(task') = Occupied(task)
  <2>1. Occupied(task) \in Nat /\ Occupied(task') \in Nat
    BY <1>1, <1>5, Counted
  <2>2. Occupied(task') + Connections(task[t].phase) = Occupied(task) + Connections(q.phase)
    BY <1>1, <1>4, Counted
  <2>3. Connections(q.phase) \in Nat
    BY DEF Connections
  <2>. QED  BY <1>4, <2>1, <2>2, <2>3
<1>7. /\ queue' \in Seq(Tasks)
      /\ Distinct(queue')
      /\ \A u : Queued(queue', u) <=> Queued(queue, u) /\ u # t
      /\ queue = <<>> => queue' = <<>>
  BY <1>1, <1>2, Removed DEF PoolInv, WaitersInv
<1>8. PoolTypeOK'
  BY <1>1, <1>2, <1>5, <1>7 DEF PoolInv, PoolTypeOK, Progress
<1>9. WaitersInv'
  <2>1. \A u \in Tasks : task'[u] = IF u = t THEN q ELSE task[u]
    BY <1>1, <1>4
  <2>. QED  BY <1>4, <1>7, <2>1 DEF PoolInv, WaitersInv
<1>. QED  BY <1>2, <1>6, <1>7, <1>8, <1>9 DEF PoolInv
-----------------------------------------------------------------------------
\* The invariant is inductive.
LEMMA PoolNextInv == PoolInv /\ [PoolNext]_poolVars => PoolInv'
<1>. SUFFICES ASSUME PoolInv, [PoolNext]_poolVars PROVE PoolInv'
  OBVIOUS
<1>1. task \in [Tasks -> Progress]
  BY DEF PoolInv, PoolTypeOK, Progress
<1>2. ASSUME NEW t \in Tasks, BeginTask(t) PROVE PoolInv'
  <2>1. CASE ending
    <3>1. PICK q : q = As(t, "failed")
      OBVIOUS
    <3>2. q \in Progress /\ q.phase = "failed"
      BY <1>1, <3>1 DEF As, Progress, Phase
    <3>3. /\ task' = [task EXCEPT ![t] = q]
          /\ UNCHANGED <<free, queue, ending>>
          /\ task[t].phase = "new"
      BY <1>2, <2>1, <3>1 DEF BeginTask, TaskAt
    <3>. QED  BY <3>2, <3>3, Stays DEF Connections, Outer, Waits
  <2>2. CASE ~ending
    BY <1>2, <2>2, ConnectKeeps DEF BeginTask
  <2>. QED  BY <2>1, <2>2
<1>3. ASSUME NEW t \in Tasks, CommitTask(t) \/ Rollback(t) PROVE PoolInv'
  <2>1. PICK phase \in {"done", "failed"} : Release(t, As(t, phase))
    BY <1>3 DEF CommitTask, Rollback, ReleasesOnError
  <2>2. PICK q : q = As(t, phase)
    OBVIOUS
  <2>3. q \in Progress /\ q.phase = phase
    BY <1>1, <2>2 DEF As, Progress, Phase
  <2>4. task[t].phase \in {"outer", "broken"} /\ UNCHANGED ending
    BY <1>3 DEF CommitTask, Rollback, TaskAt
  <2>5. /\ ~Waits(task[t].phase)
        /\ ~Waits(q.phase)
        /\ Connections(task[t].phase) = Connections(q.phase) + 1
    BY <2>3, <2>4 DEF Waits, Connections, Outer
  <2>6. Release(t, q)
    BY <2>1, <2>2
  <2>. QED  BY <2>3, <2>4, <2>5, <2>6, ReleaseKeeps
<1>4. ASSUME NEW t \in Tasks, ConnectNested(t) PROVE PoolInv'
  <2>1. CASE ending
    <3>1. PICK q : q = Back(t, Caught(t))
      OBVIOUS
    <3>2. PICK phase \in {"outer", "broken"} :
              phase = IF Caught(t) THEN "outer" ELSE "broken"
      OBVIOUS
    <3>3. q \in Progress /\ q.phase = phase
      BY <1>1, <3>1, <3>2 DEF Back, Progress, Phase
    <3>4. /\ task' = [task EXCEPT ![t] = q]
          /\ UNCHANGED <<free, queue, ending>>
          /\ task[t].phase = "outer"
      BY <1>4, <2>1, <3>1 DEF ConnectNested, TaskAt
    <3>. QED  BY <3>2, <3>3, <3>4, Stays DEF Connections, Outer, Waits
  <2>2. CASE ~ending
    BY <1>4, <2>2, ConnectKeeps DEF ConnectNested
  <2>. QED  BY <2>1, <2>2
<1>5. ASSUME NEW t \in Tasks, FinishNested(t) PROVE PoolInv'
  <2>1. PICK ok : Release(t, Back(t, ok))
    BY <1>5 DEF FinishNested
  <2>2. PICK q : q = Back(t, ok)
    OBVIOUS
  <2>3. PICK phase \in {"outer", "broken"} : phase = IF ok THEN "outer" ELSE "broken"
    OBVIOUS
  <2>4. q \in Progress /\ q.phase = phase
    BY <1>1, <2>2, <2>3 DEF Back, Progress, Phase
  <2>5. task[t].phase = "inner" /\ UNCHANGED ending
    BY <1>5 DEF FinishNested, TaskAt
  <2>6. /\ ~Waits(task[t].phase)
        /\ ~Waits(q.phase)
        /\ Connections(task[t].phase) = Connections(q.phase) + 1
    BY <2>3, <2>4, <2>5 DEF Waits, Connections, Outer
  <2>7. Release(t, q)
    BY <2>1, <2>2
  <2>. QED  BY <2>4, <2>5, <2>6, <2>7, ReleaseKeeps
<1>6. CASE Drain
  BY <1>6 DEF Drain, PoolInv, PoolTypeOK, WaitersInv
<1>7. CASE UNCHANGED poolVars
  BY <1>7 DEF poolVars, PoolInv, PoolTypeOK, WaitersInv
<1>. QED  BY <1>2, <1>3, <1>4, <1>5, <1>6, <1>7, TimeoutKeeps DEF PoolNext, Work

\* Every reachable state is well typed.
THEOREM PoolTypeCorrect == PoolSpec => []PoolTypeOK
<1>1. PoolInv => PoolTypeOK
  BY DEF PoolInv
<1>. QED  BY <1>1, PoolInitInv, PoolNextInv, PTL DEF PoolSpec

\* Connections are free or held, none is handed out twice or forgotten, and pg
\* queues exactly the tasks that wait.
THEOREM Accounted == PoolSpec => []ConnectionsAccounted
<1>1. PoolInv => ConnectionsAccounted
  <2>. SUFFICES ASSUME PoolInv PROVE ConnectionsAccounted
    OBVIOUS
  <2>1. Transactions(task) = InTransaction /\ Nestings(task) = InNested
    BY DEF Transactions, Nestings, InTransaction, InNested, Outer
  <2>2. /\ IsFiniteSet(InTransaction)
        /\ IsFiniteSet(InNested)
    BY PoolAssumption, FS_Subset DEF InTransaction, InNested
  <2>3. free + Cardinality(InTransaction) + Cardinality(InNested) = PoolSize
    BY <2>1, <2>2, FS_CardinalityType DEF PoolInv, PoolTypeOK, Occupied
  <2>. QED  BY <2>3 DEF PoolInv, ConnectionsAccounted, WaitersInv, Queued, Distinct
<1>. QED  BY <1>1, PoolInitInv, PoolNextInv, PTL DEF PoolSpec

-----------------------------------------------------------------------------
(* WebClient: turns, forms and lists. *)

\* An operation holds the turn of its tab until it is done; a logout takes none.
Busy(c) == call[c].ask.op # "logout" /\ call[c].phase \notin {"idle", "done"}

TurnInv ==
    /\ \A c \in Calls : Busy(c) => tab[Of(c)].loading
    /\ \A c, d \in Calls : Busy(c) /\ Busy(d) /\ Of(c) = Of(d) => c = d
    /\ \A t \in Tabs : item[t] # None =>
           \E c \in Calls : Of(c) = t /\ Busy(c) /\ call[c].phase \in Key

\* call r may have made a request: it knows whose
Filed(r) == call[r].phase # "idle" /\ call[r].user \in Profile

Signed == {"createProfile", "submitKyc", "transfer", "review"}

FormInv(c) ==
    LET k == call[c]
    IN /\ k.ask.op = "logout" => k.phase \in {"idle", "asked", "done"}
       /\ k.phase # "idle" /\ k.ask.op \in Signed => k.user \in Profile
       /\ k.phase # "idle" /\ k.ask.op = "transfer" =>
              k.from \in Calls /\ k.to \in AccountId /\ k.from # k.to
       /\ k.phase # "idle" /\ k.ask.op = "review" =>
              k.request \in Calls /\ k.verdict # None /\ Filed(k.request)
       /\ k.phase = "session" => k.profile \in Profile

\* one account of a user, requests of calls that could make them
OneEach(s) == \A a, b \in s : a.user = b.user => a = b
AllFiled(f) == \A r \in Calls : f[r] # None => Filed(r)

StorageInv ==
    /\ session \in Session
    /\ profiles \in [Users -> Profile \union {None}]
    /\ accounts \in SUBSET Account /\ OneEach(accounts)
    /\ balances \in [AccountId -> Int]
    /\ approvals \in [Calls -> Review \union {None}] /\ AllFiled(approvals)
    /\ transfers \in SUBSET Calls
    /\ wrote \in SUBSET Calls
    /\ before \in [Calls -> SUBSET Calls]
    /\ lost \in BOOLEAN

TabsInv ==
    /\ tab \in [Tabs -> Tab]
    /\ \A t \in Tabs : AllFiled(tab[t].approvals)

Reading(c) == call[c].phase \in Key /\ item[Of(c)] # None

ReadInv ==
    /\ DOMAIN item = Tabs
    /\ \A c \in Calls : Reading(c) =>
           /\ item[Of(c)] \in Item(call[c].phase)
           /\ call[c].phase = "accounts" => OneEach(item[Of(c)])
           /\ call[c].phase = "approvals" => AllFiled(item[Of(c)])

WebInv ==
    /\ call \in [Calls -> Call]
    /\ \A c \in Calls : FormInv(c)
    /\ TurnInv
    /\ StorageInv
    /\ TabsInv
    /\ ReadInv

\* What the keys hold, key by key.
LEMMA Items ==
    /\ Item("profiles") = [Users -> Profile \union {None}]
    /\ Item("approvals") = [Calls -> Review \union {None}]
    /\ Item("accounts") = SUBSET Account
    /\ Item("balances") = [AccountId -> Int]
    /\ Item("transfers") = SUBSET Calls
BY DEF Item

LEMMA StoredItems ==
    /\ Stored["profiles"] = profiles
    /\ Stored["approvals"] = approvals
    /\ Stored["accounts"] = accounts
    /\ Stored["balances"] = balances
    /\ Stored["transfers"] = transfers
BY DEF Stored, Key

LEMMA StorageTyped ==
    ASSUME StorageInv, NEW key \in Key
    PROVE  /\ Stored[key] \in Item(key)
           /\ key = "accounts" => OneEach(Stored[key])
           /\ key = "approvals" => AllFiled(Stored[key])
<1>1. \/ key = "profiles" \/ key = "approvals" \/ key = "accounts"
      \/ key = "balances" \/ key = "transfers"
  BY DEF Key
<1>. QED  BY <1>1, Items, StoredItems DEF StorageInv

LEMMA WebInvTypes == WebInv => WebTypeOK
BY StorageTyped DEF WebInv, StorageInv, TabsInv, ReadInv, WebTypeOK

\* A call and its tab.
LEMMA CallTyped ==
    ASSUME WebInv, NEW c \in Calls
    PROVE  /\ call[c] \in Call /\ call[c].ask \in Ask /\ call[c].ask.op \in Op
           /\ call[c].ask.user \in Users
           /\ Of(c) \in Tabs /\ tab[Of(c)] \in Tab
           /\ FormInv(c)
BY DEF WebInv, TabsInv, Call, Ask, Of

\* A tab that is not reading has read nothing.
LEMMA NothingRead ==
    ASSUME WebInv, NEW c \in Calls, Busy(c), call[c].phase \notin Key
    PROVE  item[Of(c)] = None
BY CallTyped DEF WebInv, TurnInv

-----------------------------------------------------------------------------
\* Call c moves on to phase p; its form, but for the profile, stays.
Onward(c, p) ==
    /\ call' \in [Calls -> Call]
    /\ call'[c].phase = p
    /\ call'[c].ask = call[c].ask /\ call'[c].user = call[c].user
    /\ call'[c].from = call[c].from /\ call'[c].to = call[c].to
    /\ call'[c].amount = call[c].amount
    /\ call'[c].request = call[c].request /\ call'[c].verdict = call[c].verdict
    /\ \A d \in Calls \ {c} : call'[d] = call[d]

Phases == {"idle", "asked", "profile", "done"} \union Task

LEMMA GoOnward ==
    ASSUME WebInv, NEW c \in Calls, NEW p \in Phases,
           call' = [call EXCEPT ![c].phase = p]
    PROVE  Onward(c, p) /\ call'[c].profile = call[c].profile
<1>1. call \in [Calls -> Call] /\ call[c] \in Call
  BY DEF WebInv
<1>2. \A d \in Calls : call'[d] = IF d = c THEN [call[c] EXCEPT !.phase = p] ELSE call[d]
  BY <1>1
<1>3. [call[c] EXCEPT !.phase = p] \in Call
  BY <1>1 DEF Call, Phases
<1>4. call' \in [Calls -> Call]
  BY <1>1, <1>3
<1>. QED  BY <1>1, <1>2, <1>4 DEF Call, Onward

LEMMA StoreOnward ==
    ASSUME WebInv, NEW c \in Calls, NEW profile \in Profile, Store(c, profile)
    PROVE  Onward(c, "session") /\ call'[c].profile = profile
<1>. DEFINE new == [[call[c] EXCEPT !.phase = "session"] EXCEPT !.profile = profile]
<1>1. call \in [Calls -> Call] /\ call[c] \in Call
  BY DEF WebInv
<1>2. call' = [call EXCEPT ![c] = new]
  BY <1>1 DEF Store, Call
<1>3. /\ new \in Call /\ new.phase = "session" /\ new.profile = profile
      /\ new.ask = call[c].ask /\ new.user = call[c].user
      /\ new.from = call[c].from /\ new.to = call[c].to /\ new.amount = call[c].amount
      /\ new.request = call[c].request /\ new.verdict = call[c].verdict
  BY <1>1 DEF Call, Task, Key
<1>. HIDE DEF new
<1>4. \A d \in Calls : call'[d] = IF d = c THEN new ELSE call[d]
  BY <1>1, <1>2
<1>5. call' \in [Calls -> Call]
  BY <1>1, <1>2, <1>3
<1>. QED  BY <1>3, <1>4, <1>5 DEF Onward

LEMMA FiledKept ==
    ASSUME NEW c \in Calls, NEW p, Onward(c, p), call[c].phase # "idle", p # "idle",
           NEW r \in Calls, Filed(r)
    PROVE  Filed(r)'
BY DEF Onward, Filed

\* A step of call c on its turn, which reads nothing: what it may leave behind.
LEMMA TurnKeeps ==
    ASSUME WebInv, NEW c \in Calls, Busy(c), NEW p \in Phases \ {"idle"}, Onward(c, p),
           p = "session" => call'[c].profile \in Profile,
           StorageInv',
           NEW t \in Tab, tab' = [tab EXCEPT ![Of(c)] = t],
           t.loading \/ p = "done",
           \A r \in Calls : t.approvals[r] # None => Filed(r),
           \A s \in Tabs : item'[s] = IF s = Of(c) THEN None ELSE item[s],
           DOMAIN item' = Tabs
    PROVE  WebInv'
<1>1. /\ call[c] \in Call /\ Of(c) \in Tabs /\ FormInv(c)
      /\ call[c].phase # "idle" /\ call[c].ask.op # "logout"
  BY CallTyped DEF Busy
<1>2. \A d \in Calls : Of(d)' = Of(d) /\ Of(d) \in Tabs
  BY CallTyped DEF Onward, Of
<1>3. \A r \in Calls : Filed(r) => Filed(r)'
  BY <1>1, FiledKept
<1>4. ASSUME NEW d \in Calls PROVE FormInv(d)'
  <2>1. FormInv(d)
    BY DEF WebInv
  <2>2. CASE d = c
    <3>1. /\ call'[d].phase = p /\ call[d].phase # "idle"
          /\ call'[d].ask = call[d].ask /\ call'[d].user = call[d].user
          /\ call'[d].from = call[d].from /\ call'[d].to = call[d].to
          /\ call'[d].request = call[d].request /\ call'[d].verdict = call[d].verdict
      BY <1>1, <2>2 DEF Onward
    <3>2. p = "session" => call'[d].profile \in Profile
      BY <2>2
    <3>. QED  BY <1>1, <1>3, <2>1, <2>2, <3>1, <3>2 DEF FormInv
  <2>3. CASE d # c
    <3>1. call'[d] = call[d]
      BY <2>3 DEF Onward
    <3>. QED  BY <1>3, <2>1, <3>1 DEF FormInv
  <2>. QED  BY <2>2, <2>3
<1>5. \A s \in Tabs : tab'[s] = IF s = Of(c) THEN t ELSE tab[s]
  BY <1>1 DEF WebInv, TabsInv
<1>6. TabsInv'
  <2>1. tab' \in [Tabs -> Tab]
    BY <1>1 DEF WebInv, TabsInv
  <2>2. ASSUME NEW s \in Tabs PROVE AllFiled(tab[s].approvals)'
    BY <1>3, <1>5 DEF WebInv, TabsInv, AllFiled
  <2>. QED  BY <2>1, <2>2 DEF TabsInv
<1>7. ASSUME NEW d \in Calls \ {c}
      PROVE  /\ Busy(d)' = Busy(d) /\ call'[d] = call[d]
             /\ Busy(d) => Of(d) # Of(c)
  <2>1. call'[d] = call[d]
    BY DEF Onward
  <2>. QED  BY <2>1 DEF Busy, WebInv, TurnInv
<1>8. Busy(c)' => p # "done"
  BY DEF Busy, Onward
<1>9. TurnInv'
  <2>1. ASSUME NEW d \in Calls, Busy(d)' PROVE tab'[Of(d)'].loading
    <3>1. CASE d = c
      BY <1>2, <1>5, <1>8, <2>1, <3>1
    <3>2. CASE d # c
      <4>1. Busy(d) /\ Of(d) # Of(c)
        BY <1>7, <2>1, <3>2
      <4>. QED  BY <1>2, <1>5, <4>1 DEF WebInv, TurnInv
    <3>. QED  BY <3>1, <3>2
  <2>2. ASSUME NEW d \in Calls, NEW e \in Calls, Busy(d)', Busy(e)', Of(d)' = Of(e)'
        PROVE  d = e
    <3>1. Of(d) = Of(e)
      BY <1>2, <2>2
    <3>2. CASE d # c /\ e # c
      BY <1>7, <2>2, <3>1, <3>2 DEF WebInv, TurnInv
    <3>. QED  BY <1>7, <2>2, <3>1, <3>2
  <2>3. ASSUME NEW s \in Tabs, item'[s] # None
        PROVE  \E d \in Calls : Of(d)' = s /\ Busy(d)' /\ call'[d].phase \in Key
    <3>1. s # Of(c) /\ item[s] # None
      BY <2>3
    <3>2. PICK d \in Calls : Of(d) = s /\ Busy(d) /\ call[d].phase \in Key
      BY <3>1 DEF WebInv, TurnInv
    <3>3. d # c
      BY <3>1, <3>2
    <3>. QED  BY <1>2, <1>7, <3>2, <3>3
  <2>. QED  BY <2>1, <2>2, <2>3 DEF TurnInv
<1>10. ReadInv'
  <2>1. ASSUME NEW d \in Calls, Reading(d)'
        PROVE  (/\ item[Of(d)] \in Item(call[d].phase)
                /\ call[d].phase = "accounts" => OneEach(item[Of(d)])
                /\ call[d].phase = "approvals" => AllFiled(item[Of(d)]))'
    <3>1. Of(d) # Of(c) /\ item'[Of(d)'] = item[Of(d)] /\ item[Of(d)] # None
      BY <1>2, <2>1 DEF Reading
    <3>2. call'[d] = call[d]
      BY <3>1 DEF Onward
    <3>3. Reading(d)
      BY <2>1, <3>1, <3>2 DEF Reading
    <3>4. /\ item[Of(d)] \in Item(call[d].phase)
          /\ call[d].phase = "accounts" => OneEach(item[Of(d)])
          /\ call[d].phase = "approvals" => AllFiled(item[Of(d)])
      BY <3>3 DEF WebInv, ReadInv
    <3>5. Item(call[d].phase)' = Item(call[d].phase)
      BY <3>2 DEF Item
    <3>6. AllFiled(item[Of(d)]) => AllFiled(item[Of(d)])'
      BY <1>3, <3>1 DEF AllFiled
    <3>. QED  BY <3>1, <3>2, <3>4, <3>5, <3>6
  <2>. QED  BY <2>1 DEF ReadInv
<1>11. call' \in [Calls -> Call]
  BY DEF Onward
<1>. QED  BY <1>4, <1>6, <1>9, <1>10, <1>11 DEF WebInv

-----------------------------------------------------------------------------
\* Storage as the step leaves it, the calls having moved on.
LEMMA StorageStays ==
    ASSUME WebInv, \A r \in Calls : Filed(r) => Filed(r)',
           session' \in Session, UNCHANGED <<storage, ghosts>>
    PROVE  StorageInv'
<1>1. UNCHANGED <<profiles, accounts, balances, approvals, transfers, wrote, before, lost>>
  BY DEF storage, ghosts
<1>2. StorageInv
  BY DEF WebInv
<1>3. AllFiled(approvals)'
  BY <1>1, <1>2 DEF StorageInv, AllFiled
<1>. QED  BY <1>1, <1>2, <1>3 DEF StorageInv, OneEach

\* What a tab loads is what storage holds.
LEMMA LoadedShows ==
    ASSUME WebInv, NEW t \in Tabs, NEW u
    PROVE  /\ Loaded(t, u) \in Tab
           /\ \A r \in Calls : Loaded(t, u).approvals[r] # None => Filed(r)
<1>. DEFINE mine == {a \in accounts : a.user = u}
            shown == [c \in Calls |->
                         IF Role[u] = "CHECKER" \/ (approvals[c] # None /\ call[c].user.id = u)
                         THEN approvals[c] ELSE None]
<1>1. /\ accounts \subseteq Account /\ balances \in [AccountId -> Int]
      /\ approvals \in [Calls -> Review \union {None}] /\ AllFiled(approvals)
      /\ tab[t] \in Tab
  BY DEF WebInv, StorageInv, TabsInv
<1>2. mine \in SUBSET Account
  BY <1>1
<1>3. shown \in [Calls -> Review \union {None}]
  BY <1>1
<1>4. \A r \in Calls : shown[r] # None => Filed(r)
  BY <1>1 DEF AllFiled
<1>5. Loaded(t, u) = [[[tab[t] EXCEPT !.accounts = mine] EXCEPT !.balances = balances]
                         EXCEPT !.approvals = shown]
  BY DEF Loaded
<1>. HIDE DEF mine, shown
<1>. QED  BY <1>1, <1>2, <1>3, <1>4, <1>5 DEF Tab

\* A call that answers, or loads, leaves its tab with what it shows.
LEMMA FinishKeeps ==
    ASSUME WebInv, NEW c \in Calls, Busy(c), call[c].phase \notin Key,
           NEW t \in Tab, Finish(c, t), \A r \in Calls : t.approvals[r] # None => Filed(r),
           UNCHANGED <<session, storage, item, ghosts>>
    PROVE  WebInv'
<1>1. Onward(c, "done") /\ "done" \in Phases \ {"idle"}
  <2>1. "done" \in Phases \ {"idle"}
    BY DEF Phases
  <2>. QED  BY <2>1, GoOnward DEF Finish
<1>2. /\ item[Of(c)] = None /\ item' = item /\ DOMAIN item = Tabs
      /\ session' \in Session
  BY NothingRead DEF WebInv, ReadInv, StorageInv
<1>3. StorageInv'
  <2>1. \A r \in Calls : Filed(r) => Filed(r)'
    BY <1>1, FiledKept DEF Busy
  <2>. QED  BY <1>2, <2>1, StorageStays
<1>. DEFINE new == [t EXCEPT !.loading = FALSE]
<1>4. new \in Tab /\ new.approvals = t.approvals
  BY DEF Tab
<1>5. tab' = [tab EXCEPT ![Of(c)] = new]
  BY DEF Finish
<1>. HIDE DEF new
<1>6. \A r \in Calls : new.approvals[r] # None => Filed(r)
  BY <1>4
<1>7. /\ \A s \in Tabs : item'[s] = IF s = Of(c) THEN None ELSE item[s]
      /\ DOMAIN item' = Tabs
  BY <1>2
<1>. QED  BY <1>1, <1>3, <1>4, <1>5, <1>6, <1>7, TurnKeeps

LEMMA AnsweredKeeps ==
    ASSUME WebInv, NEW c \in Calls, Answered(c) PROVE WebInv'
<1>1. /\ call[c].phase = "asked" /\ Finish(c, tab[Of(c)])
      /\ call[c].ask.op \in {"login", "register", "verifyEmail", "transfer", "review"}
      /\ UNCHANGED <<session, storage, item, ghosts>>
  BY DEF Answered, At
<1>2. Busy(c) /\ call[c].phase \notin Key
  BY <1>1 DEF Busy, Key
<1>3. /\ tab[Of(c)] \in Tab
      /\ \A r \in Calls : tab[Of(c)].approvals[r] # None => Filed(r)
  BY CallTyped DEF WebInv, TabsInv, AllFiled
<1>. QED  BY <1>1, <1>2, <1>3, FinishKeeps

LEMMA LoadKeeps ==
    ASSUME WebInv, NEW c \in Calls, Load(c) PROVE WebInv'
<1>. DEFINE u == IF call[c].ask.op = "login" THEN call[c].profile.id ELSE Closure(c).id
<1>1. /\ call[c].phase = "load" /\ Finish(c, Loaded(Of(c), u))
      /\ UNCHANGED <<session, storage, item, ghosts>>
  BY DEF Load, At
<1>. HIDE DEF u
<1>2. Busy(c) /\ call[c].phase \notin Key /\ Of(c) \in Tabs
  BY <1>1, CallTyped DEF Busy, Key, FormInv
<1>3. /\ Loaded(Of(c), u) \in Tab
      /\ \A r \in Calls : Loaded(Of(c), u).approvals[r] # None => Filed(r)
  BY <1>2, LoadedShows
<1>. QED  BY <1>1, <1>2, <1>3, FinishKeeps

\* The tab as it is, which is loading.
LEMMA TabAsItIs ==
    ASSUME WebInv, NEW c \in Calls, Busy(c)
    PROVE  /\ tab[Of(c)] \in Tab /\ tab = [tab EXCEPT ![Of(c)] = tab[Of(c)]]
           /\ tab[Of(c)].loading
           /\ \A r \in Calls : tab[Of(c)].approvals[r] # None => Filed(r)
BY CallTyped DEF WebInv, TabsInv, TurnInv, AllFiled

\* A call that only moves on.
LEMMA GoKeeps ==
    ASSUME WebInv, NEW c \in Calls, Busy(c), call[c].phase \notin Key,
           NEW p \in Key \union {"profile"}, GoOn(c, p),
           UNCHANGED <<session, storage, item, ghosts>>
    PROVE  WebInv'
<1>1. p \in Phases \ {"idle"} /\ p # "session" /\ p # "done"
  BY DEF Phases, Task, Key
<1>2. Onward(c, p) /\ tab' = tab
  BY <1>1, GoOnward DEF GoOn
<1>3. /\ item[Of(c)] = None /\ item' = item /\ DOMAIN item = Tabs
      /\ session' \in Session
  BY NothingRead DEF WebInv, ReadInv, StorageInv
<1>4. StorageInv'
  <2>1. \A r \in Calls : Filed(r) => Filed(r)'
    BY <1>1, <1>2, FiledKept DEF Busy
  <2>. QED  BY <1>3, <2>1, StorageStays
<1>5. /\ \A s \in Tabs : item'[s] = IF s = Of(c) THEN None ELSE item[s]
      /\ DOMAIN item' = Tabs
  BY <1>3
<1>6. /\ tab[Of(c)] \in Tab /\ tab' = [tab EXCEPT ![Of(c)] = tab[Of(c)]]
      /\ tab[Of(c)].loading
      /\ \A r \in Calls : tab[Of(c)].approvals[r] # None => Filed(r)
  BY <1>2, TabAsItIs
<1>. QED  BY <1>1, <1>2, <1>4, <1>5, <1>6, TurnKeeps

LEMMA RequestsFallBack ==
    ASSUME WebInv, NEW c \in Calls, LoginAccepted(c) \/ LoginFallBack(c) \/ FallBack(c)
    PROVE  WebInv'
<1>1. PICK p \in Key \union {"profile"} :
          /\ call[c].phase \in {"asked", "profile"}
          /\ GoOn(c, p) /\ Busy(c)
          /\ UNCHANGED <<session, storage, item, ghosts>>
  <2>1. CASE LoginAccepted(c)
    BY <2>1 DEF LoginAccepted, At, Busy
  <2>2. CASE LoginFallBack(c)
    BY <2>2, CallTyped DEF LoginFallBack, At, Busy, Key, FormInv
  <2>3. CASE FallBack(c)
    BY <2>3 DEF FallBack, FirstKey, At, Busy, Key
  <2>. QED  BY <2>1, <2>2, <2>3
<1>2. call[c].phase \notin Key
  BY <1>1 DEF Key
<1>. QED  BY <1>1, <1>2, GoKeeps

-----------------------------------------------------------------------------
\* A task that has read an item: what it holds, and that its tab is loading.
LEMMA ItemHeld ==
    ASSUME WebInv, NEW c \in Calls, NEW key \in Key, NEW op \in Op \ {"logout"},
           SetItem(c, key, op)
    PROVE  /\ Busy(c) /\ call[c].phase = key /\ call[c].ask.op = op
           /\ item[Of(c)] \in Item(key)
           /\ key = "accounts" => OneEach(item[Of(c)])
           /\ key = "approvals" => AllFiled(item[Of(c)])
           /\ \A s \in Tabs : item'[s] = IF s = Of(c) THEN None ELSE item[s]
           /\ DOMAIN item' = Tabs
<1>1. /\ call[c].phase = key /\ call[c].ask.op = op /\ item[Of(c)] # None
      /\ item' = [item EXCEPT ![Of(c)] = None]
  BY DEF SetItem, At
<1>2. Busy(c) /\ Reading(c)
  BY <1>1 DEF Busy, Reading, Key
<1>3. DOMAIN item = Tabs
  BY DEF WebInv, ReadInv
<1>. QED  BY <1>1, <1>2, <1>3 DEF WebInv, ReadInv

\* A task that goes on to its next item, or to load: the calls it leaves behind.
LEMMA TaskGoes ==
    ASSUME WebInv, NEW c \in Calls, NEW key \in Key, NEW op \in Op \ {"logout"},
           SetItem(c, key, op), NEW p \in Key \union {"load"}, GoOn(c, p)
    PROVE  /\ \A r \in Calls : Filed(r) => Filed(r)'
           /\ StorageInv' => WebInv'
<1>1. p \in Phases \ {"idle"} /\ p # "session" /\ p # "done"
  BY DEF Phases, Task, Key
<1>2. Onward(c, p) /\ tab' = tab
  BY <1>1, GoOnward DEF GoOn
<1>3. /\ Busy(c) /\ DOMAIN item' = Tabs
      /\ \A s \in Tabs : item'[s] = IF s = Of(c) THEN None ELSE item[s]
  BY ItemHeld
<1>4. \A r \in Calls : Filed(r) => Filed(r)'
  BY <1>1, <1>2, <1>3, FiledKept DEF Busy
<1>5. /\ tab[Of(c)] \in Tab /\ tab' = [tab EXCEPT ![Of(c)] = tab[Of(c)]]
      /\ tab[Of(c)].loading
      /\ \A r \in Calls : tab[Of(c)].approvals[r] # None => Filed(r)
  BY <1>2, <1>3, TabAsItIs
<1>6. StorageInv' => WebInv'
  BY <1>1, <1>2, <1>3, <1>5, TurnKeeps
<1>. QED  BY <1>4, <1>6

\* A call that knows the profile to store.
LEMMA StoreKeeps ==
    ASSUME WebInv, NEW c \in Calls, Busy(c), NEW profile \in Profile, Store(c, profile),
           \A s \in Tabs : item'[s] = IF s = Of(c) THEN None ELSE item[s],
           DOMAIN item' = Tabs
    PROVE  /\ \A r \in Calls : Filed(r) => Filed(r)'
           /\ StorageInv' => WebInv'
<1>1. "session" \in Phases \ {"idle"}
  BY DEF Phases, Task
<1>2. Onward(c, "session") /\ call'[c].profile = profile /\ tab' = tab
  BY StoreOnward DEF Store
<1>3. \A r \in Calls : Filed(r) => Filed(r)'
  BY <1>1, <1>2, FiledKept DEF Busy
<1>4. /\ tab[Of(c)] \in Tab /\ tab' = [tab EXCEPT ![Of(c)] = tab[Of(c)]]
      /\ tab[Of(c)].loading
      /\ \A r \in Calls : tab[Of(c)].approvals[r] # None => Filed(r)
  BY <1>2, TabAsItIs
<1>5. StorageInv' => WebInv'
  BY <1>1, <1>2, <1>4, TurnKeeps
<1>. QED  BY <1>3, <1>5

LEMMA LoginLiveKeeps ==
    ASSUME WebInv, NEW c \in Calls, LoginLive(c) PROVE WebInv'
<1>1. PICK live \in LiveProfiles :
          /\ call[c].phase = "profile"
          /\ Store(c, [id |-> call[c].ask.user, named |-> live.named, kyc |-> live.kyc])
          /\ UNCHANGED <<storage, item, ghosts>>
  BY DEF LoginLive, At
<1>. DEFINE p == [id |-> call[c].ask.user, named |-> live.named, kyc |-> live.kyc]
<1>2. p \in Profile
  BY CallTyped, WebSetsAssumption DEF Profile
<1>3. Busy(c) /\ call[c].phase \notin Key
  BY <1>1, CallTyped DEF Busy, FormInv, Key
<1>4. item[Of(c)] = None /\ item' = item /\ DOMAIN item = Tabs
  BY <1>1, <1>3, NothingRead DEF WebInv, ReadInv
<1>5. session' \in Session /\ Store(c, p)
  BY <1>1 DEF Store, WebInv, StorageInv
<1>. HIDE DEF p
<1>6. (\A r \in Calls : Filed(r) => Filed(r)') /\ (StorageInv' => WebInv')
  BY <1>2, <1>3, <1>4, <1>5, StoreKeeps
<1>. QED  BY <1>1, <1>5, <1>6, StorageStays

LEMMA LoginProfileKeeps ==
    ASSUME WebInv, NEW c \in Calls, LoginProfile(c) PROVE WebInv'
<1>. DEFINE u == call[c].ask.user
            p == item[Of(c)]
            skeleton == [id |-> u, named |-> FALSE, kyc |-> "PENDING"]
<1>1. /\ SetItem(c, "profiles", "login")
      /\ \/ p[u] # None /\ Store(c, p[u]) /\ UNCHANGED profiles
         \/ Store(c, skeleton) /\ profiles' = [p EXCEPT ![u] = skeleton]
      /\ UNCHANGED <<accounts, balances, approvals, transfers, ghosts>>
  BY DEF LoginProfile
<1>2. /\ Busy(c) /\ p \in [Users -> Profile \union {None}]
      /\ \A s \in Tabs : item'[s] = IF s = Of(c) THEN None ELSE item[s]
      /\ DOMAIN item' = Tabs
  <2>1. "profiles" \in Key /\ "login" \in Op \ {"logout"}
    BY DEF Key, Op
  <2>. QED  BY <1>1, <2>1, ItemHeld, Items
<1>3. u \in Users /\ skeleton \in Profile
  BY CallTyped DEF Profile, KycStatus
<1>. HIDE DEF u, p, skeleton
<1>4. PICK profile \in Profile :
          /\ Store(c, profile)
          /\ profiles' \in [Users -> Profile \union {None}]
  <2>1. profiles \in [Users -> Profile \union {None}]
    BY DEF WebInv, StorageInv
  <2>. QED  BY <1>1, <1>2, <1>3, <2>1
<1>5. (\A r \in Calls : Filed(r) => Filed(r)') /\ (StorageInv' => WebInv')
  BY <1>2, <1>4, StoreKeeps
<1>6. StorageInv'
  <2>1. AllFiled(approvals)'
    BY <1>1, <1>5 DEF WebInv, StorageInv, AllFiled
  <2>. QED  BY <1>1, <1>4, <2>1 DEF WebInv, StorageInv, Store, OneEach, ghosts
<1>. QED  BY <1>5, <1>6

\* What a signed-in operation has of its user.
LEMMA ClosureTyped ==
    ASSUME WebInv, NEW c \in Calls, call[c].phase # "idle", call[c].ask.op \in Signed
    PROVE  /\ Closure(c) \in Profile /\ Closure(c).id \in Users
           /\ Submitted(c) \in Profile /\ [Closure(c) EXCEPT !.named = TRUE] \in Profile
           /\ [Closure(c) EXCEPT !.named = TRUE].id = Closure(c).id
<1>1. Closure(c) \in Profile
  BY CallTyped DEF FormInv, Closure
<1>. QED  BY <1>1 DEF Submitted, Profile, KycStatus

LEMMA CreateProfileOfflineKeeps ==
    ASSUME WebInv, NEW c \in Calls, CreateProfileOffline(c) PROVE WebInv'
<1>. DEFINE p == [Closure(c) EXCEPT !.named = TRUE]
<1>1. /\ SetItem(c, "profiles", "createProfile")
      /\ profiles' = [item[Of(c)] EXCEPT ![p.id] = p]
      /\ Store(c, p)
      /\ UNCHANGED <<accounts, balances, approvals, transfers, ghosts>>
  BY DEF CreateProfileOffline
<1>2. "profiles" \in Key /\ "createProfile" \in Op \ {"logout"}
  BY DEF Key, Op
<1>3. /\ Busy(c) /\ call[c].phase = "profiles" /\ call[c].ask.op = "createProfile"
      /\ item[Of(c)] \in [Users -> Profile \union {None}]
      /\ \A s \in Tabs : item'[s] = IF s = Of(c) THEN None ELSE item[s]
      /\ DOMAIN item' = Tabs
  BY <1>1, <1>2, ItemHeld, Items
<1>4. p \in Profile /\ p.id \in Users
  BY <1>3, ClosureTyped DEF Signed
<1>. HIDE DEF p
<1>5. (\A r \in Calls : Filed(r) => Filed(r)') /\ (StorageInv' => WebInv')
  BY <1>1, <1>3, <1>4, StoreKeeps
<1>6. profiles' \in [Users -> Profile \union {None}]
  BY <1>1, <1>3, <1>4
<1>7. StorageInv'
  <2>1. AllFiled(approvals)'
    BY <1>1, <1>5 DEF WebInv, StorageInv, AllFiled
  <2>. QED  BY <1>1, <1>6, <2>1 DEF WebInv, StorageInv, Store, OneEach, ghosts
<1>. QED  BY <1>5, <1>7

-----------------------------------------------------------------------------
\* A tab that gets a user, and the session with it.
LEMMA UserKeeps ==
    ASSUME WebInv, NEW c \in Calls, Busy(c), call[c].phase \notin Key,
           NEW profile \in Profile, NEW p \in {"load", "done"},
           NEW t, t = [[tab[Of(c)] EXCEPT !.user = profile] EXCEPT !.loading = p # "done"],
           tab' = [tab EXCEPT ![Of(c)] = t],
           call' = [call EXCEPT ![c].phase = p],
           session' \in Session, UNCHANGED <<storage, item, ghosts>>
    PROVE  WebInv'
<1>1. p \in Phases \ {"idle"} /\ p # "session"
  BY DEF Phases, Task
<1>2. Onward(c, p)
  BY <1>1, GoOnward
<1>3. item[Of(c)] = None /\ item' = item /\ DOMAIN item = Tabs
  BY NothingRead DEF WebInv, ReadInv
<1>4. StorageInv'
  <2>1. \A r \in Calls : Filed(r) => Filed(r)'
    BY <1>1, <1>2, FiledKept DEF Busy
  <2>. QED  BY <2>1, StorageStays
<1>5. /\ tab[Of(c)] \in Tab
      /\ \A r \in Calls : tab[Of(c)].approvals[r] # None => Filed(r)
  BY TabAsItIs
<1>6. /\ t \in Tab /\ t.approvals = tab[Of(c)].approvals /\ (t.loading \/ p = "done")
  BY <1>5 DEF Tab
<1>7. /\ \A s \in Tabs : item'[s] = IF s = Of(c) THEN None ELSE item[s]
      /\ DOMAIN item' = Tabs
  BY <1>3
<1>. QED  BY <1>1, <1>2, <1>4, <1>5, <1>6, <1>7, TurnKeeps

LEMMA BecomeUserKeeps ==
    ASSUME WebInv, NEW c \in Calls, Busy(c), call[c].phase \notin Key,
           NEW profile \in Profile, NEW p \in {"load", "done"},
           BecomeUser(c, profile, p), UNCHANGED item
    PROVE  WebInv'
<1>. DEFINE t == [[tab[Of(c)] EXCEPT !.user = profile] EXCEPT !.loading = p # "done"]
<1>1. /\ tab[Of(c)] \in Tab /\ Of(c) \in Tabs /\ tab \in [Tabs -> Tab]
  BY CallTyped DEF WebInv, TabsInv
<1>2. tab' = [tab EXCEPT ![Of(c)] = t]
  BY <1>1 DEF BecomeUser, Tab
<1>3. /\ call' = [call EXCEPT ![c].phase = p]
      /\ session' = [session EXCEPT !.user = profile]
      /\ UNCHANGED <<storage, item, ghosts>>
  BY DEF BecomeUser
<1>4. session' \in Session
  BY <1>3 DEF WebInv, StorageInv, Session
<1>. HIDE DEF t
<1>5. t = [[tab[Of(c)] EXCEPT !.user = profile] EXCEPT !.loading = p # "done"]
  BY DEF t
<1>. QED  BY <1>2, <1>3, <1>4, <1>5, UserKeeps

LEMMA LiveAnswersKeep ==
    ASSUME WebInv, NEW c \in Calls, CreateProfileLive(c) \/ SubmitKycLive(c) \/ StoreUser(c)
    PROVE  WebInv'
<1>1. CASE CreateProfileLive(c)
  <2>1. PICK live \in LiveProfiles :
            /\ call[c].phase = "asked" /\ call[c].ask.op = "createProfile"
            /\ call[c].token # None
            /\ BecomeUser(c, [id |-> call[c].token, named |-> TRUE, kyc |-> live.kyc], "done")
            /\ UNCHANGED item
    BY <1>1 DEF CreateProfileLive, At
  <2>. DEFINE profile == [id |-> call[c].token, named |-> TRUE, kyc |-> live.kyc]
  <2>2. call[c].token \in Users
    BY <2>1, CallTyped DEF Call
  <2>3. profile \in Profile
    BY <2>2, WebSetsAssumption DEF Profile
  <2>4. Busy(c) /\ call[c].phase \notin Key
    BY <2>1 DEF Busy, Key
  <2>. HIDE DEF profile
  <2>5. BecomeUser(c, profile, "done") /\ UNCHANGED item
    BY <2>1 DEF profile
  <2>. QED  BY <2>3, <2>4, <2>5, BecomeUserKeeps
<1>2. CASE SubmitKycLive(c)
  <2>1. /\ call[c].phase = "asked" /\ call[c].ask.op = "submitKyc"
        /\ BecomeUser(c, Submitted(c), "done") /\ UNCHANGED item
    BY <1>2 DEF SubmitKycLive, At
  <2>2. Busy(c) /\ call[c].phase \notin Key
    BY <2>1 DEF Busy, Key
  <2>3. Submitted(c) \in Profile
    BY <2>1, ClosureTyped DEF Signed
  <2>. QED  BY <2>1, <2>2, <2>3, BecomeUserKeeps
<1>3. CASE StoreUser(c)
  <2>1. PICK p \in {"load", "done"} :
            /\ call[c].phase = "session"
            /\ BecomeUser(c, call[c].profile, p) /\ UNCHANGED item
    BY <1>3 DEF StoreUser, At
  <2>2. Busy(c) /\ call[c].phase \notin Key /\ call[c].profile \in Profile
    BY <2>1, CallTyped DEF Busy, Key, FormInv
  <2>. QED  BY <2>1, <2>2, BecomeUserKeeps
<1>. QED  BY <1>1, <1>2, <1>3

LEMMA SignInKeeps ==
    ASSUME WebInv, NEW c \in Calls, SignIn(c) PROVE WebInv'
<1>. DEFINE p == call[c].profile
            t == [[tab[Of(c)] EXCEPT !.user = p] EXCEPT !.loading = "load" # "done"]
<1>1. /\ call[c].phase = "session"
      /\ session' = [user |-> p, token |-> p.id, cookie |-> TRUE]
      /\ tab' = [tab EXCEPT ![Of(c)].user = p]
      /\ call' = [call EXCEPT ![c].phase = "load"]
      /\ UNCHANGED <<storage, item, ghosts>>
  BY DEF SignIn, At
<1>2. Busy(c) /\ call[c].phase \notin Key /\ p \in Profile
  BY <1>1, CallTyped DEF Busy, Key, FormInv
<1>3. /\ tab[Of(c)] \in Tab /\ tab[Of(c)].loading /\ Of(c) \in Tabs
      /\ tab \in [Tabs -> Tab]
  BY <1>2, CallTyped, TabAsItIs DEF WebInv, TabsInv
<1>4. tab[Of(c)].loading = TRUE
  BY <1>3 DEF Tab
<1>5. [tab[Of(c)] EXCEPT !.user = p] = t
  BY <1>3, <1>4 DEF Tab
<1>6. tab' = [tab EXCEPT ![Of(c)] = [tab[Of(c)] EXCEPT !.user = p]]
  BY <1>1, <1>3
<1>7. session' \in Session
  BY <1>1, <1>2 DEF Session, Profile
<1>. HIDE DEF p
<1>8. t = [[tab[Of(c)] EXCEPT !.user = p] EXCEPT !.loading = "load" # "done"]
  OBVIOUS
<1>. HIDE DEF t
<1>9. tab' = [tab EXCEPT ![Of(c)] = t]
  BY <1>5, <1>6
<1>. QED  BY <1>1, <1>2, <1>7, <1>8, <1>9, UserKeeps

-----------------------------------------------------------------------------
LEMMA SubmitKeeps ==
    ASSUME WebInv, NEW c \in Calls, SubmitProfile(c) \/ SubmitRequest(c) PROVE WebInv'
<1>0. "profiles" \in Key /\ "approvals" \in Key /\ "submitKyc" \in Op \ {"logout"}
  BY DEF Key, Op
<1>1. CASE SubmitProfile(c)
  <2>1. /\ SetItem(c, "profiles", "submitKyc")
        /\ profiles' = [item[Of(c)] EXCEPT ![Closure(c).id] = Submitted(c)]
        /\ GoOn(c, "approvals")
        /\ UNCHANGED <<session, accounts, balances, approvals, transfers, ghosts>>
    BY <1>1 DEF SubmitProfile
  <2>2. /\ call[c].phase = "profiles" /\ call[c].ask.op = "submitKyc"
        /\ item[Of(c)] \in [Users -> Profile \union {None}]
    BY <1>0, <2>1, ItemHeld, Items
  <2>3. Submitted(c) \in Profile /\ Closure(c).id \in Users
    BY <2>2, ClosureTyped DEF Signed
  <2>4. (\A r \in Calls : Filed(r) => Filed(r)') /\ (StorageInv' => WebInv')
    BY <1>0, <2>1, TaskGoes
  <2>5. profiles' \in [Users -> Profile \union {None}]
    BY <2>1, <2>2, <2>3
  <2>6. AllFiled(approvals)'
    BY <2>1, <2>4 DEF WebInv, StorageInv, AllFiled
  <2>7. StorageInv'
    BY <2>1, <2>5, <2>6 DEF WebInv, StorageInv, OneEach, ghosts
  <2>. QED  BY <2>4, <2>7
<1>2. CASE SubmitRequest(c)
  <2>1. /\ SetItem(c, "approvals", "submitKyc")
        /\ approvals' = [item[Of(c)] EXCEPT ![c] = "PENDING"]
        /\ Store(c, Submitted(c))
        /\ UNCHANGED <<profiles, accounts, balances, transfers, ghosts>>
    BY <1>2 DEF SubmitRequest
  <2>2. /\ Busy(c) /\ call[c].phase = "approvals" /\ call[c].ask.op = "submitKyc"
        /\ item[Of(c)] \in [Calls -> Review \union {None}] /\ AllFiled(item[Of(c)])
        /\ \A s \in Tabs : item'[s] = IF s = Of(c) THEN None ELSE item[s]
        /\ DOMAIN item' = Tabs
    BY <1>0, <2>1, ItemHeld, Items
  <2>3. Submitted(c) \in Profile /\ Filed(c)
    BY <2>2, ClosureTyped DEF Signed, Filed, Closure
  <2>4. (\A r \in Calls : Filed(r) => Filed(r)') /\ (StorageInv' => WebInv')
    BY <2>1, <2>2, <2>3, StoreKeeps
  <2>5. approvals' \in [Calls -> Review \union {None}]
    BY <2>1, <2>2 DEF Review
  <2>6. AllFiled(approvals)'
    BY <2>1, <2>2, <2>3, <2>4 DEF AllFiled
  <2>7. StorageInv'
    BY <2>1, <2>5, <2>6 DEF WebInv, StorageInv, Store, OneEach, ghosts
  <2>. QED  BY <2>4, <2>7
<1>. QED  BY <1>1, <1>2

LEMMA LogTransferKeeps ==
    ASSUME WebInv, NEW c \in Calls, LogTransfer(c) PROVE WebInv'
<1>0. "transfers" \in Key /\ "transfer" \in Op \ {"logout"}
  BY DEF Key, Op
<1>1. /\ SetItem(c, "transfers", "transfer")
      /\ transfers' = item[Of(c)] \union {c}
      /\ GoOn(c, "load")
      /\ UNCHANGED <<session, profiles, accounts, balances, approvals, ghosts>>
  BY DEF LogTransfer
<1>2. item[Of(c)] \in SUBSET Calls
  BY <1>0, <1>1, ItemHeld, Items
<1>3. (\A r \in Calls : Filed(r) => Filed(r)') /\ (StorageInv' => WebInv')
  BY <1>0, <1>1, TaskGoes
<1>4. AllFiled(approvals)'
  BY <1>1, <1>3 DEF WebInv, StorageInv, AllFiled
<1>5. StorageInv'
  BY <1>1, <1>2, <1>4 DEF WebInv, StorageInv, OneEach, ghosts
<1>. QED  BY <1>3, <1>5

\* A simulated review knows its request, its verdict and the customer.
LEMMA ReviewKnows ==
    ASSUME WebInv, NEW c \in Calls, call[c].phase # "idle", call[c].ask.op = "review"
    PROVE  /\ call[c].request \in Calls /\ Filed(call[c].request)
           /\ call[c].verdict \in {"APPROVED", "REJECTED"}
           /\ Target(c) \in Users
<1>1. /\ call[c].request \in Calls /\ Filed(call[c].request)
      /\ call[c].verdict \in {"APPROVED", "REJECTED"}
  BY CallTyped DEF FormInv, Call
<1>. QED  BY <1>1 DEF Filed, Target, Profile

LEMMA ReviewRequestKeeps ==
    ASSUME WebInv, NEW c \in Calls, ReviewRequest(c) PROVE WebInv'
<1>0. "approvals" \in Key /\ "review" \in Op \ {"logout"}
  BY DEF Key, Op
<1>. DEFINE new == [item[Of(c)] EXCEPT ![call[c].request] = call[c].verdict]
<1>1. /\ SetItem(c, "approvals", "review")
      /\ \E p \in {"load", "profiles"} : GoOn(c, p)
      /\ UNCHANGED approvals \/ approvals' = new
      /\ UNCHANGED <<session, profiles, accounts, balances, transfers, ghosts>>
  BY DEF ReviewRequest
<1>2. /\ call[c].phase = "approvals" /\ call[c].ask.op = "review"
      /\ item[Of(c)] \in [Calls -> Review \union {None}] /\ AllFiled(item[Of(c)])
  BY <1>0, <1>1, ItemHeld, Items
<1>3. /\ call[c].request \in Calls /\ Filed(call[c].request)
      /\ call[c].verdict \in Review
  BY <1>2, ReviewKnows DEF Review
<1>4. new \in [Calls -> Review \union {None}] /\ AllFiled(new)
  BY <1>2, <1>3 DEF AllFiled
<1>. HIDE DEF new
<1>5. (\A r \in Calls : Filed(r) => Filed(r)') /\ (StorageInv' => WebInv')
  BY <1>0, <1>1, TaskGoes DEF Key
<1>6. approvals' \in [Calls -> Review \union {None}] /\ \A r \in Calls : approvals'[r] # None => Filed(r)
  BY <1>1, <1>4 DEF WebInv, StorageInv, AllFiled
<1>7. AllFiled(approvals)'
  BY <1>5, <1>6 DEF AllFiled
<1>8. StorageInv'
  BY <1>1, <1>6, <1>7 DEF WebInv, StorageInv, OneEach, ghosts
<1>. QED  BY <1>5, <1>8

LEMMA ReviewProfileKeeps ==
    ASSUME WebInv, NEW c \in Calls, ReviewProfile(c) PROVE WebInv'
<1>0. "profiles" \in Key /\ "review" \in Op \ {"logout"}
  BY DEF Key, Op
<1>. DEFINE f == item[Of(c)]
            u == Target(c)
            reviewed == [f[u] EXCEPT !.kyc = call[c].verdict]
<1>1. /\ SetItem(c, "profiles", "review")
      /\ \E p \in {"load", "accounts"} : GoOn(c, p)
      /\ \/ UNCHANGED profiles
         \/ f[u] # None /\ profiles' = [f EXCEPT ![u].kyc = call[c].verdict]
      /\ UNCHANGED <<session, accounts, balances, approvals, transfers, ghosts>>
  BY DEF ReviewProfile
<1>2. /\ call[c].phase = "profiles" /\ call[c].ask.op = "review"
      /\ f \in [Users -> Profile \union {None}]
  BY <1>0, <1>1, ItemHeld, Items
<1>3. u \in Users /\ call[c].verdict \in KycStatus
  BY <1>2, ReviewKnows DEF KycStatus
<1>. HIDE DEF f, u
<1>4. f[u] # None => reviewed \in Profile
  BY <1>2, <1>3 DEF Profile
<1>5. f[u] # None => [f EXCEPT ![u] = reviewed] \in [Users -> Profile \union {None}]
  BY <1>2, <1>4
<1>6. profiles' \in [Users -> Profile \union {None}]
  BY <1>1, <1>5 DEF WebInv, StorageInv
<1>7. (\A r \in Calls : Filed(r) => Filed(r)') /\ (StorageInv' => WebInv')
  BY <1>0, <1>1, TaskGoes DEF Key
<1>8. AllFiled(approvals)'
  BY <1>1, <1>7 DEF WebInv, StorageInv, AllFiled
<1>9. StorageInv'
  BY <1>1, <1>6, <1>8 DEF WebInv, StorageInv, OneEach, ghosts
<1>. QED  BY <1>7, <1>9

\* The list that gets a savings account was read in the same task, and had none.
LEMMA OpenSavingsKeeps ==
    ASSUME WebInv, NEW c \in Calls, OpenSavings(c) PROVE WebInv'
<1>0. "accounts" \in Key /\ "review" \in Op \ {"logout"}
  BY DEF Key, Op
<1>. DEFINE u == Target(c)
            opened == [id |-> c, user |-> u]
            new == item[Of(c)] \union {opened}
<1>1. /\ SetItem(c, "accounts", "review")
      /\ \E p \in {"load", "balances"} : GoOn(c, p)
      /\ \/ UNCHANGED accounts
         \/ ~HasSavings(c) /\ accounts' = new
      /\ UNCHANGED <<session, profiles, balances, approvals, transfers, ghosts>>
  BY DEF OpenSavings
<1>2. /\ call[c].phase = "accounts" /\ call[c].ask.op = "review"
      /\ item[Of(c)] \in SUBSET Account /\ OneEach(item[Of(c)])
  BY <1>0, <1>1, ItemHeld, Items
<1>3. opened \in Account /\ opened.user = u
  BY <1>2, ReviewKnows DEF Account
<1>4. ~HasSavings(c) => \A a \in item[Of(c)] : a.user # u
  BY DEF HasSavings
<1>. HIDE DEF u, opened
<1>5. ~HasSavings(c) => new \in SUBSET Account /\ OneEach(new)
  BY <1>2, <1>3, <1>4 DEF OneEach
<1>. HIDE DEF new
<1>6. accounts' \in SUBSET Account /\ OneEach(accounts')
  BY <1>1, <1>5 DEF WebInv, StorageInv
<1>7. (\A r \in Calls : Filed(r) => Filed(r)') /\ (StorageInv' => WebInv')
  BY <1>0, <1>1, TaskGoes DEF Key
<1>8. AllFiled(approvals)'
  BY <1>1, <1>7 DEF WebInv, StorageInv, AllFiled
<1>9. StorageInv'
  BY <1>1, <1>6, <1>8 DEF WebInv, StorageInv, OneEach, ghosts
<1>. QED  BY <1>7, <1>9

\* A write of the balances: of which calls, and what of the ghosts.
LEMMA BalancesWritten ==
    ASSUME WebInv, NEW c \in Calls, NEW op \in {"transfer", "review"},
           SetItem(c, "balances", op), NEW p \in {"transfers", "load"}, GoOn(c, p),
           NEW new \in [AccountId -> Int], SetBalances(c, new),
           before' \in [Calls -> SUBSET Calls],
           UNCHANGED <<session, profiles, accounts, approvals, transfers>>
    PROVE  WebInv'
<1>1. "balances" \in Key /\ op \in Op \ {"logout"} /\ p \in Key \union {"load"}
  BY DEF Key, Op
<1>2. (\A r \in Calls : Filed(r) => Filed(r)') /\ (StorageInv' => WebInv')
  BY <1>1, TaskGoes
<1>3. AllFiled(approvals)'
  BY <1>2 DEF WebInv, StorageInv, AllFiled
<1>4. balances' = new /\ wrote' \in SUBSET Calls /\ lost' \in BOOLEAN
  BY DEF SetBalances, WebInv, StorageInv
<1>5. StorageInv'
  BY <1>3, <1>4 DEF WebInv, StorageInv, OneEach
<1>. QED  BY <1>2, <1>5

\* What a simulated transfer makes of the balances it read.
Paid(c) == [item[Of(c)] EXCEPT ![call[c].from] = @ - call[c].amount]
Transferred(c) == [Paid(c) EXCEPT ![call[c].to] = @ + call[c].amount]

LEMMA TransferredBalances ==
    ASSUME WebInv, NEW c \in Calls, SetItem(c, "balances", "transfer")
    PROVE  LET f == item[Of(c)]
               k == call[c]
           IN /\ f \in [AccountId -> Int]
              /\ k.from \in AccountId /\ k.to \in AccountId /\ k.from # k.to
              /\ k.amount \in Nat
              /\ Transferred(c) \in [AccountId -> Int]
              /\ \A a \in AccountId : Transferred(c)[a] =
                     IF a = k.from THEN f[a] - k.amount
                     ELSE IF a = k.to THEN f[a] + k.amount ELSE f[a]
<1>. DEFINE f == item[Of(c)]
            k == call[c]
<1>0. "balances" \in Key /\ "transfer" \in Op \ {"logout"}
  BY DEF Key, Op
<1>1. /\ f \in [AccountId -> Int] /\ k.phase = "balances" /\ k.ask.op = "transfer"
  BY <1>0, ItemHeld, Items
<1>2. /\ k.from \in AccountId /\ k.to \in AccountId /\ k.from # k.to /\ k.amount \in Nat
  BY <1>1, CallTyped DEF FormInv, Call, AccountId
<1>3. Paid(c) = [f EXCEPT ![k.from] = f[k.from] - k.amount]
  BY <1>1, <1>2 DEF Paid
<1>4. Transferred(c) = [Paid(c) EXCEPT ![k.to] = Paid(c)[k.to] + k.amount]
  BY DEF Transferred
<1>. HIDE DEF f, k
<1>5. /\ Paid(c) \in [AccountId -> Int]
      /\ \A a \in AccountId : Paid(c)[a] = IF a = k.from THEN f[a] - k.amount ELSE f[a]
  BY <1>1, <1>2, <1>3
<1>6. /\ Transferred(c) \in [AccountId -> Int]
      /\ \A a \in AccountId : Transferred(c)[a] =
             IF a = k.to THEN Paid(c)[a] + k.amount ELSE Paid(c)[a]
  BY <1>2, <1>4, <1>5
<1>7. \A a \in AccountId : Transferred(c)[a] =
          IF a = k.from THEN f[a] - k.amount
          ELSE IF a = k.to THEN f[a] + k.amount ELSE f[a]
  BY <1>2, <1>5, <1>6
<1>. QED  BY <1>1, <1>2, <1>6, <1>7 DEF f, k

LEMMA TransferSteps ==
    ASSUME NEW c \in Calls, TransferOffline(c)
    PROVE  /\ SetItem(c, "balances", "transfer")
           /\ UNCHANGED <<session, profiles, accounts, approvals, transfers>>
           /\ \/ /\ Covered(c) /\ SetBalances(c, Transferred(c)) /\ UNCHANGED before
                 /\ GoOn(c, "transfers")
              \/ Finish(c, tab[Of(c)]) /\ UNCHANGED <<balances, ghosts>>
BY DEF TransferOffline, Transferred, Paid

LEMMA TransferOfflineKeeps ==
    ASSUME WebInv, NEW c \in Calls, TransferOffline(c) PROVE WebInv'
<1>1. /\ SetItem(c, "balances", "transfer")
      /\ UNCHANGED <<session, profiles, accounts, approvals, transfers>>
  BY TransferSteps
<1>2. CASE SetBalances(c, Transferred(c)) /\ UNCHANGED before /\ GoOn(c, "transfers")
  <2>1. Transferred(c) \in [AccountId -> Int] /\ before' \in [Calls -> SUBSET Calls]
    BY <1>1, <1>2, TransferredBalances DEF WebInv, StorageInv
  <2>. QED  BY <1>1, <1>2, <2>1, BalancesWritten
<1>3. CASE Finish(c, tab[Of(c)]) /\ UNCHANGED <<balances, ghosts>>
  <2>0. "balances" \in Key /\ "transfer" \in Op \ {"logout"} /\ "done" \in Phases \ {"idle"}
    BY DEF Key, Op, Phases
  <2>1. /\ Busy(c) /\ DOMAIN item' = Tabs
        /\ \A s \in Tabs : item'[s] = IF s = Of(c) THEN None ELSE item[s]
    BY <1>1, <2>0, ItemHeld
  <2>2. Onward(c, "done")
    BY <1>3, <2>0, GoOnward DEF Finish
  <2>3. StorageInv'
    <3>1. \A r \in Calls : Filed(r) => Filed(r)'
      BY <2>0, <2>1, <2>2, FiledKept DEF Busy
    <3>2. session' \in Session /\ UNCHANGED <<storage, ghosts>>
      BY <1>1, <1>3 DEF WebInv, StorageInv, storage
    <3>. QED  BY <3>1, <3>2, StorageStays
  <2>. DEFINE t == [tab[Of(c)] EXCEPT !.loading = FALSE]
  <2>4. tab[Of(c)] \in Tab /\ \A r \in Calls : tab[Of(c)].approvals[r] # None => Filed(r)
    BY <2>1, TabAsItIs
  <2>5. t \in Tab /\ t.approvals = tab[Of(c)].approvals
    BY <2>4 DEF Tab
  <2>6. tab' = [tab EXCEPT ![Of(c)] = t]
    BY <1>3 DEF Finish
  <2>. HIDE DEF t
  <2>7. \A r \in Calls : t.approvals[r] # None => Filed(r)
    BY <2>4, <2>5
  <2>. QED  BY <2>0, <2>1, <2>2, <2>3, <2>5, <2>6, <2>7, TurnKeeps
<1>. QED  BY <1>2, <1>3, TransferSteps

LEMMA SeedPortfolioKeeps ==
    ASSUME WebInv, NEW c \in Calls, SeedPortfolio(c) PROVE WebInv'
<1>. DEFINE new == [item[Of(c)] EXCEPT ![c] = Portfolio]
<1>0. "balances" \in Key /\ "review" \in Op \ {"logout"}
  BY DEF Key, Op
<1>1. /\ SetItem(c, "balances", "review") /\ SetBalances(c, new)
      /\ before' = [before EXCEPT ![c] = wrote] /\ GoOn(c, "load")
      /\ UNCHANGED <<session, profiles, accounts, approvals, transfers>>
  BY DEF SeedPortfolio
<1>2. item[Of(c)] \in [AccountId -> Int]
  BY <1>0, <1>1, ItemHeld, Items
<1>3. new \in [AccountId -> Int]
  BY <1>2, WebAmountsAssumption DEF AccountId
<1>4. before' \in [Calls -> SUBSET Calls]
  BY <1>1 DEF WebInv, StorageInv
<1>. HIDE DEF new
<1>. QED  BY <1>1, <1>3, <1>4, BalancesWritten

-----------------------------------------------------------------------------
\* The calls, tabs and storage as they are: everything that is said of them.
LEMMA RestStays ==
    ASSUME WebInv, call' = call, tab' = tab, session' \in Session,
           UNCHANGED <<storage, ghosts>>
    PROVE  /\ call' \in [Calls -> Call] /\ (\A c \in Calls : FormInv(c))'
           /\ StorageInv' /\ TabsInv'
           /\ \A r \in Calls : Filed(r)' = Filed(r)
           /\ \A c \in Calls : Of(c)' = Of(c) /\ Busy(c)' = Busy(c)
<1>1. \A r \in Calls : Filed(r)' = Filed(r)
  BY DEF Filed
<1>2. \A c \in Calls : FormInv(c)' = FormInv(c)
  BY <1>1 DEF FormInv
<1>3. StorageInv'
  BY <1>1, StorageStays
<1>4. TabsInv'
  BY <1>1 DEF WebInv, TabsInv, AllFiled
<1>. QED  BY <1>1, <1>2, <1>3, <1>4 DEF WebInv, Of, Busy

LEMMA CookieExpiresKeeps ==
    ASSUME WebInv, CookieExpires PROVE WebInv'
<1>1. /\ session' = [session EXCEPT !.cookie = FALSE]
      /\ UNCHANGED <<storage, ghosts>> /\ tab' = tab /\ call' = call /\ item' = item
  BY DEF CookieExpires
<1>2. session' \in Session
  BY <1>1 DEF WebInv, StorageInv, Session
<1>3. TurnInv'
  BY <1>1, <1>2, RestStays DEF WebInv, TurnInv
<1>4. ReadInv'
  BY <1>1, <1>2, RestStays DEF WebInv, ReadInv, Reading, AllFiled, Item
<1>. QED  BY <1>1, <1>2, <1>3, <1>4, RestStays DEF WebInv

LEMMA GetItemKeeps ==
    ASSUME WebInv, NEW c \in Calls, GetItem(c) PROVE WebInv'
<1>. DEFINE v == Stored[call[c].phase]
            t == Of(c)
<1>1. /\ call[c].phase \in Key /\ item' = [item EXCEPT ![t] = v]
      /\ UNCHANGED <<session, storage, ghosts>> /\ tab' = tab /\ call' = call
  BY DEF GetItem
<1>2. /\ v \in Item(call[c].phase)
      /\ call[c].phase = "accounts" => OneEach(v)
      /\ call[c].phase = "approvals" => AllFiled(v)
  BY <1>1, StorageTyped DEF WebInv
<1>3. session' \in Session
  BY <1>1 DEF WebInv, StorageInv
<1>4. Busy(c) /\ t \in Tabs
  BY <1>1, CallTyped DEF Busy, FormInv, Key
<1>. HIDE DEF v
<1>5. /\ DOMAIN item' = Tabs
      /\ \A s \in Tabs : item'[s] = IF s = t THEN v ELSE item[s]
  BY <1>1, <1>4 DEF WebInv, ReadInv
<1>6. \A d \in Calls : Of(d)' = Of(d) /\ Busy(d)' = Busy(d) /\ Of(d) \in Tabs
  BY <1>1, <1>3, RestStays, CallTyped
<1>7. TurnInv'
  <2>1. ASSUME NEW s \in Tabs, item'[s] # None
        PROVE  \E d \in Calls : Of(d) = s /\ Busy(d) /\ call[d].phase \in Key
    <3>1. CASE s = t
      BY <1>1, <1>4, <3>1
    <3>2. CASE s # t
      BY <1>5, <2>1, <3>2 DEF WebInv, TurnInv
    <3>. QED  BY <3>1, <3>2
  <2>2. \A s \in Tabs : item'[s] # None =>
            \E d \in Calls : Of(d)' = s /\ Busy(d)' /\ call'[d].phase \in Key
    BY <1>1, <1>6, <2>1
  <2>3. /\ \A d \in Calls : Busy(d)' => tab'[Of(d)'].loading
        /\ \A d, e \in Calls : Busy(d)' /\ Busy(e)' /\ Of(d)' = Of(e)' => d = e
    BY <1>1, <1>6 DEF WebInv, TurnInv
  <2>. QED  BY <2>2, <2>3 DEF TurnInv
<1>8. ReadInv'
  <2>1. ASSUME NEW d \in Calls, Reading(d)'
        PROVE  /\ item'[Of(d)] \in Item(call[d].phase)
               /\ call[d].phase = "accounts" => OneEach(item'[Of(d)])
               /\ call[d].phase = "approvals" => AllFiled(item'[Of(d)])
    <3>1. call[d].phase \in Key /\ item'[Of(d)] # None
      BY <1>1, <1>6, <2>1 DEF Reading
    <3>2. CASE Of(d) = t
      <4>1. Busy(d)
        BY <3>1, CallTyped DEF Busy, FormInv, Key
      <4>2. d = c
        BY <1>4, <3>2, <4>1 DEF WebInv, TurnInv
      <4>. QED  BY <1>2, <1>4, <1>5, <4>2
    <3>3. CASE Of(d) # t
      <4>1. item'[Of(d)] = item[Of(d)] /\ Reading(d)
        BY <1>5, <1>6, <3>1, <3>3 DEF Reading
      <4>. QED  BY <4>1 DEF WebInv, ReadInv
    <3>. QED  BY <3>2, <3>3
  <2>2. \A d \in Calls : Item(call[d].phase)' = Item(call[d].phase)
    BY <1>1 DEF Item
  <2>3. \A r \in Calls : Filed(r)' = Filed(r)
    BY <1>1, <1>3, RestStays
  <2>4. ASSUME NEW d \in Calls, Reading(d)'
        PROVE  (/\ item[Of(d)] \in Item(call[d].phase)
                /\ call[d].phase = "accounts" => OneEach(item[Of(d)])
                /\ call[d].phase = "approvals" => AllFiled(item[Of(d)]))'
    BY <1>1, <1>6, <2>1, <2>2, <2>3, <2>4 DEF AllFiled
  <2>. QED  BY <1>5, <2>4 DEF ReadInv
<1>. QED  BY <1>1, <1>3, <1>7, <1>8, RestStays DEF WebInv

-----------------------------------------------------------------------------
\* The items and turns of the calls that the step leaves alone.
LEMMA OthersRead ==
    ASSUME WebInv, \A r \in Calls : Filed(r) => Filed(r)',
           \A d \in Calls : Of(d)' = Of(d), DOMAIN item' = Tabs,
           \A d \in Calls : Reading(d)' =>
               Reading(d) /\ call'[d] = call[d] /\ item'[Of(d)] = item[Of(d)]
    PROVE  ReadInv'
<1>1. ASSUME NEW d \in Calls, Reading(d)'
      PROVE  (/\ item[Of(d)] \in Item(call[d].phase)
              /\ call[d].phase = "accounts" => OneEach(item[Of(d)])
              /\ call[d].phase = "approvals" => AllFiled(item[Of(d)]))'
  <2>1. Reading(d) /\ call'[d] = call[d] /\ item'[Of(d)'] = item[Of(d)]
    BY <1>1
  <2>2. Item(call[d].phase)' = Item(call[d].phase)
    BY <2>1 DEF Item
  <2>3. AllFiled(item[Of(d)]) => AllFiled(item[Of(d)])'
    BY <2>1 DEF AllFiled
  <2>. QED  BY <2>1, <2>2, <2>3 DEF WebInv, ReadInv
<1>. QED  BY <1>1 DEF ReadInv

\* An operation that begins has what its tab and its form gave it.
LEMMA BeginKeeps ==
    ASSUME WebInv, NEW c \in Calls, NEW op, NEW args \in Call, args.ask = call[c].ask,
           Begin(c, op, args),
           op \in Signed => tab[Of(c)].user # None,
           op = "transfer" => /\ args.from \in Calls
                              /\ args.to \in AccountId
                              /\ args.from # args.to,
           op = "review" => /\ args.request \in Calls
                            /\ Filed(args.request)
                            /\ args.verdict # None
    PROVE  WebInv'
<1>. DEFINE t == Of(c)
            form == [[[args EXCEPT !.phase = "asked"] EXCEPT !.user = tab[t].user]
                        EXCEPT !.token = session.token]
            shown == [tab[t] EXCEPT !.loading = op # "logout"]
<1>1. /\ t \in Tabs /\ tab \in [Tabs -> Tab] /\ tab[t] \in Tab
      /\ session \in Session /\ call \in [Calls -> Call]
  BY CallTyped DEF WebInv, TabsInv, StorageInv
<1>2. /\ call[c].phase = "idle" /\ call[c].ask.op = op /\ ~tab[t].loading
      /\ call' = [call EXCEPT ![c] = form]
      /\ tab' = [tab EXCEPT ![t] = shown]
      /\ UNCHANGED <<session, storage, item, ghosts>>
  BY <1>1 DEF Begin, At
<1>3. /\ tab[t].user \in Profile \union {None}
      /\ session.token \in Users \union {None}
  BY <1>1 DEF Tab, Session
<1>4. /\ shown \in Tab /\ shown.approvals = tab[t].approvals
      /\ shown.loading = (op # "logout")
  BY <1>1 DEF Tab
<1>. HIDE DEF t, shown
<1>5. /\ form \in Call /\ form.phase = "asked" /\ form.user = tab[t].user
      /\ form.ask = call[c].ask /\ form.from = args.from /\ form.to = args.to
      /\ form.request = args.request /\ form.verdict = args.verdict
  BY <1>3 DEF Call
<1>. HIDE DEF form
<1>6. /\ call' \in [Calls -> Call] /\ call'[c] = form
      /\ \A d \in Calls \ {c} : call'[d] = call[d]
      /\ \A s \in Tabs : tab'[s] = IF s = t THEN shown ELSE tab[s]
      /\ tab' \in [Tabs -> Tab]
  BY <1>1, <1>2, <1>4, <1>5
<1>7. \A r \in Calls : Filed(r) => r # c /\ Filed(r)'
  BY <1>2, <1>6 DEF Filed
<1>8. \A d \in Calls : Of(d)' = Of(d) /\ Of(d) \in Tabs
  BY <1>5, <1>6, CallTyped DEF Of
<1>9. ASSUME NEW d \in Calls PROVE FormInv(d)'
  <2>1. CASE d = c
    <3>1. op \in Signed => call'[c].user \in Profile
      BY <1>3, <1>5, <1>6 DEF t
    <3>2. op = "review" => /\ call'[c].request \in Calls
                           /\ Filed(call[c].request)'
                           /\ call'[c].verdict # None
      BY <1>5, <1>6, <1>7 DEF Filed
    <3>3. op = "transfer" => /\ call'[c].from \in Calls /\ call'[c].to \in AccountId
                             /\ call'[c].from # call'[c].to
      BY <1>5, <1>6
    <3>4. call'[c].ask.op = op /\ call'[c].phase = "asked"
      BY <1>2, <1>5, <1>6
    <3>. QED  BY <2>1, <3>1, <3>2, <3>3, <3>4 DEF FormInv
  <2>2. CASE d # c
    <3>1. FormInv(d) /\ call'[d] = call[d]
      BY <1>6, <2>2 DEF WebInv
    <3>. QED  BY <1>7, <3>1 DEF FormInv
  <2>. QED  BY <2>1, <2>2
<1>10. StorageInv'
  <2>1. session' \in Session
    BY <1>1, <1>2
  <2>. QED  BY <1>2, <1>7, <2>1, StorageStays
<1>11. TabsInv'
  <2>1. ASSUME NEW s \in Tabs PROVE AllFiled(tab[s].approvals)'
    BY <1>1, <1>4, <1>6, <1>7 DEF WebInv, TabsInv, AllFiled
  <2>. QED  BY <1>6, <2>1 DEF TabsInv
<1>12. \A d \in Calls : d # c => Busy(d)' = Busy(d)
  BY <1>6 DEF Busy
<1>13. ~Busy(c) /\ (Busy(c)' <=> op # "logout")
  BY <1>2, <1>5, <1>6 DEF Busy
<1>14. \A d \in Calls : Busy(d) => Of(d) # t
  BY <1>2 DEF WebInv, TurnInv
<1>15. TurnInv'
  <2>1. ASSUME NEW d \in Calls, Busy(d)' PROVE tab'[Of(d)].loading
    <3>1. CASE d = c
      BY <1>4, <1>6, <1>13, <2>1, <3>1, <1>8 DEF t
    <3>2. CASE d # c
      BY <1>6, <1>8, <1>12, <1>14, <2>1, <3>2 DEF WebInv, TurnInv
    <3>. QED  BY <3>1, <3>2
  <2>2. ASSUME NEW d \in Calls, NEW e \in Calls, Busy(d)', Busy(e)', Of(d) = Of(e)
        PROVE  d = e
    <3>1. CASE d # c /\ e # c
      BY <1>12, <2>2, <3>1 DEF WebInv, TurnInv
    <3>. QED  BY <1>12, <1>14, <2>2, <3>1 DEF t
  <2>3. ASSUME NEW s \in Tabs, item'[s] # None
        PROVE  \E d \in Calls : Of(d) = s /\ Busy(d)' /\ call'[d].phase \in Key
    <3>1. PICK d \in Calls : Of(d) = s /\ Busy(d) /\ call[d].phase \in Key
      BY <1>2, <2>3 DEF WebInv, TurnInv
    <3>2. d # c
      BY <1>13, <3>1
    <3>. QED  BY <1>6, <1>12, <3>1, <3>2
  <2>. QED  BY <1>8, <2>1, <2>2, <2>3 DEF TurnInv
<1>16. ReadInv'
  <2>1. ASSUME NEW d \in Calls, Reading(d)'
        PROVE  Reading(d) /\ call'[d] = call[d] /\ item'[Of(d)] = item[Of(d)]
    <3>1. d # c
      BY <1>5, <1>6, <2>1 DEF Reading, Key
    <3>. QED  BY <1>2, <1>6, <1>8, <2>1, <3>1 DEF Reading
  <2>2. DOMAIN item' = Tabs
    BY <1>2 DEF WebInv, ReadInv
  <2>. QED  BY <1>7, <1>8, <2>1, <2>2, OthersRead
<1>. QED  BY <1>6, <1>9, <1>10, <1>11, <1>15, <1>16 DEF WebInv

\* Beginnings that put nothing in their form.
LEMMA PlainBeginKeeps ==
    ASSUME WebInv, NEW c \in Calls,
           \/ BeginLogin(c) \/ BeginPublic(c) \/ BeginLogout(c)
           \/ BeginCreateProfile(c) \/ BeginSubmitKyc(c)
    PROVE  WebInv'
<1>1. PICK op \in {"login", "register", "verifyEmail", "logout", "createProfile",
                   "submitKyc"} :
          /\ Begin(c, op, call[c])
          /\ op \in Signed => tab[Of(c)].user # None
  BY DEF BeginLogin, BeginPublic, BeginLogout, BeginCreateProfile, BeginSubmitKyc, Signed
<1>. QED  BY <1>1, CallTyped, BeginKeeps

LEMMA BeginTransferKeeps ==
    ASSUME WebInv, NEW c \in Calls, BeginTransfer(c) PROVE WebInv'
<1>1. PICK a \in tab[Of(c)].accounts, to \in Known, amount \in Amounts :
          /\ tab[Of(c)].user # None
          /\ to # a.id
          /\ Begin(c, "transfer", [call[c] EXCEPT !.from = a.id, !.to = to,
                                                  !.amount = amount])
  BY DEF BeginTransfer
<1>. DEFINE form == [call[c] EXCEPT !.from = a.id, !.to = to, !.amount = amount]
<1>2. call[c] \in Call /\ tab[Of(c)] \in Tab /\ accounts \subseteq Account
  BY CallTyped DEF WebInv, StorageInv
<1>3. a.id \in Calls /\ to \in AccountId /\ amount \in Nat
  BY <1>2, WebAmountsAssumption DEF Tab, Account, Known, AccountId
<1>4. /\ form \in Call /\ form.ask = call[c].ask /\ form.from = a.id /\ form.to = to
  BY <1>2, <1>3 DEF Call
<1>. HIDE DEF form
<1>5. Begin(c, "transfer", form)
  BY <1>1 DEF form
<1>. QED  BY <1>1, <1>3, <1>4, <1>5, BeginKeeps

LEMMA BeginReviewKeeps ==
    ASSUME WebInv, NEW c \in Calls, BeginReview(c) PROVE WebInv'
<1>1. PICK request \in Calls, verdict \in {"APPROVED", "REJECTED"} :
          /\ tab[Of(c)].user # None
          /\ tab[Of(c)].approvals[request] = "PENDING"
          /\ Begin(c, "review", [call[c] EXCEPT !.request = request,
                                                !.verdict = verdict])
  BY DEF BeginReview
<1>. DEFINE form == [call[c] EXCEPT !.request = request, !.verdict = verdict]
<1>2. call[c] \in Call
  BY CallTyped
<1>3. /\ form \in Call /\ form.ask = call[c].ask
      /\ form.request = request /\ form.verdict = verdict
  BY <1>2 DEF Call
<1>. HIDE DEF form
<1>4. Filed(request) /\ verdict # None
  <2>1. "PENDING" # None /\ verdict # None
    BY WebSetsAssumption DEF KycStatus
  <2>. QED  BY <1>1, <2>1, CallTyped DEF WebInv, TabsInv, AllFiled
<1>5. Begin(c, "review", form)
  BY <1>1 DEF form
<1>. QED  BY <1>1, <1>3, <1>4, <1>5, BeginKeeps

\* An empty tab shows nothing.
LEMMA BlankShows ==
    ASSUME NEW loading \in BOOLEAN
    PROVE  /\ [Blank EXCEPT !.loading = loading] \in Tab
           /\ [Blank EXCEPT !.loading = loading].loading = loading
           /\ \A r \in Calls : [Blank EXCEPT !.loading = loading].approvals[r] = None
           /\ Blank \in Tab /\ \A r \in Calls : Blank.approvals[r] = None
<1>1. NoBalances \in [AccountId -> Int] /\ NoApprovals \in [Calls -> Review \union {None}]
  BY DEF NoBalances, NoApprovals
<1>2. \A c \in Calls : NoApprovals[c] = None
  BY DEF NoApprovals
<1>. QED  BY <1>1, <1>2 DEF Blank, Tab

LEMMA NobodysSession == SignedOut \in Session
BY DEF SignedOut, Session

\* A logout ends while its tab has no task; other tabs are not asked.
LEMMA ClearAuthDataKeeps ==
    ASSUME WebInv, NEW c \in Calls, ClearAuthData(c) PROVE WebInv'
<1>. DEFINE t == Of(c)
            blank == [Blank EXCEPT !.loading = tab[t].loading]
<1>1. /\ call[c].phase = "asked" /\ call[c].ask.op = "logout"
      /\ call' = [call EXCEPT ![c].phase = "done"]
      /\ session' = SignedOut /\ UNCHANGED <<storage, item, ghosts>>
      /\ tab' = [tab EXCEPT ![t] = blank]
  BY DEF ClearAuthData, At
<1>2. /\ t \in Tabs /\ tab \in [Tabs -> Tab] /\ tab[t] \in Tab /\ tab[t].loading \in BOOLEAN
  BY CallTyped DEF WebInv, TabsInv, Tab
<1>3. Onward(c, "done")
  BY <1>1, GoOnward DEF Phases
<1>4. /\ blank \in Tab /\ blank.loading = tab[t].loading
      /\ \A r \in Calls : blank.approvals[r] = None
  BY <1>2, BlankShows
<1>. HIDE DEF blank, t
<1>5. \A s \in Tabs : tab'[s] = IF s = t THEN blank ELSE tab[s]
  BY <1>1, <1>2
<1>6. \A r \in Calls : Filed(r) => Filed(r)'
  BY <1>1, <1>3, FiledKept
<1>7. \A d \in Calls : /\ Of(d)' = Of(d) /\ Of(d) \in Tabs /\ Busy(d)' = Busy(d)
                       /\ d # c => call'[d] = call[d]
  BY <1>1, <1>3, CallTyped DEF Onward, Of, Busy
<1>8. ~Busy(c)
  BY <1>1 DEF Busy
<1>9. ASSUME NEW d \in Calls PROVE FormInv(d)'
  <2>1. FormInv(d)
    BY DEF WebInv
  <2>2. CASE d = c
    BY <1>1, <1>3, <2>1, <2>2 DEF FormInv, Onward, Signed
  <2>3. CASE d # c
    BY <1>6, <1>7, <2>1, <2>3 DEF FormInv
  <2>. QED  BY <2>2, <2>3
<1>10. StorageInv'
  BY <1>1, <1>6, NobodysSession, StorageStays
<1>11. TabsInv'
  <2>1. tab' \in [Tabs -> Tab]
    BY <1>1, <1>2, <1>4
  <2>2. ASSUME NEW s \in Tabs PROVE AllFiled(tab[s].approvals)'
    BY <1>4, <1>5, <1>6 DEF WebInv, TabsInv, AllFiled
  <2>. QED  BY <2>1, <2>2 DEF TabsInv
<1>12. TurnInv'
  <2>1. ASSUME NEW d \in Calls, Busy(d)' PROVE tab'[Of(d)].loading
    BY <1>4, <1>5, <1>7, <2>1 DEF WebInv, TurnInv
  <2>2. ASSUME NEW s \in Tabs, item'[s] # None
        PROVE  \E d \in Calls : Of(d) = s /\ Busy(d) /\ call'[d].phase \in Key
    <3>1. PICK d \in Calls : Of(d) = s /\ Busy(d) /\ call[d].phase \in Key
      BY <1>1, <2>2 DEF WebInv, TurnInv
    <3>2. d # c
      BY <1>8, <3>1
    <3>. QED  BY <1>7, <3>1, <3>2
  <2>3. \A d, e \in Calls : Busy(d)' /\ Busy(e)' /\ Of(d)' = Of(e)' => d = e
    BY <1>7 DEF WebInv, TurnInv
  <2>. QED  BY <1>7, <2>1, <2>2, <2>3 DEF TurnInv
<1>13. ReadInv'
  <2>1. ASSUME NEW d \in Calls, Reading(d)'
        PROVE  Reading(d) /\ call'[d] = call[d] /\ item'[Of(d)] = item[Of(d)]
    <3>1. d # c
      BY <1>3, <2>1 DEF Reading, Key, Onward
    <3>. QED  BY <1>1, <1>7, <2>1, <3>1 DEF Reading
  <2>2. DOMAIN item' = Tabs
    BY <1>1 DEF WebInv, ReadInv
  <2>. QED  BY <1>6, <1>7, <2>1, <2>2, OthersRead
<1>14. call' \in [Calls -> Call]
  BY <1>3 DEF Onward
<1>. QED  BY <1>9, <1>10, <1>11, <1>12, <1>13, <1>14 DEF WebInv

LEMMA LaunchKeeps ==
    ASSUME WebInv, NEW t \in Tabs, Launch(t) PROVE WebInv'
<1>. DEFINE u == session.user
            loaded == [[Loaded(t, u.id) EXCEPT !.user = u] EXCEPT !.loading = FALSE]
            ends(c) == Of(c) = t /\ call[c].phase # "idle"
<1>1. /\ call' = [c \in Calls |-> IF ends(c) THEN Done(c) ELSE call[c]]
      /\ item' = [item EXCEPT ![t] = None]
      /\ UNCHANGED <<storage, ghosts>>
  BY DEF Launch, At
<1>2. /\ call \in [Calls -> Call] /\ session \in Session /\ tab \in [Tabs -> Tab]
      /\ DOMAIN item = Tabs
  BY DEF WebInv, StorageInv, TabsInv, ReadInv
<1>3. ASSUME NEW c \in Calls
      PROVE  /\ Done(c) \in Call /\ Done(c).phase = "done"
             /\ Done(c).ask = call[c].ask /\ Done(c).user = call[c].user
             /\ Done(c).from = call[c].from /\ Done(c).to = call[c].to
             /\ Done(c).request = call[c].request /\ Done(c).verdict = call[c].verdict
  <2>1. call[c] \in Call
    BY <1>2
  <2>. QED  BY <2>1 DEF Done, Call
<1>4. call' \in [Calls -> Call]
  BY <1>1, <1>2, <1>3
<1>5. \A c \in Calls : call'[c] = IF ends(c) THEN Done(c) ELSE call[c]
  BY <1>1
<1>6. \A r \in Calls : Filed(r) => Filed(r)'
  BY <1>3, <1>5 DEF Filed
<1>7. \A c \in Calls : /\ Of(c)' = Of(c) /\ Of(c) \in Tabs
                       /\ Busy(c)' => Busy(c) /\ Of(c) # t /\ call'[c] = call[c]
                       /\ Busy(c) /\ Of(c) # t => Busy(c)'
                       /\ Of(c) # t => call'[c] = call[c]
  BY <1>3, <1>5, CallTyped DEF Of, Busy
<1>8. ASSUME NEW c \in Calls PROVE FormInv(c)'
  <2>1. FormInv(c)
    BY DEF WebInv
  <2>2. CASE ends(c)
    <3>1. /\ call'[c].phase = "done" /\ call[c].phase # "idle"
          /\ call'[c].ask = call[c].ask /\ call'[c].user = call[c].user
          /\ call'[c].from = call[c].from /\ call'[c].to = call[c].to
          /\ call'[c].request = call[c].request /\ call'[c].verdict = call[c].verdict
      BY <1>3, <1>5, <2>2
    <3>. QED  BY <1>6, <2>1, <3>1 DEF FormInv
  <2>3. CASE ~ends(c)
    <3>1. call'[c] = call[c]
      BY <1>5, <2>3
    <3>. QED  BY <1>6, <2>1, <3>1 DEF FormInv
  <2>. QED  BY <2>2, <2>3
<1>9. \/ u # None /\ session' = session /\ tab' = [tab EXCEPT ![t] = loaded]
      \/ session' = SignedOut /\ tab' = [tab EXCEPT ![t] = Blank]
  <2>1. /\ Loaded(t, u.id) \in Tab
    BY LoadedShows
  <2>. QED  BY <2>1 DEF Launch, Tab
<1>10. session' \in Session
  BY <1>2, <1>9, NobodysSession
<1>11. PICK new \in Tab :
           /\ tab' = [tab EXCEPT ![t] = new]
           /\ \A r \in Calls : new.approvals[r] # None => Filed(r)
  <2>1. CASE u # None /\ tab' = [tab EXCEPT ![t] = loaded]
    <3>1. /\ Loaded(t, u.id) \in Tab
          /\ \A r \in Calls : Loaded(t, u.id).approvals[r] # None => Filed(r)
      BY LoadedShows
    <3>2. u \in Profile
      BY <1>2, <2>1 DEF Session
    <3>3. /\ loaded \in Tab
          /\ \A r \in Calls : loaded.approvals[r] # None => Filed(r)
      BY <3>1, <3>2 DEF Tab
    <3>. HIDE DEF loaded
    <3>. QED  BY <2>1, <3>3
  <2>2. CASE tab' = [tab EXCEPT ![t] = Blank]
    <3>1. FALSE \in BOOLEAN
      OBVIOUS
    <3>. QED  BY <2>2, <3>1, BlankShows
  <2>. HIDE DEF loaded
  <2>. QED  BY <1>9, <2>1, <2>2
<1>. HIDE DEF loaded, ends
<1>12. \A s \in Tabs : tab'[s] = IF s = t THEN new ELSE tab[s]
  BY <1>2, <1>11
<1>13. TabsInv'
  <2>1. tab' \in [Tabs -> Tab]
    BY <1>2, <1>11
  <2>2. ASSUME NEW s \in Tabs PROVE AllFiled(tab[s].approvals)'
    BY <1>6, <1>11, <1>12 DEF WebInv, TabsInv, AllFiled
  <2>. QED  BY <2>1, <2>2 DEF TabsInv
<1>14. StorageInv'
  BY <1>1, <1>6, <1>10, StorageStays
<1>15. DOMAIN item' = Tabs /\ \A s \in Tabs : item'[s] = IF s = t THEN None ELSE item[s]
  BY <1>1, <1>2
<1>16. TurnInv'
  <2>1. ASSUME NEW d \in Calls, Busy(d)' PROVE tab'[Of(d)].loading
    BY <1>7, <1>12, <2>1 DEF WebInv, TurnInv
  <2>2. ASSUME NEW s \in Tabs, item'[s] # None
        PROVE  \E d \in Calls : Of(d) = s /\ Busy(d)' /\ call'[d].phase \in Key
    <3>1. s # t /\ item[s] # None
      BY <1>15, <2>2
    <3>2. PICK d \in Calls : Of(d) = s /\ Busy(d) /\ call[d].phase \in Key
      BY <3>1 DEF WebInv, TurnInv
    <3>. QED  BY <1>7, <3>1, <3>2
  <2>3. \A d, e \in Calls : Busy(d)' /\ Busy(e)' /\ Of(d)' = Of(e)' => d = e
    BY <1>7 DEF WebInv, TurnInv
  <2>. QED  BY <1>7, <2>1, <2>2, <2>3 DEF TurnInv
<1>17. ReadInv'
  <2>1. ASSUME NEW d \in Calls, Reading(d)'
        PROVE  Reading(d) /\ call'[d] = call[d] /\ item'[Of(d)] = item[Of(d)]
    <3>1. Of(d) # t
      BY <1>7, <1>15, <2>1 DEF Reading
    <3>. QED  BY <1>7, <1>15, <2>1, <3>1 DEF Reading
  <2>. QED  BY <1>6, <1>7, <1>15, <2>1, OthersRead
<1>. QED  BY <1>4, <1>8, <1>13, <1>14, <1>16, <1>17 DEF WebInv

-----------------------------------------------------------------------------
LEMMA WebInvInit == WebInit => WebInv
<1>. SUFFICES ASSUME WebInit PROVE WebInv
  OBVIOUS
<1>1. PICK s \in Scripts : call = [c \in Calls |-> Fresh(s[c])]
  BY DEF WebInit
<1>2. \A c \in Calls : s[c] \in Ask
  BY WebSetsAssumption
<1>3. \A c \in Calls : Fresh(s[c]) \in Call /\ Fresh(s[c]).phase = "idle"
  BY <1>2 DEF Fresh, Call
<1>4. call \in [Calls -> Call] /\ \A c \in Calls : call[c].phase = "idle"
  BY <1>1, <1>3
<1>5. /\ NoBalances \in [AccountId -> Int]
      /\ NoApprovals \in [Calls -> Review \union {None}]
      /\ \A c \in Calls : NoApprovals[c] = None
  BY DEF NoBalances, NoApprovals
<1>6. Blank \in Tab /\ \A r \in Calls : Blank.approvals[r] = None
  <2>1. FALSE \in BOOLEAN
    OBVIOUS
  <2>. QED  BY <2>1, BlankShows
<1>7. \A c \in Calls : FormInv(c)
  BY <1>4 DEF FormInv
<1>8. TurnInv
  BY <1>4 DEF WebInit, TurnInv, Busy
<1>9. StorageInv
  BY <1>5, NobodysSession DEF WebInit, StorageInv, AllFiled, OneEach
<1>10. TabsInv
  BY <1>6 DEF WebInit, TabsInv, AllFiled
<1>11. ReadInv
  BY <1>4 DEF WebInit, ReadInv, Reading, Key
<1>. QED  BY <1>4, <1>7, <1>8, <1>9, <1>10, <1>11 DEF WebInv

LEMMA WebInvNext == WebInv /\ [WebNext]_webVars => WebInv'
<1>. SUFFICES ASSUME WebInv, [WebNext]_webVars PROVE WebInv'
  OBVIOUS
<1>1. CASE \E t \in Tabs : Launch(t)
  BY <1>1, LaunchKeeps
<1>2. CASE CookieExpires
  BY <1>2, CookieExpiresKeeps
<1>3. ASSUME NEW c \in Calls, Operate(c) PROVE WebInv'
  BY <1>3, PlainBeginKeeps, BeginTransferKeeps, BeginReviewKeeps, RequestsFallBack,
     LoginLiveKeeps, LoginProfileKeeps, SignInKeeps, AnsweredKeeps, ClearAuthDataKeeps,
     GetItemKeeps, LoadKeeps, LiveAnswersKeep, CreateProfileOfflineKeeps, SubmitKeeps,
     TransferOfflineKeeps, LogTransferKeeps, ReviewRequestKeeps, ReviewProfileKeeps,
     OpenSavingsKeeps, SeedPortfolioKeeps DEF Operate
<1>4. CASE UNCHANGED webVars
  <2>1. /\ session' = session /\ UNCHANGED <<storage, ghosts>> /\ tab' = tab
        /\ call' = call /\ item' = item
    BY <1>4 DEF webVars
  <2>2. session' \in Session
    BY <2>1 DEF WebInv, StorageInv
  <2>3. TurnInv'
    BY <2>1, <2>2, RestStays DEF WebInv, TurnInv
  <2>4. ReadInv'
    BY <2>1, <2>2, RestStays DEF WebInv, ReadInv, Reading, AllFiled, Item
  <2>. QED  BY <2>1, <2>2, <2>3, <2>4, RestStays DEF WebInv
<1>. QED  BY <1>1, <1>2, <1>3, <1>4 DEF WebNext

\* Storage, the tabs and the calls under way are well typed and agree: a call
\* has the user, the accounts and the request its operation needs.
THEOREM WebTypeCorrect == WebSpec => []WebTypeOK
<1>. QED  BY WebInvTypes, WebInvInit, WebInvNext, PTL DEF WebSpec

\* For any users, tabs and calls: though every tab reads and writes the list on
\* its own, it has one account of a customer, for the list that a review writes
\* back is the one it looked through (AuthProvider.tsx:512-524).
THEOREM OneAccount == WebSpec => []OneAccountEach
<1>1. WebInv => OneAccountEach
  BY DEF WebInv, StorageInv, OneEach, OneAccountEach
<1>. QED  BY <1>1, WebInvInit, WebInvNext, PTL DEF WebSpec

-----------------------------------------------------------------------------
(* Money in the browser. *)

EffectOn(a) == [c \in Calls |-> Effect(c, a)]

\* f is what the calls of kept lead to
LedTo(f, kept) ==
    \A a \in AccountId : f[a] = SumFunctionOnSet(EffectOn(a), Since(a, kept))

Explained(f) ==
    /\ \A a \in AccountId : f[a] >= 0
    /\ \E kept \in SUBSET wrote : LedTo(f, kept)

MoneyInv ==
    /\ \A c \in wrote : call[c].phase \in {"transfers", "load", "done"}
    /\ \A c \in Calls : before[c] \subseteq wrote /\ (c \notin wrote => before[c] = {})
    /\ Explained(balances)
    /\ ~lost => LedTo(balances, wrote)
    /\ \A c \in Calls : call[c].phase = "balances" /\ item[Of(c)] # None =>
           Explained(item[Of(c)])

\* What a call did is a number of rupees.
LEMMA EffectsAreInts ==
    ASSUME WebInv, NEW c \in Calls, NEW a
    PROVE  Effect(c, a) \in Int /\ EffectOn(a)[c] = Effect(c, a)
<1>1. call[c].amount \in Int /\ Portfolio \in Int
  BY CallTyped, WebAmountsAssumption DEF Call
<1>. QED  BY <1>1 DEF Effect, EffectOn

\* A call that has begun keeps its form; one that wrote stays behind its write.
FormKept(c) ==
    /\ call'[c].ask = call[c].ask /\ call'[c].from = call[c].from
    /\ call'[c].to = call[c].to /\ call'[c].amount = call[c].amount

LEMMA EffectKept ==
    ASSUME NEW c \in Calls, FormKept(c), NEW a
    PROVE  Effect(c, a)' = Effect(c, a)
BY DEF FormKept, Effect

\* What explained some balances still does, while calls keep their forms.
LEMMA LedToKept ==
    ASSUME WebInv, WebInv', IsFiniteSet(Calls),
           \A c \in wrote : FormKept(c) /\ before'[c] = before[c],
           NEW f, NEW kept \in SUBSET wrote, LedTo(f, kept)
    PROVE  \A a \in AccountId :
               /\ Since(a, kept)' = Since(a, kept)
               /\ f[a] = SumFunctionOnSet(EffectOn(a)', Since(a, kept))
<1>. SUFFICES ASSUME NEW a \in AccountId
              PROVE  /\ Since(a, kept)' = Since(a, kept)
                     /\ f[a] = SumFunctionOnSet(EffectOn(a)', Since(a, kept))
  OBVIOUS
<1>1. Since(a, kept)' = Since(a, kept) /\ Since(a, kept) \subseteq wrote
  BY DEF Since
<1>2. wrote \subseteq Calls /\ IsFiniteSet(Since(a, kept))
  BY <1>1, FS_Subset DEF WebInv, StorageInv
<1>3. \A c \in Since(a, kept) : EffectOn(a)[c] = EffectOn(a)'[c]
  BY <1>1, <1>2, EffectKept DEF EffectOn
<1>4. SumFunctionOnSet(EffectOn(a), Since(a, kept))
          = SumFunctionOnSet(EffectOn(a)', Since(a, kept))
  BY <1>2, <1>3, SumSame
<1>. QED  BY <1>1, <1>4 DEF LedTo

LEMMA ExplainedKept ==
    ASSUME WebInv, WebInv', IsFiniteSet(Calls), wrote \subseteq wrote',
           \A c \in wrote : FormKept(c) /\ before'[c] = before[c],
           NEW f, NEW g, f = g', Explained(f)
    PROVE  Explained(g)'
<1>1. PICK kept \in SUBSET wrote : LedTo(f, kept)
  BY DEF Explained
<1>2. \A a \in AccountId : f[a] = SumFunctionOnSet(EffectOn(a)', Since(a, kept)')
  BY <1>1, LedToKept
<1>. QED  BY <1>1, <1>2 DEF Explained, LedTo

\* Behind its write a call only loads, and is done.
Behind == {"transfers", "load", "done"}

\* What a step of call c is to the calls, the items and the money.
MoneyStep(c) ==
    /\ \A d \in Calls \ {c} : call'[d] = call[d]
    /\ call[c].phase # "idle" => FormKept(c)
    /\ call[c].ask = call'[c].ask
    /\ call[c].phase \in Behind => call'[c].phase \in Behind
    /\ \/ item' = item /\ call[c].phase \notin Key /\ (call'[c].phase = "balances" => Busy(c))
       \/ item' = [item EXCEPT ![Of(c)] = None]
       \/ GetItem(c)

LEMMA GoForm ==
    ASSUME WebInv, NEW c \in Calls, NEW p, call' = [call EXCEPT ![c].phase = p]
    PROVE  FormKept(c) /\ call'[c].phase = p /\ \A d \in Calls \ {c} : call'[d] = call[d]
<1>1. call \in [Calls -> Call] /\ call[c] \in Call
  BY DEF WebInv
<1>2. \A d \in Calls : call'[d] = IF d = c THEN [call[c] EXCEPT !.phase = p] ELSE call[d]
  BY <1>1
<1>. QED  BY <1>1, <1>2 DEF Call, FormKept

LEMMA StoreForm ==
    ASSUME WebInv, NEW c \in Calls, NEW profile, Store(c, profile)
    PROVE  FormKept(c) /\ call'[c].phase = "session" /\ \A d \in Calls \ {c} : call'[d] = call[d]
<1>. DEFINE new == [[call[c] EXCEPT !.phase = "session"] EXCEPT !.profile = profile]
<1>1. call \in [Calls -> Call] /\ call[c] \in Call
  BY DEF WebInv
<1>2. call' = [call EXCEPT ![c] = new]
  BY <1>1 DEF Store, Call
<1>3. /\ new.phase = "session" /\ new.ask = call[c].ask
      /\ new.from = call[c].from /\ new.to = call[c].to /\ new.amount = call[c].amount
  BY <1>1 DEF Call
<1>. HIDE DEF new
<1>4. \A d \in Calls : call'[d] = IF d = c THEN new ELSE call[d]
  BY <1>1, <1>2
<1>. QED  BY <1>3, <1>4 DEF FormKept

LEMMA BeginMoney ==
    ASSUME WebInv, NEW c \in Calls,
           \/ BeginLogin(c) \/ BeginPublic(c) \/ BeginLogout(c)
           \/ BeginCreateProfile(c) \/ BeginSubmitKyc(c)
           \/ BeginTransfer(c) \/ BeginReview(c)
    PROVE  MoneyStep(c) /\ UNCHANGED <<balances, ghosts>>
<1>1. call[c] \in Call /\ call \in [Calls -> Call]
  BY CallTyped DEF WebInv
<1>2. PICK op, args : /\ Begin(c, op, args) /\ args.ask = call[c].ask
                      /\ DOMAIN args = DOMAIN call[c]
  <2>1. CASE BeginTransfer(c)
    <3>1. PICK a, to, amount :
              Begin(c, "transfer", [call[c] EXCEPT !.from = a, !.to = to, !.amount = amount])
      BY <2>1 DEF BeginTransfer
    <3>2. [call[c] EXCEPT !.from = a, !.to = to, !.amount = amount].ask = call[c].ask
      BY <1>1 DEF Call
    <3>3. DOMAIN [call[c] EXCEPT !.from = a, !.to = to, !.amount = amount] = DOMAIN call[c]
      OBVIOUS
    <3>. QED  BY <3>1, <3>2, <3>3
  <2>2. CASE BeginReview(c)
    <3>1. PICK request, verdict :
              Begin(c, "review", [call[c] EXCEPT !.request = request, !.verdict = verdict])
      BY <2>2 DEF BeginReview
    <3>2. [call[c] EXCEPT !.request = request, !.verdict = verdict].ask = call[c].ask
      BY <1>1 DEF Call
    <3>3. DOMAIN [call[c] EXCEPT !.request = request, !.verdict = verdict] = DOMAIN call[c]
      OBVIOUS
    <3>. QED  BY <3>1, <3>2, <3>3
  <2>3. CASE \/ BeginLogin(c) \/ BeginPublic(c) \/ BeginLogout(c)
             \/ BeginCreateProfile(c) \/ BeginSubmitKyc(c)
    BY <2>3 DEF BeginLogin, BeginPublic, BeginLogout, BeginCreateProfile, BeginSubmitKyc
  <2>. QED  BY <2>1, <2>2, <2>3
<1>. DEFINE form == [[[args EXCEPT !.phase = "asked"] EXCEPT !.user = tab[Of(c)].user]
                        EXCEPT !.token = session.token]
<1>3. /\ call[c].phase = "idle" /\ call' = [call EXCEPT ![c] = form]
      /\ UNCHANGED <<session, storage, item, ghosts>>
  BY <1>2 DEF Begin, At
<1>4. form.phase = "asked" /\ form.ask = call[c].ask
  BY <1>1, <1>2 DEF Call
<1>. HIDE DEF form
<1>5. \A d \in Calls : call'[d] = IF d = c THEN form ELSE call[d]
  BY <1>1, <1>3
<1>. QED  BY <1>3, <1>4, <1>5 DEF MoneyStep, Behind, Key, storage

LEMMA RequestMoney ==
    ASSUME WebInv, NEW c \in Calls,
           \/ LoginAccepted(c) \/ LoginFallBack(c) \/ FallBack(c) \/ LoginLive(c)
           \/ SignIn(c) \/ Answered(c) \/ ClearAuthData(c) \/ Load(c)
           \/ CreateProfileLive(c) \/ SubmitKycLive(c) \/ StoreUser(c)
    PROVE  MoneyStep(c) /\ UNCHANGED <<balances, ghosts>>
<1>1. /\ item' = item /\ UNCHANGED <<balances, ghosts>>
      /\ call[c].phase \in {"asked", "profile", "session", "load"}
  BY DEF LoginAccepted, LoginFallBack, FallBack, LoginLive, SignIn, Answered,
         ClearAuthData, Load, CreateProfileLive, SubmitKycLive, StoreUser, BecomeUser,
         At, storage
<1>2. CASE LoginLive(c)
  <2>1. PICK profile : Store(c, profile)
    BY <1>2 DEF LoginLive
  <2>2. call[c].phase = "profile"
    BY <1>2 DEF LoginLive, At
  <2>. QED  BY <1>1, <2>1, <2>2, StoreForm DEF MoneyStep, FormKept, Behind, Key
<1>3. CASE FallBack(c)
  <2>1. PICK p : GoOn(c, p)
    BY <1>3 DEF FallBack
  <2>2. call[c].phase = "asked" /\ Busy(c)
    BY <1>3 DEF FallBack, FirstKey, At, Busy
  <2>. QED  BY <1>1, <2>1, <2>2, GoForm DEF GoOn, MoneyStep, FormKept, Behind, Key
<1>4. CASE \/ LoginAccepted(c) \/ LoginFallBack(c) \/ SignIn(c) \/ Answered(c)
           \/ ClearAuthData(c) \/ Load(c) \/ CreateProfileLive(c) \/ SubmitKycLive(c)
           \/ StoreUser(c)
  <2>1. PICK p \in {"profile", "profiles", "load", "done"} :
            /\ call' = [call EXCEPT ![c].phase = p]
            /\ call[c].phase = "load" => p = "done"
    BY <1>4 DEF LoginAccepted, LoginFallBack, SignIn, Answered, ClearAuthData, Load,
         CreateProfileLive, SubmitKycLive, StoreUser, BecomeUser, GoOn, Finish, At
  <2>2. FormKept(c) /\ call'[c].phase = p /\ \A d \in Calls \ {c} : call'[d] = call[d]
    BY <2>1, GoForm
  <2>. QED  BY <1>1, <2>1, <2>2 DEF MoneyStep, FormKept, Behind, Key
<1>. QED  BY <1>2, <1>3, <1>4

LEMMA TaskMoney ==
    ASSUME WebInv, NEW c \in Calls,
           \/ LoginProfile(c) \/ CreateProfileOffline(c) \/ SubmitProfile(c)
           \/ SubmitRequest(c) \/ TransferOffline(c) \/ LogTransfer(c)
           \/ ReviewRequest(c) \/ ReviewProfile(c) \/ OpenSavings(c) \/ SeedPortfolio(c)
    PROVE  /\ MoneyStep(c)
           /\ UNCHANGED <<balances, ghosts>> \/ TransferOffline(c) \/ SeedPortfolio(c)
<1>1. /\ item' = [item EXCEPT ![Of(c)] = None]
      /\ call[c].phase \in Key
      /\ call[c].phase = "transfers" => LogTransfer(c)
      /\ UNCHANGED <<balances, ghosts>> \/ TransferOffline(c) \/ SeedPortfolio(c)
  BY DEF LoginProfile, CreateProfileOffline, SubmitProfile, SubmitRequest,
         TransferOffline, LogTransfer, ReviewRequest, ReviewProfile, OpenSavings,
         SeedPortfolio, SetItem, At, Key
<1>2. CASE LoginProfile(c) \/ CreateProfileOffline(c) \/ SubmitRequest(c)
  <2>1. PICK profile : Store(c, profile)
    BY <1>2 DEF LoginProfile, CreateProfileOffline, SubmitRequest
  <2>2. call[c].phase \in {"profiles", "approvals"}
    BY <1>2 DEF LoginProfile, CreateProfileOffline, SubmitRequest, SetItem, At
  <2>. QED  BY <1>1, <2>1, <2>2, StoreForm DEF MoneyStep, FormKept, Behind
<1>3. CASE \/ SubmitProfile(c) \/ TransferOffline(c) \/ LogTransfer(c)
           \/ ReviewRequest(c) \/ ReviewProfile(c) \/ OpenSavings(c) \/ SeedPortfolio(c)
  <2>1. PICK p : /\ call' = [call EXCEPT ![c].phase = p]
                 /\ LogTransfer(c) => p = "load"
    BY <1>1, <1>3 DEF SubmitProfile, TransferOffline, LogTransfer, ReviewRequest,
         ReviewProfile, OpenSavings, SeedPortfolio, GoOn, Finish, SetItem, At
  <2>2. FormKept(c) /\ call'[c].phase = p /\ \A d \in Calls \ {c} : call'[d] = call[d]
    BY <2>1, GoForm
  <2>. QED  BY <1>1, <2>1, <2>2 DEF MoneyStep, FormKept, Behind, Key
<1>. QED  BY <1>1, <1>2, <1>3

LEMMA OperateMoney ==
    ASSUME WebInv, NEW c \in Calls, Operate(c)
    PROVE  /\ MoneyStep(c)
           /\ UNCHANGED <<balances, ghosts>> \/ TransferOffline(c) \/ SeedPortfolio(c)
<1>1. CASE GetItem(c)
  BY <1>1 DEF GetItem, MoneyStep, FormKept, storage
<1>. QED  BY <1>1, BeginMoney, RequestMoney, TaskMoney DEF Operate

\* The forms of the calls that wrote, when call c takes a step.
LEMMA WritersKept ==
    ASSUME WebInv, MoneyInv, NEW c \in Calls, MoneyStep(c)
    PROVE  /\ \A d \in wrote : FormKept(d) /\ call'[d].phase \in Behind
           /\ \A d \in Calls : Of(d)' = Of(d) /\ Of(d) \in Tabs
           /\ wrote \subseteq Calls
<1>1. wrote \subseteq Calls /\ \A d \in wrote : call[d].phase \in Behind
  BY DEF WebInv, StorageInv, MoneyInv, Behind
<1>2. \A d \in wrote : FormKept(d) /\ call'[d].phase \in Behind
  BY <1>1 DEF MoneyStep, FormKept, Behind
<1>. QED  BY <1>1, <1>2, CallTyped DEF MoneyStep, Of

\* What is read after the step was read before it, or is the balances.
LEMMA BalancesRead ==
    ASSUME WebInv, NEW c \in Calls, MoneyStep(c),
           NEW d \in Calls, Of(d)' = Of(d), Of(c) \in Tabs, Of(d) \in Tabs,
           call'[d].phase = "balances", item'[Of(d)] # None
    PROVE  \/ /\ call[d].phase = "balances" /\ item[Of(d)] # None
              /\ item'[Of(d)] = item[Of(d)]
           \/ item'[Of(d)] = balances
<1>0. DOMAIN item = Tabs /\ "balances" \in Key
  BY DEF WebInv, ReadInv, Key
<1>1. CASE item' = item /\ call[c].phase \notin Key /\ (call'[c].phase = "balances" => Busy(c))
  <2>1. d # c
    BY <1>1, NothingRead
  <2>. QED  BY <1>1, <2>1 DEF MoneyStep
<1>2. CASE item' = [item EXCEPT ![Of(c)] = None]
  <2>1. Of(d) # Of(c)
    BY <1>0, <1>2
  <2>. QED  BY <1>0, <1>2, <2>1 DEF MoneyStep
<1>3. CASE GetItem(c)
  <2>1. /\ call' = call /\ item' = [item EXCEPT ![Of(c)] = Stored[call[c].phase]]
        /\ call[c].phase \in Key
    BY <1>3 DEF GetItem
  <2>2. CASE Of(d) = Of(c)
    <3>1. Busy(c) /\ Busy(d)
      BY <1>0, <2>1, CallTyped DEF Busy, FormInv, Key
    <3>2. d = c
      BY <2>2, <3>1 DEF WebInv, TurnInv
    <3>. QED  BY <1>0, <2>1, <3>2, StoredItems
  <2>3. CASE Of(d) # Of(c)
    BY <1>0, <2>1, <2>3
  <2>. QED  BY <2>2, <2>3
<1>. QED  BY <1>1, <1>2, <1>3 DEF MoneyStep

\* A step that writes no balances.
LEMMA QuietMoney ==
    ASSUME WebInv, WebInv', MoneyInv, IsFiniteSet(Calls), UNCHANGED <<balances, ghosts>>,
           \A d \in wrote : FormKept(d) /\ call'[d].phase \in Behind,
           \A d \in Calls : Of(d)' = Of(d),
           \A d \in Calls : call'[d].phase = "balances" /\ item'[Of(d)] # None =>
               \/ /\ call[d].phase = "balances" /\ item[Of(d)] # None
                  /\ item'[Of(d)] = item[Of(d)]
               \/ item'[Of(d)] = balances
    PROVE  MoneyInv'
<1>1. /\ wrote' = wrote /\ before' = before /\ lost' = lost /\ balances' = balances
  BY DEF ghosts
<1>2. Explained(balances)'
  BY <1>1, ExplainedKept DEF MoneyInv
<1>3. ~lost' => LedTo(balances, wrote)'
  <2>. SUFFICES ASSUME ~lost' PROVE LedTo(balances, wrote)'
    OBVIOUS
  <2>1. PICK k \in SUBSET wrote : k = wrote
    OBVIOUS
  <2>2. PICK f : f = balances
    OBVIOUS
  <2>3. LedTo(f, k)
    BY <1>1, <2>1, <2>2 DEF MoneyInv
  <2>4. \A a \in AccountId : f[a] = SumFunctionOnSet(EffectOn(a)', Since(a, k)')
    BY <1>1, <2>3, LedToKept
  <2>5. \A a \in AccountId : Since(a, k)' = Since(a, wrote)'
    BY <1>1, <2>1 DEF Since
  <2>. QED  BY <1>1, <2>2, <2>4, <2>5 DEF LedTo
<1>4. ASSUME NEW d \in Calls, call'[d].phase = "balances", item'[Of(d)] # None
      PROVE  Explained(item[Of(d)])'
  <2>1. \/ /\ call[d].phase = "balances" /\ item[Of(d)] # None
           /\ item'[Of(d)] = item[Of(d)]
        \/ item'[Of(d)] = balances
    BY <1>4
  <2>2. CASE item'[Of(d)] = balances
    <3>1. item'[Of(d)'] = balances'
      BY <1>1, <2>2
    <3>. QED  BY <1>2, <3>1 DEF Explained, LedTo
  <2>3. CASE /\ call[d].phase = "balances" /\ item[Of(d)] # None
             /\ item'[Of(d)] = item[Of(d)]
    <3>1. PICK f : f = item[Of(d)]
      OBVIOUS
    <3>2. Explained(f) /\ f = item'[Of(d)']
      BY <2>3, <3>1 DEF MoneyInv
    <3>. QED  BY <1>1, <3>2, ExplainedKept
  <2>. QED  BY <2>1, <2>2, <2>3
<1>. QED  BY <1>1, <1>2, <1>3, <1>4 DEF MoneyInv, Behind

\* A step that writes the balances that its task read, as its call changes them.
Writes(c, new) ==
    /\ MoneyStep(c)
    /\ call[c].phase = "balances" /\ call'[c].phase \in Behind
    /\ item[Of(c)] # None /\ item[Of(c)] \in [AccountId -> Int]
    /\ item' = [item EXCEPT ![Of(c)] = None]
    /\ SetBalances(c, new) /\ \A a \in AccountId : new[a] >= 0
    /\ \A d \in Calls \ {c} : before'[d] = before[d]
    /\ before'[c] \in {{}, wrote}
    /\ \A a \in AccountId :
           IF a = c /\ before'[c] # {}
           THEN new[a] = Effect(c, a)
           ELSE new[a] = item[Of(c)][a] + Effect(c, a)

LEMMA WriteMoney ==
    ASSUME WebInv, WebInv', MoneyInv, IsFiniteSet(Calls), NEW c \in Calls,
           NEW new, Writes(c, new)
    PROVE  MoneyInv'
<1>1. /\ \A d \in wrote : FormKept(d) /\ call'[d].phase \in Behind
      /\ \A d \in Calls : Of(d)' = Of(d) /\ Of(d) \in Tabs
      /\ wrote \subseteq Calls
  BY WritersKept DEF Writes
<1>2. c \notin wrote /\ FormKept(c)
  BY DEF Writes, MoneyInv, MoneyStep
<1>3. /\ balances' = new /\ wrote' = wrote \union {c}
      /\ lost' = (lost \/ item[Of(c)] # balances)
  BY DEF Writes, SetBalances
<1>4. \A d \in wrote : before'[d] = before[d]
  BY <1>1, <1>2 DEF Writes
<1>5. ASSUME NEW f \in [AccountId -> Int], f = item[Of(c)],
             NEW kept \in SUBSET wrote, LedTo(f, kept)
      PROVE  LedTo(balances, kept \union {c})'
  <2>1. ASSUME NEW a \in AccountId
        PROVE  new[a] = SumFunctionOnSet(EffectOn(a)', Since(a, kept \union {c})')
    <3>0. IF a = c /\ before'[c] # {}
          THEN before'[c] = wrote /\ new[a] = Effect(c, a)
          ELSE new[a] = f[a] + Effect(c, a)
      BY <1>5 DEF Writes
    <3>1. Effect(c, a)' = Effect(c, a) /\ Effect(c, a) \in Int
      BY <1>2, EffectKept, EffectsAreInts
    <3>2. \A d \in Calls : EffectOn(a)'[d] \in Int
      <4>1. \A d \in Calls : EffectOn(a)'[d] = Effect(d, a)'
        BY DEF EffectOn
      <4>2. \A d \in Calls : call'[d].amount \in Int
        BY DEF WebInv, Call
      <4>3. \A d \in Calls : Effect(d, a)' \in Int
        BY <4>2, WebAmountsAssumption DEF Effect
      <4>. QED  BY <4>1, <4>3
    <3>3. EffectOn(a)'[c] = Effect(c, a) /\ IsFiniteSet({})
      BY <3>1, FS_EmptySet DEF EffectOn
    <3>4. wrote \subseteq Calls
      BY DEF WebInv, StorageInv
    <3>5. CASE a = c /\ before'[c] # {}
      <4>1. Since(a, kept \union {c})' = {} \union {c}
        BY <1>2, <1>5, <3>0, <3>5 DEF Since
      <4>2. SumFunctionOnSet(EffectOn(a)', {} \union {c})
                = EffectOn(a)'[c] + SumFunctionOnSet(EffectOn(a)', {})
        BY <3>2, <3>3, SumAdd
      <4>3. SumFunctionOnSet(EffectOn(a)', {}) = 0
        BY SumEmpty
      <4>4. new[a] = Effect(c, a)
        BY <3>0, <3>5
      <4>5. SumFunctionOnSet(EffectOn(a)', {} \union {c}) = Effect(c, a) + 0
        BY <3>3, <4>2, <4>3
      <4>6. SumFunctionOnSet(EffectOn(a)', {} \union {c}) = Effect(c, a)
        BY <3>1, <4>5
      <4>. QED  BY <4>1, <4>4, <4>6
    <3>6. CASE ~(a = c /\ before'[c] # {})
      <4>. DEFINE S == Since(a, kept)
      <4>1. f[a] = SumFunctionOnSet(EffectOn(a)', S)
        BY <1>1, <1>4, <1>5, <2>1, LedToKept
      <4>2. S \subseteq kept /\ c \notin S /\ IsFiniteSet(S) /\ S \subseteq Calls
        <5>1. S \subseteq kept
          BY DEF Since
        <5>2. S \subseteq Calls
          BY <1>5, <3>4, <5>1
        <5>3. IsFiniteSet(S)
          BY <5>2, FS_Subset
        <5>. QED  BY <1>2, <1>5, <5>1, <5>2, <5>3
      <4>3. Since(a, kept \union {c})' = S \union {c}
        <5>1. CASE a = c
          BY <1>2, <1>5, <3>6, <5>1 DEF Since
        <5>2. CASE a # c /\ a \in kept
          <6>1. before'[a] = before[a] /\ before[a] \subseteq wrote
            BY <1>4, <1>5, <3>4, <5>2 DEF MoneyInv
          <6>. QED  BY <1>2, <5>2, <6>1 DEF Since
        <5>3. CASE a # c /\ a \notin kept
          BY <5>3 DEF Since
        <5>. QED  BY <5>1, <5>2, <5>3
      <4>. HIDE DEF S
      <4>4. SumFunctionOnSet(EffectOn(a)', S \union {c})
                = EffectOn(a)'[c] + SumFunctionOnSet(EffectOn(a)', S)
        BY <3>2, <4>2, SumAdd
      <4>5. new[a] = f[a] + Effect(c, a) /\ f[a] \in Int
        BY <1>5, <2>1, <3>0, <3>6
      <4>6. SumFunctionOnSet(EffectOn(a)', S \union {c}) = Effect(c, a) + f[a]
        BY <3>3, <4>1, <4>4
      <4>7. Effect(c, a) \in Int
        BY <3>1
      <4>8. f[a] + Effect(c, a) = Effect(c, a) + f[a]
        BY <4>5, <4>7
      <4>9. new[a] = SumFunctionOnSet(EffectOn(a)', S \union {c})
        BY <4>5, <4>6, <4>8
      <4>. QED  BY <4>3, <4>9
    <3>. QED  BY <3>5, <3>6
  <2>. QED  BY <1>3, <2>1 DEF LedTo
<1>6. Explained(balances)'
  <2>1. PICK f \in [AccountId -> Int] : f = item[Of(c)]
    BY DEF Writes
  <2>2. Explained(f)
    BY <2>1 DEF Writes, MoneyInv
  <2>3. PICK kept \in SUBSET wrote : LedTo(f, kept)
    BY <2>2 DEF Explained
  <2>4. LedTo(balances, kept \union {c})'
    BY <1>5, <2>1, <2>3
  <2>5. kept \union {c} \in SUBSET wrote'
    BY <1>3, <2>3
  <2>. QED  BY <1>3, <2>4, <2>5 DEF Explained, Writes
<1>7. ~lost' => LedTo(balances, wrote)'
  <2>. SUFFICES ASSUME ~lost' PROVE LedTo(balances, wrote)'
    OBVIOUS
  <2>1. ~lost /\ item[Of(c)] = balances
    BY <1>3
  <2>2. PICK f \in [AccountId -> Int] : f = item[Of(c)]
    BY DEF Writes
  <2>3. PICK k \in SUBSET wrote : k = wrote
    OBVIOUS
  <2>4. LedTo(f, k)
    BY <2>1, <2>2, <2>3 DEF MoneyInv
  <2>5. LedTo(balances, k \union {c})'
    BY <1>5, <2>2, <2>4
  <2>6. k \union {c} = wrote'
    BY <1>3, <2>3
  <2>. QED  BY <2>5, <2>6 DEF LedTo, Since
<1>8. ASSUME NEW d \in Calls, call'[d].phase = "balances", item'[Of(d)] # None
      PROVE  Explained(item[Of(d)])'
  <2>0. DOMAIN item = Tabs
    BY DEF WebInv, ReadInv
  <2>1. Of(d) # Of(c) /\ item'[Of(d)] = item[Of(d)]
    BY <1>1, <1>8, <2>0 DEF Writes
  <2>2. call'[d] = call[d]
    BY <2>1 DEF Writes, MoneyStep
  <2>3. PICK f : f = item[Of(d)]
    OBVIOUS
  <2>4. Explained(f) /\ f = item'[Of(d)']
    BY <1>1, <1>8, <2>1, <2>2, <2>3 DEF MoneyInv
  <2>5. wrote \subseteq wrote'
    BY <1>3
  <2>. QED  BY <1>1, <1>4, <2>4, <2>5, ExplainedKept
<1>9. \A d \in wrote' : call'[d].phase \in Behind
  BY <1>1, <1>3 DEF Writes
<1>10. ASSUME NEW d \in Calls
       PROVE  before'[d] \subseteq wrote' /\ (d \notin wrote' => before'[d] = {})
  BY <1>1, <1>2, <1>3, <1>4 DEF Writes, MoneyInv, WebInv, StorageInv
<1>. QED  BY <1>1, <1>6, <1>7, <1>8, <1>9, <1>10 DEF MoneyInv, Behind

LEMMA TransferMoney ==
    ASSUME WebInv, WebInv', MoneyInv, IsFiniteSet(Calls), NEW c \in Calls,
           TransferOffline(c), ~UNCHANGED <<balances, ghosts>>
    PROVE  MoneyInv'
<1>1. /\ SetItem(c, "balances", "transfer") /\ Covered(c)
      /\ SetBalances(c, Transferred(c)) /\ before' = before /\ GoOn(c, "transfers")
  BY TransferSteps
<1>2. /\ call[c].phase = "balances" /\ call[c].ask.op = "transfer"
      /\ item[Of(c)] # None /\ item' = [item EXCEPT ![Of(c)] = None]
  BY <1>1 DEF SetItem, At
<1>3. MoneyStep(c)
  BY TaskMoney
<1>4. call'[c].phase \in Behind
  BY <1>1, GoForm DEF GoOn, Behind
<1>5. /\ item[Of(c)] \in [AccountId -> Int]
      /\ call[c].from \in AccountId /\ call[c].to \in AccountId
      /\ call[c].from # call[c].to /\ call[c].amount \in Nat
      /\ \A a \in AccountId : Transferred(c)[a] =
             IF a = call[c].from THEN item[Of(c)][a] - call[c].amount
             ELSE IF a = call[c].to THEN item[Of(c)][a] + call[c].amount
             ELSE item[Of(c)][a]
  BY <1>1, TransferredBalances
<1>6. Explained(item[Of(c)])
  BY <1>2 DEF MoneyInv
<1>7. \A a \in AccountId : Transferred(c)[a] >= 0
  BY <1>1, <1>5, <1>6 DEF Covered, Explained
<1>8. before'[c] = {}
  BY <1>1, <1>2 DEF MoneyInv
<1>9. \A a \in AccountId : Transferred(c)[a] = item[Of(c)][a] + Effect(c, a)
  BY <1>2, <1>5 DEF Effect
<1>10. /\ \A d \in Calls \ {c} : before'[d] = before[d]
       /\ before'[c] \in {{}, wrote}
       /\ \A a \in AccountId :
              IF a = c /\ before'[c] # {}
              THEN Transferred(c)[a] = Effect(c, a)
              ELSE Transferred(c)[a] = item[Of(c)][a] + Effect(c, a)
  BY <1>1, <1>8, <1>9
<1>11. Writes(c, Transferred(c))
  BY <1>1, <1>2, <1>3, <1>4, <1>5, <1>7, <1>10 DEF Writes
<1>. QED  BY <1>11, WriteMoney

LEMMA PortfolioMoney ==
    ASSUME WebInv, WebInv', MoneyInv, IsFiniteSet(Calls), NEW c \in Calls,
           SeedPortfolio(c)
    PROVE  MoneyInv'
<1>. DEFINE f == item[Of(c)]
            new == [f EXCEPT ![c] = Portfolio]
<1>1. /\ SetItem(c, "balances", "review") /\ SetBalances(c, new)
      /\ before' = [before EXCEPT ![c] = wrote] /\ GoOn(c, "load")
  BY DEF SeedPortfolio
<1>2. /\ call[c].phase = "balances" /\ call[c].ask.op = "review"
      /\ item[Of(c)] # None /\ item' = [item EXCEPT ![Of(c)] = None]
  BY <1>1 DEF SetItem, At
<1>3. MoneyStep(c)
  BY TaskMoney
<1>4. call'[c].phase \in Behind
  BY <1>1, GoForm DEF GoOn, Behind
<1>5. f \in [AccountId -> Int]
  <2>1. "balances" \in Key /\ "review" \in Op \ {"logout"}
    BY DEF Key, Op
  <2>. QED  BY <1>1, <2>1, ItemHeld, Items
<1>6. c \in AccountId /\ Portfolio \in Nat
  BY WebAmountsAssumption DEF AccountId
<1>7. \A a \in AccountId : /\ new[a] = IF a = c THEN Portfolio ELSE f[a]
                           /\ Effect(c, a) = IF a = c THEN Portfolio ELSE 0
  BY <1>2, <1>5 DEF Effect
<1>8. Explained(f) /\ c \notin wrote
  BY <1>2 DEF MoneyInv
<1>9. /\ before'[c] = wrote /\ \A d \in Calls \ {c} : before'[d] = before[d]
  BY <1>1 DEF WebInv, StorageInv
<1>. HIDE DEF new
<1>10. \A a \in AccountId : new[a] >= 0
  BY <1>5, <1>6, <1>7, <1>8 DEF Explained
\* while nothing has been written, there is no rupee
<1>11. wrote = {} => f[c] = 0
  <2>. SUFFICES ASSUME wrote = {} PROVE f[c] = 0
    OBVIOUS
  <2>1. PICK kept \in SUBSET wrote : LedTo(f, kept)
    BY <1>8 DEF Explained
  <2>2. f[c] = SumFunctionOnSet(EffectOn(c), Since(c, kept))
    BY <1>6, <2>1 DEF LedTo
  <2>3. Since(c, kept) = {}
    BY <2>1 DEF Since
  <2>4. SumFunctionOnSet(EffectOn(c), {}) = 0
    BY SumEmpty
  <2>. QED  BY <2>2, <2>3, <2>4
<1>. HIDE DEF f
<1>12. \A a \in AccountId :
          IF a = c /\ before'[c] # {}
          THEN new[a] = Effect(c, a)
          ELSE new[a] = f[a] + Effect(c, a)
  BY <1>5, <1>6, <1>7, <1>9, <1>11
<1>13. Writes(c, new)
  BY <1>1, <1>2, <1>3, <1>4, <1>5, <1>9, <1>10, <1>12 DEF Writes, f
<1>. QED  BY <1>13, WriteMoney

LEMMA MoneyInit == WebInit => MoneyInv
<1>. SUFFICES ASSUME WebInit PROVE MoneyInv
  OBVIOUS
<1>1. /\ wrote = {} /\ before = [c \in Calls |-> {}] /\ balances = NoBalances
      /\ \E s : call = [c \in Calls |-> Fresh(s[c])]
  BY DEF WebInit
<1>2. \A c \in Calls : call[c].phase = "idle"
  BY <1>1 DEF Fresh
<1>3. \A a \in AccountId : balances[a] = 0
  BY <1>1 DEF NoBalances
<1>4. LedTo(balances, wrote)
  <2>1. \A a : Since(a, wrote) = {}
    BY <1>1 DEF Since
  <2>2. \A a : SumFunctionOnSet(EffectOn(a), {}) = 0
    BY SumEmpty
  <2>. QED  BY <1>3, <2>1, <2>2 DEF LedTo
<1>5. Explained(balances)
  BY <1>3, <1>4 DEF Explained
<1>. QED  BY <1>1, <1>2, <1>4, <1>5 DEF MoneyInv

LEMMA MoneyNext ==
    ASSUME IsFiniteSet(Calls)
    PROVE  WebInv /\ WebInv' /\ MoneyInv /\ [WebNext]_webVars => MoneyInv'
<1>. SUFFICES ASSUME WebInv, WebInv', MoneyInv, [WebNext]_webVars PROVE MoneyInv'
  OBVIOUS
<1>1. ASSUME NEW c \in Calls, Operate(c) PROVE MoneyInv'
  <2>1. MoneyStep(c) /\ (UNCHANGED <<balances, ghosts>> \/ TransferOffline(c) \/ SeedPortfolio(c))
    BY <1>1, OperateMoney
  <2>2. CASE UNCHANGED <<balances, ghosts>>
    <3>1. /\ \A d \in wrote : FormKept(d) /\ call'[d].phase \in Behind
          /\ \A d \in Calls : Of(d)' = Of(d) /\ Of(d) \in Tabs
      BY <2>1, WritersKept
    <3>2. \A d \in Calls : call'[d].phase = "balances" /\ item'[Of(d)] # None =>
              \/ /\ call[d].phase = "balances" /\ item[Of(d)] # None
                 /\ item'[Of(d)] = item[Of(d)]
              \/ item'[Of(d)] = balances
      BY <2>1, <3>1, BalancesRead
    <3>. QED  BY <2>2, <3>1, <3>2, QuietMoney
  <2>. QED  BY <2>1, <2>2, TransferMoney, PortfolioMoney
<1>2. ASSUME NEW t \in Tabs, Launch(t) PROVE MoneyInv'
  <2>1. /\ call' = [c \in Calls |-> IF Of(c) = t /\ call[c].phase # "idle" THEN Done(c)
                                                                       ELSE call[c]]
        /\ item' = [item EXCEPT ![t] = None]
        /\ UNCHANGED <<balances, ghosts>>
    BY <1>2 DEF Launch, At, storage
  <2>2. \A c \in Calls : call[c] \in Call /\ Of(c) \in Tabs
    BY CallTyped
  <2>3. \A c \in Calls : /\ Done(c).ask = call[c].ask /\ Done(c).phase = "done"
                         /\ Done(c).from = call[c].from /\ Done(c).to = call[c].to
                         /\ Done(c).amount = call[c].amount
    BY <2>2 DEF Done, Call
  <2>4. /\ \A c \in Calls : FormKept(c) /\ Of(c)' = Of(c)
        /\ \A c \in Calls : call'[c] = call[c] \/ (call'[c].phase = "done" /\ Of(c) = t)
    <3>. SUFFICES ASSUME NEW c \in Calls
                  PROVE  /\ FormKept(c) /\ Of(c)' = Of(c)
                         /\ call'[c] = call[c] \/ (call'[c].phase = "done" /\ Of(c) = t)
      OBVIOUS
    <3>1. \/ call'[c] = call[c]
          \/ call'[c] = Done(c) /\ Of(c) = t
      BY <2>1
    <3>2. CASE call'[c] = call[c]
      BY <3>2 DEF FormKept, Of
    <3>3. CASE call'[c] = Done(c) /\ Of(c) = t
      BY <2>3, <3>3 DEF FormKept, Of
    <3>. QED  BY <3>1, <3>2, <3>3
  <2>5. \A d \in wrote : FormKept(d) /\ call'[d].phase \in Behind
    BY <2>4 DEF MoneyInv, WebInv, StorageInv, Behind
  <2>6. ASSUME NEW d \in Calls, call'[d].phase = "balances", item'[Of(d)] # None
        PROVE  /\ call[d].phase = "balances" /\ item[Of(d)] # None
               /\ item'[Of(d)] = item[Of(d)]
    <3>1. DOMAIN item = Tabs
      BY DEF WebInv, ReadInv
    <3>. QED  BY <2>1, <2>2, <2>4, <2>6, <3>1
  <2>. QED  BY <2>1, <2>4, <2>5, <2>6, QuietMoney
<1>3. CASE CookieExpires \/ UNCHANGED webVars
  <2>1. call' = call /\ item' = item /\ UNCHANGED <<balances, ghosts>>
    BY <1>3 DEF CookieExpires, webVars, storage
  <2>2. \A d \in wrote : FormKept(d) /\ call'[d].phase \in Behind
    BY <2>1 DEF FormKept, MoneyInv, Behind
  <2>3. \A d \in Calls : Of(d)' = Of(d)
    BY <2>1 DEF Of
  <2>. QED  BY <2>1, <2>2, <2>3, QuietMoney
<1>. QED  BY <1>1, <1>2, <1>3 DEF WebNext

\* For finitely many calls of any users in any tabs: balances are never negative
\* and those that some of the transfers and starting portfolios lead to, each
\* whole; only a tab that writes over what it did not read loses any
\* (AuthProvider.tsx:429-441, 528-531).
THEOREM MoneyExplained ==
    ASSUME IsFiniteSet(Calls)
    PROVE  WebSpec => []BalancesExplained
<1>1. MoneyInv => BalancesExplained
  <2>. SUFFICES ASSUME MoneyInv PROVE BalancesExplained
    OBVIOUS
  <2>1. \A a \in AccountId : balances[a] >= 0
    BY DEF MoneyInv, Explained
  <2>2. \E kept \in SUBSET wrote : LedTo(balances, kept) /\ (kept # wrote => lost)
    BY DEF MoneyInv, Explained
  <2>. QED  BY <2>1, <2>2 DEF BalancesExplained, LedTo, EffectOn
<1>. QED  BY <1>1, WebInvInit, WebInvNext, MoneyInit, MoneyNext, PTL DEF WebSpec
-----------------------------------------------------------------------------
(* Messaging. *)

USE MessagingAssumption

\* The inbox and the effects are written by the same commits.
EffectsAreInbox == \A e \in Events : applied[e] = IF e \in inbox THEN 1 ELSE 0

\* What is queued or handled was published.
DeliveredIsPublished ==
    /\ \A e \in Events : waiting[e] > 0 => publish[e] # "none"
    /\ \A h \in Handlers : handler[h].phase # "idle" =>
          /\ handler[h].event \in Events
          /\ publish[handler[h].event] # "none"

\* The unique index: an uncommitted inbox row has one writer and no duplicate.
OneWriter ==
    /\ \A g, h \in Handlers :
          /\ handler[g].phase = "inserted" /\ handler[h].phase = "inserted"
          /\ handler[g].event = handler[h].event
          => g = h
    /\ \A h \in Handlers :
          handler[h].phase = "inserted" => handler[h].event \notin inbox

\* A handler acknowledges only what is in the inbox.
AckedIsInbox ==
    \A h \in Handlers : handler[h].phase = "done" => handler[h].event \in inbox

QueueInv ==
    /\ TypeOK
    /\ EffectsAreInbox
    /\ DeliveredIsPublished
    /\ OneWriter
    /\ AckedIsInbox
    /\ NothingIsLost

-----------------------------------------------------------------------------
USE DEF Invocation, Idle, Published, Processes

LEMMA InitQueueInv == Init => QueueInv
<1> SUFFICES ASSUME Init PROVE QueueInv
  OBVIOUS
<1> USE DEF Init
<1>1. TypeOK BY DEF TypeOK
<1>2. EffectsAreInbox /\ DeliveredIsPublished /\ OneWriter /\ AckedIsInbox
  BY DEF EffectsAreInbox, DeliveredIsPublished, OneWriter, AckedIsInbox
<1>3. NothingIsLost BY DEF NothingIsLost
<1>4. QED BY <1>1, <1>2, <1>3 DEF QueueInv

\* Steps of the publisher leave the consumer alone.
LEMMA PublisherSteps ==
    ASSUME QueueInv,
           \/ \E e \in Events : PublishStep(e)
           \/ LosePublisherLink \/ StopPublisher \/ Declare
    PROVE  QueueInv'
<1> USE DEF QueueInv, database, broker, bounds
<1>1. ASSUME NEW e \in Events, Publish(e) PROVE QueueInv'
  BY <1>1 DEF Publish, TypeOK, EffectsAreInbox, DeliveredIsPublished,
     OneWriter, AckedIsInbox, NothingIsLost, Held, Holds
<1>2. ASSUME NEW e \in Events, Send(e) PROVE QueueInv'
  BY <1>2 DEF Send, TypeOK, EffectsAreInbox, DeliveredIsPublished,
     OneWriter, AckedIsInbox, NothingIsLost, Held, Holds, Routes
<1>3. ASSUME NEW e \in Events, Confirm(e) PROVE QueueInv'
  BY <1>3 DEF Confirm, TypeOK, EffectsAreInbox, DeliveredIsPublished,
     OneWriter, AckedIsInbox, NothingIsLost, Held, Holds
<1>4. CASE LosePublisherLink
  BY <1>4 DEF LosePublisherLink, LoseLink, TypeOK, EffectsAreInbox,
     DeliveredIsPublished, OneWriter, AckedIsInbox, NothingIsLost, Held, Holds
<1>5. CASE StopPublisher
  BY <1>5 DEF StopPublisher, TypeOK, EffectsAreInbox, DeliveredIsPublished,
     OneWriter, AckedIsInbox, NothingIsLost, Held, Holds
<1>6. CASE Declare
  BY <1>6 DEF Declare, TypeOK, EffectsAreInbox, DeliveredIsPublished,
     OneWriter, AckedIsInbox, NothingIsLost, Held, Holds
<1>7. QED
  BY <1>1, <1>2, <1>3, <1>4, <1>5, <1>6 DEF PublishStep

\* A step of one handler between two awaits keeps the message where it is.
LEMMA DeliverStep ==
    ASSUME QueueInv, NEW h \in Handlers, NEW e \in Events, Deliver(h, e)
    PROVE  QueueInv'
<1> USE DEF QueueInv, Deliver, database, broker, bounds
<1>1. TypeOK' /\ EffectsAreInbox' BY DEF TypeOK, EffectsAreInbox
<1>2. DeliveredIsPublished' BY DEF TypeOK, DeliveredIsPublished
<1>3. OneWriter' /\ AckedIsInbox' BY DEF TypeOK, OneWriter, AckedIsInbox
<1>4. NothingIsLost'
  <2>1. Held(e)' BY DEF Held, Holds, TypeOK
  <2>2. \A x \in Events \ {e} : waiting'[x] = waiting[x] BY DEF TypeOK
  <2>3. \A x \in Events : ~Held(x) BY DEF Held
  <2>4. QED BY <2>1, <2>2, <2>3 DEF NothingIsLost
<1>5. QED BY <1>1, <1>2, <1>3, <1>4

LEMMA InsertStep ==
    ASSUME QueueInv, NEW h \in Handlers, InsertMessage(h)
    PROVE  QueueInv'
<1> USE DEF QueueInv, InsertMessage, Go, database, broker, bounds
<1>1. TypeOK' /\ EffectsAreInbox' BY DEF TypeOK, EffectsAreInbox
<1>2. DeliveredIsPublished' BY DEF TypeOK, DeliveredIsPublished
<1>3. OneWriter' /\ AckedIsInbox' BY DEF TypeOK, OneWriter, AckedIsInbox, RowLocked
<1>4. NothingIsLost' BY DEF TypeOK, NothingIsLost, Held, Holds
<1>5. QED BY <1>1, <1>2, <1>3, <1>4

LEMMA DuplicateStep ==
    ASSUME QueueInv, NEW h \in Handlers, FindDuplicate(h)
    PROVE  QueueInv'
<1> USE DEF QueueInv, FindDuplicate, Go, database, broker, bounds
<1>1. TypeOK' /\ EffectsAreInbox' BY DEF TypeOK, EffectsAreInbox
<1>2. DeliveredIsPublished' BY DEF TypeOK, DeliveredIsPublished
<1>3. OneWriter' /\ AckedIsInbox' BY DEF TypeOK, OneWriter, AckedIsInbox
<1>4. NothingIsLost' BY DEF TypeOK, NothingIsLost, Held, Holds
<1>5. QED BY <1>1, <1>2, <1>3, <1>4

LEMMA CommitStep ==
    ASSUME QueueInv, NEW h \in Handlers, Commit(h)
    PROVE  QueueInv'
<1> USE DEF QueueInv, Commit, Go, database, broker, bounds
<1>1. TypeOK' BY DEF TypeOK
<1>2. EffectsAreInbox' BY DEF TypeOK, EffectsAreInbox, OneWriter
<1>3. DeliveredIsPublished' BY DEF TypeOK, DeliveredIsPublished
<1>4. OneWriter' BY DEF TypeOK, OneWriter
<1>5. AckedIsInbox' BY DEF TypeOK, AckedIsInbox
<1>6. NothingIsLost' BY DEF TypeOK, NothingIsLost, Held, Holds
<1>7. QED BY <1>1, <1>2, <1>3, <1>4, <1>5, <1>6

LEMMA AbortStep ==
    ASSUME QueueInv, NEW h \in Handlers, Abort(h)
    PROVE  QueueInv'
<1> USE DEF QueueInv, Abort, Go, database, broker, bounds
<1>1. TypeOK' /\ EffectsAreInbox' BY DEF TypeOK, EffectsAreInbox
<1>2. DeliveredIsPublished' BY DEF TypeOK, DeliveredIsPublished
<1>3. OneWriter' /\ AckedIsInbox' BY DEF TypeOK, OneWriter, AckedIsInbox
<1>4. NothingIsLost' BY DEF TypeOK, NothingIsLost, Held, Holds
<1>5. QED BY <1>1, <1>2, <1>3, <1>4

\* The message leaves its handler for the inbox or for the rejected ones.
LEMMA AnswerStep ==
    ASSUME QueueInv, NEW h \in Handlers, Ack(h) \/ Nack(h)
    PROVE  QueueInv'
<1> USE DEF QueueInv, Ack, Nack, End, database, broker, bounds
<1>1. TypeOK' /\ EffectsAreInbox' BY DEF TypeOK, EffectsAreInbox
<1>2. DeliveredIsPublished' BY DEF TypeOK, DeliveredIsPublished
<1>3. OneWriter' /\ AckedIsInbox' BY DEF TypeOK, OneWriter, AckedIsInbox
<1>4. NothingIsLost'
  <2>1. handler[h].event \in inbox \union rejected' BY DEF AckedIsInbox
  <2>2. \A e \in Events : Held(e) =>
            Held(e)' \/ e \in inbox \union rejected'
    BY <2>1 DEF Held, Holds, TypeOK
  <2>3. QED BY <2>2 DEF NothingIsLost
<1>5. QED BY <1>1, <1>2, <1>3, <1>4

\* What was held waits again.
LEMMA Requeued ==
    ASSUME QueueInv, Requeue
    PROVE  /\ waiting' \in [Events -> Nat]
           /\ channel' \in Nat
           /\ \A e \in Events : waiting[e] > 0 \/ Held(e) <=> waiting'[e] > 0
  BY DEF QueueInv, TypeOK, Requeue, Held

LEMMA ChannelSteps ==
    ASSUME QueueInv,
           LoseConsumerLink \/ CrashConsumer
               \/ \E h \in Handlers : EndOnClosedChannel(h)
    PROVE  QueueInv'
<1> USE DEF QueueInv, database, broker, bounds
<1>1. /\ Requeue
      /\ handler' \in {handler, [h \in Handlers |-> Idle]}
      /\ UNCHANGED <<publish, database>>
  BY DEF LoseConsumerLink, CrashConsumer, EndOnClosedChannel, Restart
<1>2. losses' \in [Processes -> Nat] /\ crashes' \in Nat
  BY DEF LoseConsumerLink, LoseLink, CrashConsumer, EndOnClosedChannel, TypeOK
<1>3. UNCHANGED <<declared, unrouted, rejected, deadLetters>>
  BY <1>1 DEF Requeue
<1>4. TypeOK'
  BY <1>1, <1>2, <1>3, Requeued DEF TypeOK
<1>5. EffectsAreInbox' BY <1>1 DEF EffectsAreInbox
<1>6. DeliveredIsPublished'
  BY <1>1, Requeued DEF DeliveredIsPublished, Held, Holds
<1>7. OneWriter' /\ AckedIsInbox' BY <1>1 DEF OneWriter, AckedIsInbox
<1>8. NothingIsLost' BY <1>1, <1>3, Requeued DEF NothingIsLost
<1>9. QED BY <1>4, <1>5, <1>6, <1>7, <1>8

LEMMA QueueInvariance == Spec => []QueueInv
<1>1. QueueInv /\ [Next]_vars => QueueInv'
  <2> SUFFICES ASSUME QueueInv, [Next]_vars PROVE QueueInv'
    OBVIOUS
  <2>1. CASE \/ \E e \in Events : PublishStep(e)
             \/ LosePublisherLink \/ StopPublisher \/ Declare
    BY <2>1, PublisherSteps
  <2>2. ASSUME NEW h \in Handlers, Handle(h) \/ Abort(h) PROVE QueueInv'
    BY <2>2, InsertStep, DuplicateStep, CommitStep, AbortStep, AnswerStep,
       ChannelSteps DEF Handle
  <2>3. ASSUME NEW h \in Handlers, NEW e \in Events, Deliver(h, e)
        PROVE QueueInv'
    BY <2>3, DeliverStep
  <2>4. CASE LoseConsumerLink \/ CrashConsumer
    BY <2>4, ChannelSteps
  <2>5. CASE UNCHANGED vars
    BY <2>5 DEF vars, database, broker, bounds, QueueInv, TypeOK,
       EffectsAreInbox, DeliveredIsPublished, OneWriter, AckedIsInbox,
       NothingIsLost, Held, Holds
  <2>6. QED
    BY <2>1, <2>2, <2>3, <2>4, <2>5 DEF Next
<1>2. QED
  BY <1>1, InitQueueInv, PTL DEF Spec

\* No event the broker took for the queue disappears: publisher.ts's promise of
\* durability and consumer.ts's of at-least-once delivery.
THEOREM TakenIsKept == Spec => []NothingIsLost
  BY QueueInvariance, PTL DEF QueueInv

\* ADR-011: whatever is sent, delivered and handled again, the effect of an
\* event follows its publish() and is committed at most once.
THEOREM AppliedAtMostOnce == Spec => ImplementsDelivery
<1> DEFINE offered == {e \in Events : publish[e] # "none"}
<1>1. Init => AtMostOnce!Init
  BY DEF Init, AtMostOnce!Init
<1>2. QueueInv /\ [Next]_vars => [AtMostOnce!Next]_<<offered, applied>>
  <2> SUFFICES ASSUME QueueInv, [Next]_vars
               PROVE  AtMostOnce!Next \/ UNCHANGED <<offered, applied>>
    OBVIOUS
  <2> USE DEF QueueInv, database, broker, bounds
  <2>1. ASSUME NEW e \in Events, Publish(e) PROVE AtMostOnce!Offer(e)
    BY <2>1 DEF Publish, TypeOK, AtMostOnce!Offer
  <2>2. ASSUME NEW e \in Events, Send(e) \/ Confirm(e)
        PROVE UNCHANGED <<offered, applied>>
    BY <2>2 DEF Send, Confirm, TypeOK
  <2>3. CASE LosePublisherLink \/ StopPublisher
    BY <2>3 DEF LosePublisherLink, StopPublisher, TypeOK
  <2>4. ASSUME NEW h \in Handlers, Commit(h)
        PROVE  AtMostOnce!Apply(handler[h].event)
    <3>1. handler[h].event \in offered
      BY <2>4 DEF Commit, DeliveredIsPublished
    <3>2. applied[handler[h].event] = 0
      BY <2>4, <3>1 DEF Commit, OneWriter, EffectsAreInbox
    <3>3. UNCHANGED offered
      BY <2>4 DEF Commit
    <3>4. QED
      BY <2>4, <3>1, <3>2, <3>3 DEF Commit, AtMostOnce!Apply
  <2>5. ASSUME NEW h \in Handlers,
               \/ InsertMessage(h) \/ FindDuplicate(h) \/ Abort(h)
               \/ Ack(h) \/ Nack(h) \/ EndOnClosedChannel(h)
        PROVE  UNCHANGED <<offered, applied>>
    BY <2>5 DEF InsertMessage, FindDuplicate, Abort, Ack, Nack,
       EndOnClosedChannel, Restart
  <2>6. ASSUME NEW h \in Handlers, NEW e \in Events, Deliver(h, e)
        PROVE  UNCHANGED <<offered, applied>>
    BY <2>6 DEF Deliver
  <2>7. CASE Declare \/ LoseConsumerLink \/ CrashConsumer
    BY <2>7 DEF Declare, LoseConsumerLink, CrashConsumer, Restart
  <2>8. CASE UNCHANGED vars
    BY <2>8 DEF vars
  <2>9. \A h \in Handlers : Commit(h) => handler[h].event \in Events
    BY DEF Commit, DeliveredIsPublished
  <2>10. QED
    BY <2>1, <2>2, <2>3, <2>4, <2>5, <2>6, <2>7, <2>8, <2>9
       DEF Next, PublishStep, Handle, AtMostOnce!Next
<1>3. QED
  BY <1>1, <1>2, QueueInvariance, PTL
     DEF Spec, ImplementsDelivery, AtMostOnce!Spec
=============================================================================
