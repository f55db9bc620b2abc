-------------------------- MODULE AuditTrailProofs --------------------------
(***************************************************************************)
(* Proofs about the audit trail of the calls, for any number of calls,     *)
(* crashes and refused writes: a client never has its reply before the row *)
(* of its call is settled, and read_audit therefore shows it; each call    *)
(* under /rpc/ leaves one row and no other call leaves any; the row tells  *)
(* how the call went; and the counters of the metrics agree with the rows. *)
(***************************************************************************)
EXTENDS RequestPipelineProofs, FiniteSetTheorems

(***************************************************************************)
(* The order of a call's row, its reply and later readings.                *)
(***************************************************************************)
\* The queue's part of WritesGoFirst, for one call and any queue: `waits` when
\* the call waits for something outside the loop, `up` when its response is
\* past the audit middleware.
Placed(queue, r, waits, up) ==
    /\ waits => \A i \in DOMAIN queue :
                   queue[i] # CallTask(r) /\ ~IsWriteFor(queue[i], r)
    /\ ~waits => \E i \in DOMAIN queue :
                   /\ queue[i] = CallTask(r)
                   /\ \A j \in DOMAIN queue :
                         /\ queue[j] = CallTask(r) => j = i
                         /\ IsWriteFor(queue[j], r) => j < i /\ up

HasWrite(queue, r) == \E i \in DOMAIN queue : IsWriteFor(queue[i], r)

Queued(r) == Placed(ready, r, Waits(r), pc[r] = "request_id_up")

\* The store's part.
RowDue(r) ==
    /\ pc[r] = "request_id_up" /\ IsRpc(r) => Settled(r) \/ HasWrite(ready, r)
    /\ pc[r] = "done" /\ IsRpc(r) => Settled(r)

ClosedIsIdle == server = "closed" => NothingInFlight

LEMMA WritesGoFirstParts ==
    WritesGoFirst <=> ClosedIsIdle /\ \A r \in Requests : Queued(r) /\ RowDue(r)
BY DEF WritesGoFirst, Queued, RowDue, Placed, HasWrite, ClosedIsIdle

-----------------------------------------------------------------------------
(***************************************************************************)
(* How a queue changes: a task leaves its head, or one joins its end.      *)
(***************************************************************************)
\* A call's task is no write, and tells the call.
LEMMA TaskKinds ==
    /\ \A r, q \in Requests : CallTask(r) = CallTask(q) => r = q
    /\ \A r, q \in Requests : ~IsWriteFor(CallTask(r), q)
    /\ \A row, r : CallTask(r) # WriteTask(row)
    /\ \A row, r : IsWriteFor(WriteTask(row), r) <=> row.call = r
BY DEF CallTask, WriteTask, IsWriteFor, IsWrite

LEMMA TailPlaces ==
    ASSUME NEW queue \in Seq(Tasks), queue # <<>>
    PROVE  /\ Len(queue) \in Nat /\ Len(queue) >= 1
           /\ DOMAIN queue = 1 .. Len(queue)
           /\ queue[1] = Head(queue)
           /\ Tail(queue) \in Seq(Tasks)
           /\ DOMAIN Tail(queue) = 1 .. Len(queue) - 1
           /\ \A i \in 1 .. Len(queue) - 1 : Tail(queue)[i] = queue[i + 1]
OBVIOUS

LEMMA AppendPlaces ==
    ASSUME NEW queue \in Seq(Tasks), NEW task \in Tasks
    PROVE  /\ Len(queue) \in Nat
           /\ DOMAIN queue = 1 .. Len(queue)
           /\ Append(queue, task) \in Seq(Tasks)
           /\ DOMAIN Append(queue, task) = 1 .. Len(queue) + 1
           /\ \A i \in 1 .. Len(queue) : Append(queue, task)[i] = queue[i]
           /\ Append(queue, task)[Len(queue) + 1] = task
OBVIOUS

\* The head goes, and it is not q's call.
LEMMA TailKeepsOthers ==
    ASSUME NEW queue \in Seq(Tasks), queue # <<>>, NEW q \in Requests,
           NEW waits \in BOOLEAN, NEW up \in BOOLEAN,
           Placed(queue, q, waits, up), Head(queue) # CallTask(q)
    PROVE  Placed(Tail(queue), q, waits, up)
<1> DEFINE n    == Len(queue)
           tail == Tail(queue)
<1>1. /\ n \in Nat /\ n >= 1 /\ DOMAIN queue = 1 .. n /\ queue[1] # CallTask(q)
      /\ DOMAIN tail = 1 .. n - 1
      /\ \A i \in 1 .. n - 1 : tail[i] = queue[i + 1] /\ i + 1 \in 1 .. n
  BY TailPlaces
<1> HIDE DEF n, tail
<1>2. CASE waits
  <2>1. \A i \in 1 .. n : queue[i] # CallTask(q) /\ ~IsWriteFor(queue[i], q)
    BY <1>1, <1>2 DEF Placed
  <2>2. \A i \in 1 .. n - 1 : tail[i] # CallTask(q) /\ ~IsWriteFor(tail[i], q)
    BY <1>1, <2>1
  <2> QED
    BY <1>1, <1>2, <2>2 DEF Placed, tail
<1>3. CASE ~waits
  <2>1. PICK i \in 1 .. n :
           /\ queue[i] = CallTask(q)
           /\ \A j \in 1 .. n : /\ queue[j] = CallTask(q) => j = i
                                /\ IsWriteFor(queue[j], q) => j < i /\ up
    BY <1>1, <1>3 DEF Placed
  <2>2. i - 1 \in 1 .. n - 1 /\ tail[i - 1] = CallTask(q)
    <3>1. i # 1
      BY <1>1, <2>1
    <3>2. i - 1 \in 1 .. n - 1 /\ (i - 1) + 1 = i
      BY <1>1, <3>1
    <3> QED
      BY <1>1, <2>1, <3>2
  <2>3. ASSUME NEW j \in 1 .. n - 1
        PROVE  /\ tail[j] = CallTask(q) => j = i - 1
               /\ IsWriteFor(tail[j], q) => j < i - 1 /\ up
    <3>1. tail[j] = queue[j + 1] /\ j + 1 \in 1 .. n
      BY <1>1
    <3>2. /\ queue[j + 1] = CallTask(q) => j + 1 = i
          /\ IsWriteFor(queue[j + 1], q) => j + 1 < i /\ up
      BY <2>1, <3>1
    <3>3. (j + 1 = i => j = i - 1) /\ (j + 1 < i => j < i - 1)
      OBVIOUS
    <3> QED
      BY <3>1, <3>2, <3>3
  <2> QED
    BY <1>1, <1>3, <2>2, <2>3 DEF Placed, tail
<1> QED
  BY <1>2, <1>3

\* The head goes, and it is r's call: nothing of r's is left.
LEMMA TailClearsOwn ==
    ASSUME NEW queue \in Seq(Tasks), queue # <<>>, NEW r \in Requests,
           NEW up \in BOOLEAN, NEW now \in BOOLEAN,
           Placed(queue, r, FALSE, up), Head(queue) = CallTask(r)
    PROVE  Placed(Tail(queue), r, TRUE, now) /\ ~HasWrite(queue, r)
<1> DEFINE n    == Len(queue)
           tail == Tail(queue)
<1>1. /\ n \in Nat /\ n >= 1 /\ DOMAIN queue = 1 .. n /\ queue[1] = CallTask(r)
      /\ DOMAIN tail = 1 .. n - 1
      /\ \A i \in 1 .. n - 1 : tail[i] = queue[i + 1] /\ i + 1 \in 1 .. n /\ i + 1 # 1
  BY TailPlaces
<1> HIDE DEF n, tail
<1>2. PICK i \in 1 .. n :
         \A j \in 1 .. n : /\ queue[j] = CallTask(r) => j = i
                           /\ IsWriteFor(queue[j], r) => j < i /\ up
  BY <1>1 DEF Placed
<1>3. i = 1
  BY <1>1, <1>2
<1>4. \A j \in 1 .. n : (queue[j] = CallTask(r) => j = 1) /\ ~IsWriteFor(queue[j], r)
  BY <1>1, <1>2, <1>3
<1>5. \A j \in 1 .. n - 1 : tail[j] # CallTask(r) /\ ~IsWriteFor(tail[j], r)
  BY <1>1, <1>4
<1> QED
  BY <1>1, <1>4, <1>5 DEF Placed, HasWrite, tail

\* A task that is none of q's joins.
LEMMA AppendKeepsOthers ==
    ASSUME NEW queue \in Seq(Tasks), NEW q \in Requests,
           NEW waits \in BOOLEAN, NEW up \in BOOLEAN,
           Placed(queue, q, waits, up),
           NEW task \in Tasks, task # CallTask(q), ~IsWriteFor(task, q)
    PROVE  Placed(Append(queue, task), q, waits, up)
<1> DEFINE n      == Len(queue)
           longer == Append(queue, task)
<1>1. /\ n \in Nat /\ DOMAIN queue = 1 .. n /\ DOMAIN longer = 1 .. n + 1
      /\ \A i \in 1 .. n : longer[i] = queue[i] /\ i \in 1 .. n + 1
      /\ longer[n + 1] = task
  BY AppendPlaces
<1> HIDE DEF n, longer
<1>2. \A j \in 1 .. n + 1 : j \in 1 .. n \/ j = n + 1
  BY <1>1
<1>3. CASE waits
  <2>1. \A i \in 1 .. n : queue[i] # CallTask(q) /\ ~IsWriteFor(queue[i], q)
    BY <1>1, <1>3 DEF Placed
  <2>2. \A i \in 1 .. n + 1 : longer[i] # CallTask(q) /\ ~IsWriteFor(longer[i], q)
    BY <1>1, <1>2, <2>1
  <2> QED
    BY <1>1, <1>3, <2>2 DEF Placed, longer
<1>4. CASE ~waits
  <2>1. PICK i \in 1 .. n :
           /\ queue[i] = CallTask(q)
           /\ \A j \in 1 .. n : /\ queue[j] = CallTask(q) => j = i
                                /\ IsWriteFor(queue[j], q) => j < i /\ up
    BY <1>1, <1>4 DEF Placed
  <2>2. i \in 1 .. n + 1 /\ longer[i] = CallTask(q)
    BY <1>1, <2>1
  <2>3. \A j \in 1 .. n + 1 : /\ longer[j] = CallTask(q) => j = i
                              /\ IsWriteFor(longer[j], q) => j < i /\ up
    BY <1>1, <1>2, <2>1
  <2> QED
    BY <1>1, <1>4, <2>2, <2>3 DEF Placed, longer
<1> QED
  BY <1>3, <1>4

\* A call that waited joins; one of its writes may have joined just before.
LEMMA AppendOwn ==
    ASSUME NEW queue \in Seq(Tasks), NEW r \in Requests, NEW up \in BOOLEAN,
           \/ \A j \in DOMAIN queue : queue[j] # CallTask(r) /\ ~IsWriteFor(queue[j], r)
           \/ up /\ \A j \in DOMAIN queue : queue[j] # CallTask(r)
    PROVE  Placed(Append(queue, CallTask(r)), r, FALSE, up)
<1> DEFINE n      == Len(queue)
           longer == Append(queue, CallTask(r))
<1>1. CallTask(r) \in Tasks
  BY DEF Tasks
<1>2. /\ n \in Nat /\ DOMAIN queue = 1 .. n /\ DOMAIN longer = 1 .. n + 1
      /\ \A i \in 1 .. n : longer[i] = queue[i]
      /\ longer[n + 1] = CallTask(r)
  BY <1>1, AppendPlaces
<1> HIDE DEF n, longer
<1>3. \A j \in 1 .. n + 1 : (j \in 1 .. n /\ j < n + 1) \/ j = n + 1
  BY <1>2
<1>4. n + 1 \in 1 .. n + 1
  BY <1>2
<1>5. \A j \in 1 .. n + 1 : /\ longer[j] = CallTask(r) => j = n + 1
                            /\ IsWriteFor(longer[j], r) => j < n + 1 /\ up
  BY <1>2, <1>3, TaskKinds
<1> QED
  BY <1>2, <1>4, <1>5 DEF Placed, longer

LEMMA AppendKeepsWrites ==
    ASSUME NEW queue \in Seq(Tasks), NEW r \in Requests, NEW task \in Tasks
    PROVE  /\ HasWrite(queue, r) => HasWrite(Append(queue, task), r)
           /\ IsWriteFor(task, r) => HasWrite(Append(queue, task), r)
<1> DEFINE n      == Len(queue)
           longer == Append(queue, task)
<1>1. /\ n \in Nat /\ DOMAIN queue = 1 .. n /\ DOMAIN longer = 1 .. n + 1
      /\ \A i \in 1 .. n : longer[i] = queue[i]
      /\ longer[n + 1] = task
  BY AppendPlaces
<1> HIDE DEF n, longer
<1>2. n + 1 \in 1 .. n + 1 /\ \A i \in 1 .. n : i \in 1 .. n + 1
  BY <1>1
<1> QED
  BY <1>1, <1>2 DEF HasWrite, longer

LEMMA TailKeepsWrites ==
    ASSUME NEW queue \in Seq(Tasks), queue # <<>>, NEW r \in Requests,
           HasWrite(queue, r), ~IsWriteFor(Head(queue), r)
    PROVE  HasWrite(Tail(queue), r)
<1> DEFINE n    == Len(queue)
           tail == Tail(queue)
<1>1. /\ n \in Nat /\ n >= 1 /\ DOMAIN queue = 1 .. n /\ ~IsWriteFor(queue[1], r)
      /\ DOMAIN tail = 1 .. n - 1
      /\ \A i \in 1 .. n - 1 : tail[i] = queue[i + 1]
  BY TailPlaces
<1> HIDE DEF n, tail
<1>2. PICK i \in 1 .. n : IsWriteFor(queue[i], r)
  BY <1>1 DEF HasWrite
<1>3. i # 1
  BY <1>1, <1>2
<1>4. i - 1 \in 1 .. n - 1 /\ (i - 1) + 1 = i
  BY <1>1, <1>3
<1>5. tail[i - 1] = queue[i]
  BY <1>1, <1>4
<1> QED
  BY <1>1, <1>2, <1>4, <1>5 DEF HasWrite, tail

-----------------------------------------------------------------------------
(***************************************************************************)
(* How a call r that moves leaves every call q.                            *)
(***************************************************************************)
AllPlaced == \A q \in Requests : Queued(q) /\ RowDue(q)

Outside == {"idle", "body", "metabase", "done", "gone"}

\* What RowDue needs when no row is written: the writes in the queue stay, and
\* an RPC's call passes the audit middleware by Audit only.
LEMMA RowDueStays ==
    ASSUME TypeOK, NEW q \in Requests, RowDue(q),
           UNCHANGED <<input, store, lost>>,
           HasWrite(ready, q) => HasWrite(ready', q),
           \/ pc'[q] = pc[q]
           \/ pc'[q] \notin {"request_id_up", "done"}
           \/ pc'[q] = "request_id_up" /\ ~IsRpc(q)
           \/ pc'[q] = "done" /\ pc[q] = "request_id_up" /\ ~HasWrite(ready, q)
    PROVE  RowDue(q)'
<1>1. (IsRpc(q)' <=> IsRpc(q)) /\ (Settled(q)' <=> Settled(q))
  BY DEF IsRpc, Settled
<1> QED
  BY <1>1 DEF RowDue

LEMMA LeavesHead ==
    ASSUME TypeOK, NEW r \in Requests, NEW q \in Requests, Queued(q),
           ready # <<>>, Head(ready) = CallTask(r), ~Waits(r), NEW up \in BOOLEAN
    PROVE  /\ q # r => Placed(Tail(ready), q, Waits(q), pc[q] = "request_id_up")
           /\ q = r => Placed(Tail(ready), r, TRUE, up) /\ ~HasWrite(ready, r)
           /\ HasWrite(ready, q) => HasWrite(Tail(ready), q)
           /\ Tail(ready) \in Seq(Tasks)
<1>1. ready \in Seq(Tasks) /\ Waits(q) \in BOOLEAN
  BY DEF TypeOK, Waits
<1>2. Tail(ready) \in Seq(Tasks)
  BY <1>1, TailPlaces
<1>3. HasWrite(ready, q) => HasWrite(Tail(ready), q)
  BY <1>1, TaskKinds, TailKeepsWrites
<1>4. ASSUME q # r
      PROVE  Placed(Tail(ready), q, Waits(q), pc[q] = "request_id_up")
  <2>1. Head(ready) # CallTask(q)
    BY <1>4, TaskKinds
  <2> QED
    BY <1>1, <2>1, TailKeepsOthers DEF Queued
<1>5. ASSUME q = r
      PROVE  Placed(Tail(ready), r, TRUE, up) /\ ~HasWrite(ready, r)
  <2>1. Placed(ready, r, FALSE, pc[r] = "request_id_up")
    <3>1. Placed(ready, r, Waits(r), pc[r] = "request_id_up")
      BY <1>5 DEF Queued
    <3> QED
      BY <3>1 DEF Placed
  <2> QED
    BY <1>1, <2>1, TailClearsOwn
<1> QED
  BY <1>2, <1>3, <1>4, <1>5

\* A waiting call has nothing in the queue.
LEMMA WaitsHasNothing ==
    ASSUME NEW queue, NEW r, NEW up, Placed(queue, r, TRUE, up)
    PROVE  \A j \in DOMAIN queue : queue[j] # CallTask(r) /\ ~IsWriteFor(queue[j], r)
BY DEF Placed

LEMMA JoinsOthers ==
    ASSUME NEW queue \in Seq(Tasks), NEW r \in Requests, NEW q \in Requests, q # r,
           NEW waits \in BOOLEAN, NEW up \in BOOLEAN, Placed(queue, q, waits, up)
    PROVE  Placed(Append(queue, CallTask(r)), q, waits, up)
<1>1. CallTask(r) \in Tasks /\ CallTask(r) # CallTask(q) /\ ~IsWriteFor(CallTask(r), q)
  BY TaskKinds DEF Tasks
<1> QED
  BY <1>1, AppendKeepsOthers

LEMMA JoinsOwn ==
    ASSUME NEW queue \in Seq(Tasks), NEW r \in Requests,
           NEW up \in BOOLEAN, NEW now \in BOOLEAN, Placed(queue, r, TRUE, up)
    PROVE  Placed(Append(queue, CallTask(r)), r, FALSE, now)
BY WaitsHasNothing, AppendOwn

LEMMA CallsKeepWrites ==
    ASSUME NEW queue \in Seq(Tasks), NEW r \in Requests, NEW q \in Requests,
           HasWrite(queue, q)
    PROVE  HasWrite(Append(queue, CallTask(r)), q)
<1>1. CallTask(r) \in Tasks
  BY DEF Tasks
<1> QED
  BY <1>1, AppendKeepsWrites

LEMMA WaitsMoves ==
    ASSUME TypeOK, NEW r \in Requests, NEW l \in Layers, pc' = [pc EXCEPT ![r] = l],
           NEW q \in Requests
    PROVE  /\ q # r => (Waits(q)' <=> Waits(q)) /\ pc'[q] = pc[q]
           /\ q = r => (Waits(q)' <=> l \in Outside) /\ pc'[q] = l
           /\ Waits(q) \in BOOLEAN /\ Waits(q)' \in BOOLEAN
BY DEF TypeOK, Waits, Outside

LEMMA GoesToPlaces ==
    ASSUME TypeOK, AllPlaced, NEW r \in Requests, NEW l \in Layers \ (Outside \union {"done"}),
           ready # <<>>, Head(ready) = CallTask(r), ~Waits(r), GoesTo(r, l),
           l = "request_id_up" => ~IsRpc(r), UNCHANGED <<input, store, lost>>
    PROVE  AllPlaced'
<1> SUFFICES ASSUME NEW q \in Requests
             PROVE  Queued(q)' /\ RowDue(q)'
  BY DEF AllPlaced
<1>1. Queued(q) /\ RowDue(q)
  BY DEF AllPlaced
<1>2. /\ q # r => (Waits(q)' <=> Waits(q)) /\ pc'[q] = pc[q]
      /\ q = r => ~Waits(q)' /\ pc'[q] = l
      /\ Waits(q) \in BOOLEAN
  BY WaitsMoves DEF GoesTo
<1>3. /\ q # r => Placed(Tail(ready), q, Waits(q), pc[q] = "request_id_up")
      /\ q = r => Placed(Tail(ready), r, TRUE, pc[q] = "request_id_up")
      /\ HasWrite(ready, q) => HasWrite(Tail(ready), q)
      /\ Tail(ready) \in Seq(Tasks)
  BY <1>1, LeavesHead
<1>4. /\ q # r => Placed(ready', q, Waits(q), pc[q] = "request_id_up")
      /\ q = r => Placed(ready', q, FALSE, l = "request_id_up")
      /\ HasWrite(Tail(ready), q) => HasWrite(ready', q)
  <2>1. ready' = Append(Tail(ready), CallTask(r))
    BY DEF GoesTo
  <2>2. HasWrite(Tail(ready), q) => HasWrite(ready', q)
    BY <1>3, <2>1, CallsKeepWrites
  <2>3. CASE q # r
    <3>1. Placed(Append(Tail(ready), CallTask(r)), q, Waits(q), pc[q] = "request_id_up")
      <4> DEFINE queue == Tail(ready)
                 waits == Waits(q)
                 up == pc[q] = "request_id_up"
      <4>1. queue \in Seq(Tasks) /\ waits \in BOOLEAN /\ up \in BOOLEAN
        BY <1>2, <1>3
      <4>2. Placed(queue, q, waits, up)
        BY <1>3, <2>3
      <4> HIDE DEF queue, waits, up
      <4>3. Placed(Append(queue, CallTask(r)), q, waits, up)
        BY <2>3, <4>1, <4>2, JoinsOthers
      <4> QED
        BY <4>3 DEF queue, waits, up
    <3> QED
      BY <2>1, <2>2, <2>3, <3>1
  <2>4. CASE q = r
    BY <1>3, <2>1, <2>2, <2>4, JoinsOwn
  <2> QED
    BY <2>3, <2>4
<1>5. Queued(q)'
  <2>1. Placed(ready', q, Waits(q)', pc'[q] = "request_id_up")
    BY <1>2, <1>4 DEF Placed
  <2> QED
    BY <2>1 DEF Queued
<1>6. RowDue(q)'
  BY <1>1, <1>2, <1>3, <1>4, RowDueStays DEF Outside
<1> QED
  BY <1>5, <1>6

LEMMA WaitsAtPlaces ==
    ASSUME TypeOK, AllPlaced, NEW r \in Requests, NEW l \in {"body", "metabase", "done"},
           ready # <<>>, Head(ready) = CallTask(r), ~Waits(r), WaitsAt(r, l),
           l = "done" => pc[r] = "request_id_up", UNCHANGED <<input, store, lost>>
    PROVE  AllPlaced'
<1> SUFFICES ASSUME NEW q \in Requests
             PROVE  Queued(q)' /\ RowDue(q)'
  BY DEF AllPlaced
<1>1. Queued(q) /\ RowDue(q)
  BY DEF AllPlaced
<1>2. /\ q # r => (Waits(q)' <=> Waits(q)) /\ pc'[q] = pc[q]
      /\ q = r => Waits(q)' /\ pc'[q] = l
      /\ Waits(q) \in BOOLEAN
  <2>1. l \in Layers /\ l \in Outside /\ pc' = [pc EXCEPT ![r] = l]
    BY DEF WaitsAt, Layers, Outside
  <2> QED
    BY <2>1, WaitsMoves
<1>3. /\ q # r => Placed(ready', q, Waits(q), pc[q] = "request_id_up")
      /\ q = r => Placed(ready', r, TRUE, FALSE) /\ ~HasWrite(ready, r)
      /\ HasWrite(ready, q) => HasWrite(ready', q)
  BY <1>1, LeavesHead DEF WaitsAt
<1>4. Queued(q)'
  <2>1. Placed(ready', q, Waits(q)', pc'[q] = "request_id_up")
    BY <1>2, <1>3 DEF Placed
  <2> QED
    BY <2>1 DEF Queued
<1>5. RowDue(q)'
  BY <1>1, <1>2, <1>3, RowDueStays
<1> QED
  BY <1>4, <1>5

LEMMA ResumesPlaces ==
    ASSUME TypeOK, AllPlaced, NEW r \in Requests, NEW l \in Layers \ Outside,
           Waits(r), Resumes(r, l),
           l = "request_id_up" => ~IsRpc(r), UNCHANGED <<input, store, lost>>
    PROVE  AllPlaced'
<1> SUFFICES ASSUME NEW q \in Requests
             PROVE  Queued(q)' /\ RowDue(q)'
  BY DEF AllPlaced
<1>1. Queued(q) /\ RowDue(q) /\ ready \in Seq(Tasks)
  BY DEF AllPlaced, TypeOK
<1>2. /\ q # r => (Waits(q)' <=> Waits(q)) /\ pc'[q] = pc[q]
      /\ q = r => ~Waits(q)' /\ pc'[q] = l
      /\ Waits(q) \in BOOLEAN
  BY WaitsMoves DEF Resumes
<1>3. /\ q # r => Placed(ready, q, Waits(q), pc[q] = "request_id_up")
      /\ q = r => Placed(ready, r, TRUE, pc[q] = "request_id_up")
  BY <1>1 DEF Queued, Placed
<1>4. /\ q # r => Placed(ready', q, Waits(q), pc[q] = "request_id_up")
      /\ q = r => Placed(ready', q, FALSE, l = "request_id_up")
      /\ HasWrite(ready, q) => HasWrite(ready', q)
  <2>1. ready' = Append(ready, CallTask(r))
    BY DEF Resumes
  <2>2. HasWrite(ready, q) => HasWrite(ready', q)
    BY <1>1, <2>1, CallsKeepWrites
  <2>3. CASE q # r
    BY <1>1, <1>2, <1>3, <2>1, <2>2, <2>3, JoinsOthers
  <2>4. CASE q = r
    BY <1>1, <1>3, <2>1, <2>2, <2>4, JoinsOwn
  <2> QED
    BY <2>3, <2>4
<1>5. Queued(q)'
  <2>1. Placed(ready', q, Waits(q)', pc'[q] = "request_id_up")
    BY <1>2, <1>4 DEF Placed
  <2> QED
    BY <2>1 DEF Queued
<1>6. RowDue(q)'
  BY <1>1, <1>2, <1>4, RowDueStays DEF Outside
<1> QED
  BY <1>5, <1>6

\* Only the responses of calls outside /rpc/ skip the audit middleware.
LEMMA RespondsPlaces ==
    ASSUME TypeOK, AllPlaced, NEW r \in Requests, NEW o,
           ready # <<>>, Head(ready) = CallTask(r), ~Waits(r), Responds(r, o),
           UNCHANGED <<input, store, lost>>
    PROVE  AllPlaced'
<1>1. /\ FirstUp(r) \in {"telemetry_up", "audit_up", "request_id_up"}
      /\ FirstUp(r) = "request_id_up" => ~IsRpc(r)
  BY DEF FirstUp
<1>2. FirstUp(r) \in Layers \ (Outside \union {"done"})
  BY <1>1 DEF Layers, Outside
<1>3. GoesTo(r, FirstUp(r))
  BY DEF Responds
<1> QED
  BY <1>1, <1>2, <1>3, GoesToPlaces

\* The audit middleware queues the row ahead of its call.
LEMMA AuditPlaces ==
    ASSUME TypeOK, CarriesWhatIsRead, AllPlaced, NEW r \in Requests, Audit(r)
    PROVE  AllPlaced'
<1> SUFFICES ASSUME NEW q \in Requests
             PROVE  Queued(q)' /\ RowDue(q)'
  BY DEF AllPlaced
<1> DEFINE write == WriteTask(Record(r))
           queue == Append(Tail(ready), write)
<1>1. Queued(q) /\ RowDue(q)
  BY DEF AllPlaced
<1>2. /\ ready # <<>> /\ Head(ready) = CallTask(r) /\ ~Waits(r)
      /\ pc' = [pc EXCEPT ![r] = "request_id_up"]
      /\ UNCHANGED <<input, store, lost>>
  BY DEF Audit, Runs, Waits, sent, audit
<1>3. /\ q # r => (Waits(q)' <=> Waits(q)) /\ pc'[q] = pc[q]
      /\ q = r => ~Waits(q)' /\ pc'[q] = "request_id_up"
      /\ Waits(q) \in BOOLEAN
  <2>1. "request_id_up" \in Layers /\ "request_id_up" \notin Outside
    BY DEF Layers, Outside
  <2> QED
    BY <1>2, <2>1, WaitsMoves
<1>4. /\ q # r => Placed(Tail(ready), q, Waits(q), pc[q] = "request_id_up")
      /\ q = r => Placed(Tail(ready), r, TRUE, TRUE)
      /\ HasWrite(ready, q) => HasWrite(Tail(ready), q)
      /\ Tail(ready) \in Seq(Tasks)
  BY <1>1, <1>2, LeavesHead
<1>5. write \in Tasks /\ \A s \in Requests : IsWriteFor(write, s) <=> s = r
  <2>1. outcome[r] # None /\ request_id[r] # None
    BY DEF Audit, Runs, CarriesWhatIsRead
  <2>2. Record(r) \in Rows
    BY <2>1, RecordType
  <2> QED
    BY <2>2, TaskKinds DEF Tasks, Record
<1>6. /\ queue \in Seq(Tasks)
      /\ HasWrite(Tail(ready), q) => HasWrite(queue, q)
      /\ q = r => HasWrite(queue, q)
  BY <1>4, <1>5, AppendPlaces, AppendKeepsWrites
<1>7. ready' = Append(queue, CallTask(r))
  <2>1. Tail(ready) \o <<write, CallTask(r)>> = Append(Append(Tail(ready), write), CallTask(r))
    <3>1. CallTask(r) \in Tasks
      BY DEF Tasks
    <3> HIDE DEF write
    <3> QED
      BY <1>4, <1>5, <3>1
  <2> QED
    BY <2>1 DEF Audit
<1> HIDE DEF write
<1>8. CASE q # r
  <2>1. write # CallTask(q) /\ ~IsWriteFor(write, q)
    BY <1>5, <1>8, TaskKinds DEF write
  <2>2. Placed(queue, q, Waits(q), pc[q] = "request_id_up")
    BY <1>3, <1>4, <1>5, <1>8, <2>1, AppendKeepsOthers
  <2>3. Placed(ready', q, Waits(q), pc[q] = "request_id_up")
    BY <1>3, <1>6, <1>7, <1>8, <2>2, JoinsOthers
  <2>4. Placed(ready', q, Waits(q)', pc'[q] = "request_id_up")
    BY <1>3, <1>8, <2>3 DEF Placed
  <2>5. HasWrite(ready, q) => HasWrite(ready', q)
    BY <1>4, <1>6, <1>7, CallsKeepWrites
  <2>6. Queued(q)'
    BY <2>4 DEF Queued
  <2>7. RowDue(q)'
    BY <1>1, <1>2, <1>3, <1>8, <2>5, RowDueStays
  <2> QED
    BY <2>6, <2>7
<1>9. CASE q = r
  <2>1. \A j \in DOMAIN queue : queue[j] # CallTask(r)
    <3>1. \A j \in DOMAIN Tail(ready) : Tail(ready)[j] # CallTask(r)
      BY <1>4, <1>9 DEF Placed
    <3>2. /\ Len(Tail(ready)) \in Nat
          /\ DOMAIN Tail(ready) = 1 .. Len(Tail(ready))
          /\ DOMAIN queue = 1 .. Len(Tail(ready)) + 1
          /\ \A j \in 1 .. Len(Tail(ready)) : queue[j] = Tail(ready)[j]
          /\ queue[Len(Tail(ready)) + 1] = write
      BY <1>4, <1>5, AppendPlaces
    <3>3. write # CallTask(r)
      BY TaskKinds DEF write
    <3> HIDE DEF queue
    <3>4. \A j \in DOMAIN queue : j \in DOMAIN Tail(ready) \/ j = Len(Tail(ready)) + 1
      BY <3>2
    <3> QED
      BY <3>1, <3>2, <3>3, <3>4
  <2>2. Placed(ready', r, FALSE, TRUE)
    BY <1>6, <1>7, <2>1, AppendOwn
  <2>3. Queued(q)'
    BY <1>3, <1>9, <2>2 DEF Queued, Placed
  <2>4. HasWrite(ready', q)
    BY <1>6, <1>7, <1>9, CallsKeepWrites
  <2>5. RowDue(q)'
    BY <1>3, <1>9, <2>4 DEF RowDue
  <2> QED
    BY <2>3, <2>5
<1> QED
  BY <1>8, <1>9

\* The write at the head settles the row of its call, unless the store is
\* closed and no call is in flight any more.
LEMMA WritePlaces ==
    ASSUME TypeOK, AllPlaced, ClosedIsIdle, AuditWrite
    PROVE  AllPlaced'
<1> SUFFICES ASSUME NEW q \in Requests
             PROVE  Queued(q)' /\ RowDue(q)'
  BY DEF AllPlaced
<1> DEFINE row == Head(ready)[2]
<1>1. /\ Queued(q) /\ RowDue(q) /\ ready \in Seq(Tasks) /\ ready # <<>>
      /\ ready' = Tail(ready) /\ pc' = pc /\ input' = input
      /\ IsWrite(Head(ready)) /\ Waits(q) \in BOOLEAN
  BY DEF AllPlaced, TypeOK, AuditWrite, sent, Waits
<1>2. Head(ready) # CallTask(q)
  BY <1>1 DEF IsWrite, CallTask
<1>3. Queued(q)'
  <2>1. Placed(Tail(ready), q, Waits(q), pc[q] = "request_id_up")
    BY <1>1, <1>2, TailKeepsOthers DEF Queued
  <2> QED
    BY <1>1, <2>1 DEF Queued, Waits
<1>4. Settled(q) => Settled(q)'
  <2>1. store \in Seq(Rows) /\ lost \subseteq lost'
    BY DEF TypeOK, AuditWrite, StoreWrite
  <2>2. CASE store' = store
    BY <2>1, <2>2 DEF Settled
  <2>3. CASE store' = Append(store, row)
    <3>1. \A i \in DOMAIN store : i \in DOMAIN store' /\ store'[i] = store[i]
      BY <2>1, <2>3
    <3> QED
      BY <2>1, <3>1 DEF Settled
  <2> QED
    BY <2>2, <2>3 DEF AuditWrite, StoreWrite
<1>5. RowDue(q)'
  <2>1. ASSUME pc[q] = "request_id_up", IsWriteFor(Head(ready), q)
        PROVE  Settled(q)'
    <3>1. server # "closed"
      BY <2>1 DEF ClosedIsIdle, NothingInFlight
    <3>2. row.call = q
      BY <2>1 DEF IsWriteFor
    <3>3. CASE store' = Append(store, row)
      <4>1. store \in Seq(Rows)
        BY DEF TypeOK
      <4>2. Len(store) + 1 \in DOMAIN store' /\ store'[Len(store) + 1] = row
        BY <3>3, <4>1
      <4> QED
        BY <3>2, <4>2 DEF Settled
    <3>4. CASE lost' = lost \union {<<row, "refused">>}
      <4> DEFINE entry == <<row, "refused">>
      <4>1. entry \in lost' /\ entry[1].call = q /\ entry[2] = "refused"
        BY <3>2, <3>4
      <4> HIDE DEF entry
      <4> QED
        BY <4>1 DEF Settled
    <3> QED
      BY <3>1, <3>3, <3>4 DEF AuditWrite, StoreWrite
  <2>2. ASSUME ~IsWriteFor(Head(ready), q), HasWrite(ready, q)
        PROVE  HasWrite(ready', q)
    BY <1>1, <2>2, TailKeepsWrites
  <2> QED
    BY <1>1, <1>4, <2>1, <2>2 DEF RowDue, IsRpc
<1> QED
  BY <1>3, <1>5

\* What a crash leaves is answered, gone, or not arrived.
LEMMA CrashPlaces ==
    ASSUME TypeOK, AllPlaced, Crash
    PROVE  AllPlaced'
<1> SUFFICES ASSUME NEW q \in Requests
             PROVE  Queued(q)' /\ RowDue(q)'
  BY DEF AllPlaced
<1>1. /\ ready' = <<>>
      /\ pc'[q] \in {"idle", "done", "gone"} /\ (pc'[q] = "done" => pc[q] = "done")
      /\ input' = input /\ store' = store /\ lost \subseteq lost'
  BY DEF Crash, sent
<1>2. Waits(q)' /\ DOMAIN ready' = {}
  BY <1>1 DEF Waits
<1>3. Queued(q)'
  BY <1>2 DEF Queued, Placed
<1>4. Settled(q) => Settled(q)'
  BY <1>1 DEF Settled
<1>5. RowDue(q)
  BY DEF AllPlaced
<1>6. RowDue(q)'
  BY <1>1, <1>4, <1>5 DEF RowDue, IsRpc
<1> QED
  BY <1>3, <1>6

LEMMA HandlerPlaces ==
    ASSUME TypeOK, AllPlaced, NEW r \in Requests, Handler(r)
    PROVE  AllPlaced'
<1>1. ready # <<>> /\ Head(ready) = CallTask(r) /\ ~Waits(r)
  BY DEF Handler, Runs, Waits
<1>2. ASSUME NEW o, Answers(r, o)
      PROVE  AllPlaced'
  BY <1>1, <1>2, RespondsPlaces DEF Answers, sent, audit
<1>3. CASE PostQuery(r)
  BY <1>1, <1>3, WaitsAtPlaces DEF PostQuery, sent, audit
<1>4. CASE GetHealth(r)
  BY <1>1, <1>4, WaitsAtPlaces DEF GetHealth, sent, audit
<1> QED
  BY <1>2, <1>3, <1>4 DEF Handler, NoRoute, RedirectsSlash, WrongMethod,
     BodyNotJson, ScopeMissing, BodyInvalid, AnswersLocally, ReadAudit,
     MetabaseNotConfigured

LEMMA CallPlaces ==
    ASSUME TypeOK, CarriesWhatIsRead, AllPlaced, NEW r \in Requests, CallStep(r)
    PROVE  AllPlaced'
<1>1. ready # <<>> /\ Head(ready) = CallTask(r) /\ ~Waits(r)
  BY DEF CallStep, RequestID, ReadBody, AuthBypassed, AuthRejects, AuthAccepts,
     RateLimitBypassed, RateLimitAdmits, RateLimitDenies, Handler, Telemetry,
     Audit, Reply, Runs, Waits
<1>2. \A l \in {"audit", "auth", "ratelimit", "handler", "audit_up"} :
          l \in Layers \ (Outside \union {"done"}) /\ l # "request_id_up"
  BY DEF Layers, Outside
<1>3. CASE RequestID(r)
  <2>1. PICK l \in {"audit", "auth"} : GoesTo(r, l)
    BY <1>3 DEF RequestID
  <2> QED
    BY <1>1, <1>2, <1>3, <2>1, GoesToPlaces DEF RequestID, sent, audit
<1>4. CASE ReadBody(r)
  BY <1>1, <1>4, WaitsAtPlaces DEF ReadBody, sent, audit
<1>5. CASE AuthBypassed(r)
  BY <1>1, <1>2, <1>5, GoesToPlaces DEF AuthBypassed, sent, audit
<1>6. CASE AuthRejects(r)
  BY <1>1, <1>6, RespondsPlaces DEF AuthRejects, sent, audit
<1>7. CASE AuthAccepts(r)
  BY <1>1, <1>2, <1>7, GoesToPlaces DEF AuthAccepts, sent, audit
<1>8. CASE RateLimitBypassed(r)
  BY <1>1, <1>2, <1>8, GoesToPlaces DEF RateLimitBypassed, sent, audit
<1>9. CASE RateLimitAdmits(r)
  BY <1>1, <1>2, <1>9, GoesToPlaces DEF RateLimitAdmits, sent, audit
<1>10. CASE RateLimitDenies(r)
  BY <1>1, <1>10, RespondsPlaces DEF RateLimitDenies, sent, audit
<1>11. CASE Handler(r)
  BY <1>11, HandlerPlaces
<1>12. CASE Telemetry(r)
  BY <1>1, <1>2, <1>12, GoesToPlaces DEF Telemetry, sent, audit
<1>13. CASE Audit(r)
  BY <1>13, AuditPlaces
<1>14. CASE Reply(r)
  BY <1>1, <1>14, WaitsAtPlaces DEF Reply, Runs, sent, audit
<1> QED
  BY <1>3, <1>4, <1>5, <1>6, <1>7, <1>8, <1>9, <1>10, <1>11, <1>12, <1>13,
     <1>14 DEF CallStep

\* What happens outside the loop.
LEMMA OutsidePlaces ==
    ASSUME TypeOK, AllPlaced, NEW r \in Requests,
           Arrive(r) \/ BodyArrives(r) \/ ClientDisconnects(r) \/ MetabaseAnswers(r)
    PROVE  AllPlaced'
<1>1. Waits(r)
  BY DEF Arrive, BodyArrives, ClientDisconnects, MetabaseAnswers, Waits
<1>2. CASE Arrive(r)
  <2>1. "request_id" \in Layers \ Outside
    BY DEF Layers, Outside
  <2> QED
    BY <1>1, <1>2, <2>1, ResumesPlaces DEF Arrive, audit
<1>3. CASE BodyArrives(r)
  <2>1. "auth" \in Layers \ Outside
    BY DEF Layers, Outside
  <2> QED
    BY <1>1, <1>3, <2>1, ResumesPlaces DEF BodyArrives, sent, audit
<1>4. CASE ClientDisconnects(r)
  <2> SUFFICES ASSUME NEW q \in Requests
               PROVE  Queued(q)' /\ RowDue(q)'
    BY DEF AllPlaced
  <2>1. Queued(q) /\ RowDue(q)
    BY DEF AllPlaced
  <2>2. /\ ready' = ready /\ input' = input /\ store' = store /\ lost' = lost
        /\ (Waits(q)' <=> Waits(q))
        /\ pc'[q] = pc[q] \/ (pc'[q] = "gone" /\ pc[q] = "body")
    BY <1>4 DEF ClientDisconnects, TypeOK, Waits, sent, audit
  <2>3. Queued(q)'
    BY <2>1, <2>2 DEF Queued, Placed, Waits
  <2>4. RowDue(q)'
    BY <2>1, <2>2, RowDueStays
  <2> QED
    BY <2>3, <2>4
<1>5. CASE MetabaseAnswers(r)
  <2>1. /\ FirstUp(r) \in {"telemetry_up", "audit_up", "request_id_up"}
        /\ FirstUp(r) = "request_id_up" => ~IsRpc(r)
    BY DEF FirstUp
  <2>2. FirstUp(r) \in Layers \ Outside
    BY <2>1 DEF Layers, Outside
  <2> QED
    BY <1>1, <1>5, <2>1, <2>2, ResumesPlaces DEF MetabaseAnswers, sent, audit
<1> QED
  BY <1>2, <1>3, <1>4, <1>5

\* Once the server has closed, no call moves any more.
LEMMA ClosedStep ==
    ASSUME TypeOK, ClosedIsIdle, Next
    PROVE  ClosedIsIdle'
<1>1. CASE server = "closed"
  <2>1. \A r \in Requests : pc[r] \in {"idle", "done", "gone"}
    BY <1>1 DEF ClosedIsIdle, NothingInFlight
  <2>2. \A r \in Requests : ~CallStep(r)
    BY <2>1 DEF CallStep, RequestID, ReadBody, AuthBypassed, AuthRejects,
       AuthAccepts, RateLimitBypassed, RateLimitAdmits, RateLimitDenies,
       Handler, Telemetry, Audit, Reply, Runs
  <2>3. \A r \in Requests :
            ~Arrive(r) /\ ~BodyArrives(r) /\ ~ClientDisconnects(r) /\ ~MetabaseAnswers(r)
    BY <1>1, <2>1 DEF Arrive, BodyArrives, ClientDisconnects, MetabaseAnswers
  <2>4. pc' = pc
    BY <1>1, <2>2, <2>3 DEF Next, LoopStep, AuditWrite, WindowElapses,
       StopAccepting, Close, Crash
  <2> QED
    BY <2>1, <2>4 DEF ClosedIsIdle, NothingInFlight
<1>2. CASE server # "closed"
  <2>1. CASE Close
    BY <2>1 DEF Close, ClosedIsIdle, NothingInFlight
  <2>2. CASE ~Close
    <3>1. server' # "closed"
      BY <1>2, <2>2, ZenonT(100) DEF Next, LoopStep, AuditWrite, WindowElapses, CallStep,
         RequestID, ReadBody, AuthBypassed, AuthRejects, AuthAccepts,
         RateLimitBypassed, RateLimitAdmits, RateLimitDenies, Handler, NoRoute,
         RedirectsSlash, WrongMethod, BodyNotJson, ScopeMissing, BodyInvalid,
         AnswersLocally, ReadAudit, MetabaseNotConfigured, PostQuery, GetHealth,
         Answers, Telemetry, Audit, Reply, Arrive, BodyArrives,
         ClientDisconnects, MetabaseAnswers, StopAccepting, Crash, process
    <3> QED
      BY <3>1 DEF ClosedIsIdle
  <2> QED
    BY <2>1, <2>2
<1> QED
  BY <1>1, <1>2

LEMMA PlacesStep ==
    ASSUME TypeOK, CarriesWhatIsRead, ClosedIsIdle, AllPlaced, [Next]_vars
    PROVE  AllPlaced'
<1>1. CASE AuditWrite
  BY <1>1, WritePlaces
<1>2. CASE \E r \in Requests : CallStep(r)
  BY <1>2, CallPlaces
<1>3. CASE \E r \in Requests :
              Arrive(r) \/ BodyArrives(r) \/ ClientDisconnects(r) \/ MetabaseAnswers(r)
  BY <1>3, OutsidePlaces
<1>4. CASE Crash
  BY <1>4, CrashPlaces
<1>5. CASE UNCHANGED <<ready, pc, input, store, lost>>
  BY <1>5 DEF AllPlaced, Queued, RowDue, Waits, IsRpc, Settled
<1> QED
  BY <1>1, <1>2, <1>3, <1>4, <1>5
  DEF Next, LoopStep, WindowElapses, StopAccepting, Close, vars, sent, audit

-----------------------------------------------------------------------------
\* A call leaves only once the write of its row, which the loop runs before it,
\* has settled the row: audit.py:142 creates the write's task before the audit
\* middleware returns (WritesGoFirst).
THEOREM WritesAlwaysGoFirst == Spec => []WritesGoFirst
<1> DEFINE IInv == ClosedIsIdle /\ AllPlaced
<1>1. Init => IInv
  BY DEF Init, ClosedIsIdle, AllPlaced, Queued, Placed, RowDue, Waits
<1>2. TypeOK /\ CarriesWhatIsRead /\ IInv /\ [Next]_vars => IInv'
  <2>1. ASSUME TypeOK, CarriesWhatIsRead, IInv, [Next]_vars
        PROVE  ClosedIsIdle'
    BY <2>1, ClosedStep DEF vars, process, ClosedIsIdle, NothingInFlight
  <2> QED
    BY <2>1, PlacesStep
<1>3. IInv => WritesGoFirst
  BY WritesGoFirstParts DEF AllPlaced
<1> QED
  BY <1>1, <1>2, <1>3, TypeCorrect, AlwaysCarries, PTL DEF Spec

\* The row of an answered call is in the store unless the store refused it:
\* neither a crash nor a shutdown loses it (audit.py:78-80, app.py:61-65).
THEOREM AnsweredAlwaysAudited == Spec => []AnsweredIsAudited
<1>1. WritesGoFirst => AnsweredIsAudited
  BY DEF WritesGoFirst, AnsweredIsAudited, Settled, StoredFor, LostFor
<1> QED
  BY <1>1, WritesAlwaysGoFirst, PTL

\* When the lifespan ends no audit write is left to run (app.py:61-65).
THEOREM NothingEverWrittenAfterClose == Spec => []NothingWrittenAfterClose
<1>1. TypeOK /\ WritesGoFirst => NothingWrittenAfterClose
  <2> SUFFICES ASSUME TypeOK, WritesGoFirst, server = "closed",
                      NEW i \in DOMAIN ready, IsWrite(ready[i])
               PROVE  FALSE
    BY DEF NothingWrittenAfterClose, PendingRows
  <2>1. ready[i] \in Tasks
    BY DEF TypeOK
  <2>2. PICK row \in Rows : ready[i] = WriteTask(row)
    BY <2>1 DEF Tasks, IsWrite, CallTask
  <2>3. row.call \in Requests /\ IsWriteFor(ready[i], row.call)
    BY <2>2, TaskKinds DEF Rows
  <2>4. Waits(row.call)
    BY <2>3 DEF WritesGoFirst, NothingInFlight, Waits
  <2> QED
    BY <2>3, <2>4 DEF WritesGoFirst
<1> QED
  BY <1>1, TypeCorrect, WritesAlwaysGoFirst, PTL

-----------------------------------------------------------------------------
(***************************************************************************)
(* What read_audit shows.                                                  *)
(***************************************************************************)
EarlierDone ==
    \A r \in Requests :
        /\ \A q \in earlier[r] : pc[q] = "done"
        /\ pc[r] = "idle" => seen[r] = None

\* An answered call stays answered, and nothing is forgotten of the lost rows.
LEMMA NothingUndone ==
    ASSUME TypeOK, [Next]_vars
    PROVE  /\ \A q \in Requests : pc[q] = "done" => pc'[q] = "done"
           /\ \A q \in Requests : pc'[q] = "idle" => pc[q] = "idle"
           /\ lost \subseteq lost' /\ input' = input
<1>1. CASE \E r \in Requests : CallStep(r)
  <2>1. PICK r \in Requests : CallStep(r)
    BY <1>1
  <2>2. /\ pc[r] # "done" /\ UNCHANGED <<input, lost>>
        /\ \E l \in Layers \ {"idle"} : pc' = [pc EXCEPT ![r] = l]
    <3>1. CASE Handler(r)
      BY <3>1, FirstUpType DEF Handler, NoRoute, RedirectsSlash, WrongMethod,
         BodyNotJson, ScopeMissing, BodyInvalid, AnswersLocally, ReadAudit,
         MetabaseNotConfigured, PostQuery, GetHealth, Answers, Responds, Runs,
         GoesTo, WaitsAt, Layers, sent, audit
    <3>2. CASE ~Handler(r)
      BY <2>1, <3>2, FirstUpType DEF CallStep, RequestID, ReadBody, AuthBypassed,
         AuthRejects, AuthAccepts, RateLimitBypassed, RateLimitAdmits,
         RateLimitDenies, Telemetry, Audit, Reply, Responds, Runs, GoesTo,
         WaitsAt, Layers, sent, audit
    <3> QED
      BY <3>1, <3>2
  <2> QED
    BY <2>2 DEF TypeOK
<1>2. CASE \E r \in Requests :
              Arrive(r) \/ BodyArrives(r) \/ ClientDisconnects(r) \/ MetabaseAnswers(r)
  <2>1. PICK r \in Requests :
              Arrive(r) \/ BodyArrives(r) \/ ClientDisconnects(r) \/ MetabaseAnswers(r)
    BY <1>2
  <2>2. /\ pc[r] # "done" /\ UNCHANGED <<input, lost>>
        /\ \E l \in Layers \ {"idle"} : pc' = [pc EXCEPT ![r] = l]
    BY <2>1, FirstUpType DEF Arrive, BodyArrives, ClientDisconnects,
       MetabaseAnswers, Resumes, Layers, sent, audit
  <2> QED
    BY <2>2 DEF TypeOK
<1>3. CASE Crash
  BY <1>3 DEF Crash, sent
<1>4. CASE AuditWrite
  BY <1>4 DEF AuditWrite, sent
<1>5. CASE UNCHANGED <<pc, lost, input>>
  BY <1>5
<1> QED
  BY <1>1, <1>2, <1>3, <1>4, <1>5
  DEF Next, LoopStep, WindowElapses, StopAccepting, Close, vars, sent, audit

LEMMA EarlierStep ==
    ASSUME TypeOK, EarlierDone, [Next]_vars, NEW r \in Requests, NEW q \in earlier'[r]
    PROVE  pc'[q] = "done"
<1>1. CASE \E s \in Requests : Arrive(s)
  <2>1. PICK s \in Requests : Arrive(s)
    BY <1>1
  <2>2. earlier'[r] = earlier[r] \/ earlier'[r] = {p \in Requests : pc[p] = "done"}
    BY <2>1 DEF Arrive, TypeOK
  <2> QED
    BY <2>2, NothingUndone DEF EarlierDone, TypeOK
<1>2. CASE earlier' = earlier
  BY <1>2, NothingUndone DEF EarlierDone, TypeOK
<1> QED
  BY <1>1, <1>2, ZenonT(100) DEF Next, LoopStep, AuditWrite, CallStep, RequestID, ReadBody,
     AuthBypassed, AuthRejects, AuthAccepts, RateLimitBypassed, RateLimitAdmits,
     RateLimitDenies, Handler, NoRoute, RedirectsSlash, WrongMethod, BodyNotJson,
     ScopeMissing, BodyInvalid, AnswersLocally, ReadAudit, MetabaseNotConfigured,
     PostQuery, GetHealth, Answers, Telemetry, Audit, Reply, BodyArrives,
     ClientDisconnects, MetabaseAnswers, WindowElapses, StopAccepting, Close,
     Crash, vars, sent

\* Only a read's handler, and no call before it arrives, sees rows.
LEMMA SeenChanges ==
    ASSUME TypeOK, [Next]_vars, NEW r \in Requests
    PROVE  seen'[r] = seen[r] \/ (ReadAudit(r) /\ Handler(r))
<1>1. ASSUME NEW s \in Requests, s # r, ReadAudit(s)
      PROVE  seen'[r] = seen[r]
  BY <1>1 DEF ReadAudit, StoreQuery, TypeOK
<1>2. ASSUME NEW s \in Requests, Handler(s)
      PROVE  seen' = seen \/ ReadAudit(s)
  BY <1>2 DEF Handler, NoRoute, RedirectsSlash, WrongMethod, BodyNotJson,
     ScopeMissing, BodyInvalid, AnswersLocally, MetabaseNotConfigured,
     PostQuery, GetHealth, work
<1>3. CASE \E s \in Requests : Handler(s)
  BY <1>1, <1>2, <1>3
<1>4. CASE seen' = seen
  BY <1>4
<1> QED
  BY <1>3, <1>4 DEF Next, LoopStep, AuditWrite, CallStep, RequestID, ReadBody,
     AuthBypassed, AuthRejects, AuthAccepts, RateLimitBypassed, RateLimitAdmits,
     RateLimitDenies, Telemetry, Audit, Reply, Arrive, BodyArrives,
     ClientDisconnects, MetabaseAnswers, WindowElapses, StopAccepting, Close,
     Crash, vars, work

\* A call's `earlier` is taken when it arrives, before it sees anything.
LEMMA EarlierChanges ==
    ASSUME TypeOK, [Next]_vars, NEW r \in Requests
    PROVE  earlier'[r] = earlier[r] \/ (pc[r] = "idle" /\ seen' = seen)
<1>1. CASE \E s \in Requests : Arrive(s)
  BY <1>1 DEF Arrive, TypeOK, work
<1>2. CASE earlier' = earlier
  BY <1>2
<1> QED
  BY <1>1, <1>2, ZenonT(100) DEF Next, LoopStep, AuditWrite, CallStep, RequestID, ReadBody,
     AuthBypassed, AuthRejects, AuthAccepts, RateLimitBypassed, RateLimitAdmits,
     RateLimitDenies, Handler, NoRoute, RedirectsSlash, WrongMethod, BodyNotJson,
     ScopeMissing, BodyInvalid, AnswersLocally, ReadAudit, MetabaseNotConfigured,
     PostQuery, GetHealth, Answers, Telemetry, Audit, Reply, BodyArrives,
     ClientDisconnects, MetabaseAnswers, WindowElapses, StopAccepting, Close,
     Crash, vars, sent

LEMMA SeenStep ==
    ASSUME TypeOK, WritesGoFirst, EarlierDone, ReadSeesAnswered, [Next]_vars,
           NEW r \in Requests, NEW q \in earlier[r], seen'[r] # None, IsRpc(q)
    PROVE  q \in seen'[r] \/ \E l \in lost' : l[1].call = q /\ l[2] = "refused"
<1>1. q \in Requests /\ lost \subseteq lost'
  BY NothingUndone DEF TypeOK
<1>2. CASE seen'[r] = seen[r]
  BY <1>1, <1>2 DEF ReadSeesAnswered, LostFor
<1>3. CASE ReadAudit(r)
  <2>1. seen'[r] = {store[i].call : i \in DOMAIN store}
    BY <1>3 DEF ReadAudit, StoreQuery, TypeOK
  <2>2. Settled(q)
    BY <1>1 DEF EarlierDone, WritesGoFirst
  <2> QED
    BY <1>1, <2>1, <2>2 DEF Settled
<1> QED
  BY <1>2, <1>3, SeenChanges

\* An operator reading the log finds every call answered before the read
\* arrived, whatever runs in between (read_audit.py:68-78, audit.py:142).
THEOREM ReadAlwaysSeesAnswered == Spec => []ReadSeesAnswered
<1> DEFINE IInv == EarlierDone /\ ReadSeesAnswered
<1>1. Init => IInv
  BY DEF Init, EarlierDone, ReadSeesAnswered
<1>2. TypeOK /\ WritesGoFirst /\ IInv /\ [Next]_vars => IInv'
  <2> SUFFICES ASSUME TypeOK, WritesGoFirst, IInv, [Next]_vars
               PROVE  IInv'
    OBVIOUS
  <2>1. EarlierDone'
    <3>1. ASSUME NEW r \in Requests, pc'[r] = "idle"
          PROVE  seen'[r] = None
      <4>1. pc[r] = "idle" /\ seen[r] = None
        BY <3>1, NothingUndone DEF EarlierDone
      <4>2. ~Handler(r)
        BY <4>1 DEF Handler, Runs
      <4> QED
        BY <4>1, <4>2, SeenChanges
    <3> QED
      BY <3>1, EarlierStep DEF EarlierDone
  <2>2. ReadSeesAnswered'
    <3> SUFFICES ASSUME NEW r \in Requests, seen'[r] # None,
                        NEW q \in earlier'[r], IsRpc(q)'
                 PROVE  q \in seen'[r] \/ \E l \in lost' : l[1].call = q /\ l[2] = "refused"
      BY DEF ReadSeesAnswered, LostFor
    <3>1. IsRpc(q)
      BY NothingUndone DEF IsRpc
    <3>2. CASE q \in earlier[r]
      BY <3>1, <3>2, SeenStep
    <3>3. CASE q \notin earlier[r]
      <4>1. pc[r] = "idle" /\ seen' = seen
        BY <3>3, EarlierChanges
      <4>2. seen'[r] = None
        BY <4>1 DEF EarlierDone
      <4> QED
        BY <4>2
    <3> QED
      BY <3>2, <3>3
  <2> QED
    BY <2>1, <2>2
<1> QED
  BY <1>1, <1>2, TypeCorrect, WritesAlwaysGoFirst, PTL DEF Spec

-----------------------------------------------------------------------------
(***************************************************************************)
(* One row per call, telling the truth, and the metrics.                   *)
(***************************************************************************)
InStore(r) == \E i \in DOMAIN store : store[i].call = r
InLost(r)  == \E l \in lost : l[1].call = r

OneWrite(queue, r) ==
    \A i, j \in DOMAIN queue :
        IsWriteFor(queue[i], r) /\ IsWriteFor(queue[j], r) => i = j

\* The writes of r in one queue are writes of another.
Among(queue, other, r) ==
    \A i \in DOMAIN queue :
        IsWriteFor(queue[i], r) => \E j \in DOMAIN other : other[j] = queue[i]

OneStored(r) ==
    \A i, j \in DOMAIN store : store[i].call = r /\ store[j].call = r => i = j
OneLost(r) ==
    \A l, m \in lost : l[1].call = r /\ m[1].call = r => l = m

\* The layers past the audit middleware, and what a crash leaves of them.
PastAudit == {"request_id_up", "done", "gone"}

\* The row of call r is in one place, if it is anywhere, and then r is an RPC
\* that has passed the audit middleware.
Once(r) ==
    /\ OneStored(r) /\ OneLost(r) /\ OneWrite(ready, r)
    /\ InStore(r) => ~InLost(r) /\ ~HasWrite(ready, r)
    /\ InLost(r) => ~HasWrite(ready, r)
    /\ InStore(r) \/ InLost(r) \/ HasWrite(ready, r) => IsRpc(r) /\ pc[r] \in PastAudit

AllOnce == \A r \in Requests : Once(r)

AuditedIsRpc == \A r \in Requests : pc[r] = "audit_up" => IsRpc(r)

-----------------------------------------------------------------------------
(***************************************************************************)
(* How the writes of one call change with the queue.                       *)
(***************************************************************************)
LEMMA TailFewer ==
    ASSUME NEW queue \in Seq(Tasks), queue # <<>>, NEW r \in Requests
    PROVE  /\ Among(Tail(queue), queue, r)
           /\ OneWrite(queue, r) => OneWrite(Tail(queue), r)
           /\ OneWrite(queue, r) /\ IsWriteFor(Head(queue), r) => ~HasWrite(Tail(queue), r)
<1> DEFINE n    == Len(queue)
           tail == Tail(queue)
<1>1. /\ n \in Nat /\ n >= 1 /\ DOMAIN queue = 1 .. n /\ queue[1] = Head(queue)
      /\ DOMAIN tail = 1 .. n - 1
      /\ \A i \in 1 .. n - 1 : tail[i] = queue[i + 1] /\ i + 1 \in 1 .. n /\ i + 1 # 1
      /\ 1 \in 1 .. n
  BY TailPlaces
<1> HIDE DEF n, tail
<1>2. Among(tail, queue, r)
  BY <1>1 DEF Among
<1>3. ASSUME OneWrite(queue, r), NEW i \in 1 .. n - 1, NEW j \in 1 .. n - 1,
             IsWriteFor(tail[i], r), IsWriteFor(tail[j], r)
      PROVE  i = j
  <2>1. i + 1 = j + 1
    BY <1>1, <1>3 DEF OneWrite
  <2> QED
    BY <2>1
<1>4. ASSUME OneWrite(queue, r), IsWriteFor(Head(queue), r), HasWrite(tail, r)
      PROVE  FALSE
  BY <1>1, <1>4 DEF OneWrite, HasWrite
<1>5. OneWrite(queue, r) => OneWrite(tail, r)
  BY <1>1, <1>3 DEF OneWrite
<1> QED
  BY <1>2, <1>4, <1>5 DEF tail

LEMMA AppendFewer ==
    ASSUME NEW queue \in Seq(Tasks), NEW task \in Tasks, NEW r \in Requests
    PROVE  /\ ~IsWriteFor(task, r) =>
                /\ Among(Append(queue, task), queue, r)
                /\ OneWrite(queue, r) => OneWrite(Append(queue, task), r)
           /\ ~HasWrite(queue, r) => OneWrite(Append(queue, task), r)
<1> DEFINE n      == Len(queue)
           longer == Append(queue, task)
<1>1. /\ n \in Nat /\ DOMAIN queue = 1 .. n /\ DOMAIN longer = 1 .. n + 1
      /\ \A i \in 1 .. n : longer[i] = queue[i]
      /\ longer[n + 1] = task
  BY AppendPlaces
<1> HIDE DEF n, longer
<1>2. \A j \in 1 .. n + 1 : j \in 1 .. n \/ j = n + 1
  BY <1>1
<1>3. ~IsWriteFor(task, r) => Among(longer, queue, r)
  BY <1>1, <1>2 DEF Among
<1>4. ~IsWriteFor(task, r) /\ OneWrite(queue, r) => OneWrite(longer, r)
  BY <1>1, <1>2 DEF OneWrite
<1>5. ~HasWrite(queue, r) => OneWrite(longer, r)
  BY <1>1, <1>2 DEF OneWrite, HasWrite
<1> QED
  BY <1>3, <1>4, <1>5 DEF longer

\* A queue has no more writes than another.
FewerFor(queue, other, r) ==
    /\ Among(queue, other, r)
    /\ OneWrite(other, r) => OneWrite(queue, r)

Fewer(queue, other) == \A r \in Requests : FewerFor(queue, other, r)

LEMMA FewerHas ==
    ASSUME NEW queue, NEW other, NEW r, FewerFor(queue, other, r)
    PROVE  HasWrite(queue, r) => HasWrite(other, r)
BY DEF FewerFor, Among, HasWrite

LEMMA FewerOfFewer ==
    ASSUME NEW queue, NEW middle, NEW other, NEW r,
           FewerFor(queue, middle, r), FewerFor(middle, other, r)
    PROVE  FewerFor(queue, other, r)
<1>1. ASSUME NEW i \in DOMAIN queue, IsWriteFor(queue[i], r)
      PROVE  \E j \in DOMAIN other : other[j] = queue[i]
  <2>1. PICK j \in DOMAIN middle : middle[j] = queue[i]
    BY <1>1 DEF FewerFor, Among
  <2> QED
    BY <1>1, <2>1 DEF FewerFor, Among
<1> QED
  BY <1>1 DEF FewerFor, Among

LEMMA CallFewer ==
    ASSUME NEW queue \in Seq(Tasks), NEW r \in Requests
    PROVE  Fewer(Append(queue, CallTask(r)), queue)
<1>1. CallTask(r) \in Tasks /\ \A q \in Requests : ~IsWriteFor(CallTask(r), q)
  BY TaskKinds DEF Tasks
<1> QED
  BY <1>1, AppendFewer DEF Fewer, FewerFor

\* The four ways a call that moves leaves the queue.
LEMMA MovesFewer ==
    ASSUME TypeOK, NEW r \in Requests,
           \/ ready' = ready
           \/ ready' = Append(ready, CallTask(r))
           \/ ready # <<>> /\ ready' = Tail(ready)
           \/ ready # <<>> /\ ready' = Append(Tail(ready), CallTask(r))
    PROVE  Fewer(ready', ready)
<1>1. ready \in Seq(Tasks)
  BY DEF TypeOK
<1>2. CASE ready' = ready
  BY <1>2 DEF Fewer, FewerFor, Among
<1>3. CASE ready' = Append(ready, CallTask(r))
  BY <1>1, <1>3, CallFewer
<1>4. ASSUME ready # <<>>
      PROVE  Tail(ready) \in Seq(Tasks) /\ Fewer(Tail(ready), ready)
  BY <1>1, <1>4, TailPlaces, TailFewer DEF Fewer, FewerFor
<1>5. ASSUME ready # <<>>
      PROVE  Fewer(Append(Tail(ready), CallTask(r)), ready)
  BY <1>4, <1>5, CallFewer, FewerOfFewer DEF Fewer
<1> QED
  BY <1>2, <1>3, <1>4, <1>5

-----------------------------------------------------------------------------
(***************************************************************************)
(* Every step but the audit middleware's, the write's and a crash.         *)
(***************************************************************************)
Quiet == UNCHANGED <<input, store, lost>> /\ Fewer(ready', ready)

LEMMA QuietCall ==
    ASSUME TypeOK, NEW r \in Requests, CallStep(r), ~Audit(r)
    PROVE  Quiet
<1>1. UNCHANGED <<input, store, lost>> /\ ready # <<>>
  BY DEF CallStep, RequestID, ReadBody, AuthBypassed, AuthRejects, AuthAccepts,
     RateLimitBypassed, RateLimitAdmits, RateLimitDenies, Handler, NoRoute,
     RedirectsSlash, WrongMethod, BodyNotJson, ScopeMissing, BodyInvalid,
     AnswersLocally, ReadAudit, MetabaseNotConfigured, PostQuery, GetHealth,
     Answers, Telemetry, Reply, Runs, sent, audit
<1>2. ready' = Tail(ready) \/ ready' = Append(Tail(ready), CallTask(r))
  <2>1. CASE Handler(r)
    BY <2>1 DEF Handler, NoRoute, RedirectsSlash, WrongMethod, BodyNotJson,
       ScopeMissing, BodyInvalid, AnswersLocally, ReadAudit,
       MetabaseNotConfigured, PostQuery, GetHealth, Answers, Responds, GoesTo,
       WaitsAt
  <2>2. CASE ~Handler(r)
    BY <2>2 DEF CallStep, RequestID, ReadBody, AuthBypassed, AuthRejects,
       AuthAccepts, RateLimitBypassed, RateLimitAdmits, RateLimitDenies,
       Telemetry, Reply, Responds, GoesTo, WaitsAt
  <2> QED
    BY <2>1, <2>2
<1> QED
  BY <1>1, <1>2, MovesFewer DEF Quiet

LEMMA QuietOutside ==
    ASSUME TypeOK, NEW r \in Requests,
           Arrive(r) \/ BodyArrives(r) \/ ClientDisconnects(r) \/ MetabaseAnswers(r)
    PROVE  Quiet
<1>1. UNCHANGED <<input, store, lost>>
  BY DEF Arrive, BodyArrives, ClientDisconnects, MetabaseAnswers, sent, audit
<1>2. ready' = ready \/ ready' = Append(ready, CallTask(r))
  BY DEF Arrive, BodyArrives, ClientDisconnects, MetabaseAnswers, Resumes
<1> QED
  BY <1>1, <1>2, MovesFewer DEF Quiet

\* Which steps there are.
LEMMA Steps ==
    ASSUME TypeOK, [Next]_vars
    PROVE  Quiet \/ AuditWrite \/ Crash \/ \E r \in Requests : Audit(r)
<1>1. CASE \E r \in Requests : CallStep(r)
  BY <1>1, QuietCall
<1>2. CASE \E r \in Requests :
              Arrive(r) \/ BodyArrives(r) \/ ClientDisconnects(r) \/ MetabaseAnswers(r)
  BY <1>2, QuietOutside
<1>3. CASE UNCHANGED <<ready, input, store, lost>>
  BY <1>3 DEF Quiet, Fewer, FewerFor, Among
<1> QED
  BY <1>1, <1>2, <1>3
  DEF Next, LoopStep, WindowElapses, StopAccepting, Close, vars, sent, audit

\* A call past the audit middleware stays there, and only an RPC's response
\* reaches it.
LEMMA PastAuditStays ==
    ASSUME TypeOK, CarriesWhatIsRead, AuditedIsRpc, [Next]_vars, NEW q \in Requests
    PROVE  /\ pc[q] \in PastAudit => pc'[q] \in PastAudit
           /\ pc'[q] = "audit_up" => IsRpc(q)
<1>1. ASSUME NEW r \in Requests, NEW l \in Layers, pc' = [pc EXCEPT ![r] = l],
             pc[r] \in PastAudit => l \in PastAudit,
             l = "audit_up" => IsRpc(r)
      PROVE  /\ pc[q] \in PastAudit => pc'[q] \in PastAudit
             /\ pc'[q] = "audit_up" => IsRpc(q)
  BY <1>1 DEF TypeOK, AuditedIsRpc
<1>2. ASSUME NEW r \in Requests
      PROVE  FirstUp(r) \in Layers /\ (FirstUp(r) = "audit_up" => IsRpc(r))
  BY DEF FirstUp, Layers
<1>3. ASSUME NEW r \in Requests, Handler(r)
      PROVE  \E l \in Layers : /\ pc' = [pc EXCEPT ![r] = l] /\ pc[r] \notin PastAudit
                               /\ l = "audit_up" => IsRpc(r)
  BY <1>2, <1>3 DEF Handler, NoRoute, RedirectsSlash, WrongMethod, BodyNotJson,
     ScopeMissing, BodyInvalid, AnswersLocally, ReadAudit,
     MetabaseNotConfigured, PostQuery, GetHealth, Answers, Responds, Runs,
     GoesTo, WaitsAt, Layers, PastAudit
<1>4. ASSUME NEW r \in Requests, Telemetry(r)
      PROVE  IsRpc(r)
  <2>1. RpcName(input[r].path) # None
    BY <1>4 DEF Telemetry, Runs, CarriesWhatIsRead
  <2> QED
    BY <2>1 DEF RpcName, IsRpc, RpcPaths
<1>5. ASSUME NEW r \in Requests, CallStep(r), ~Handler(r)
      PROVE  \E l \in Layers : /\ pc' = [pc EXCEPT ![r] = l]
                               /\ pc[r] \in PastAudit => l \in PastAudit
                               /\ l = "audit_up" => IsRpc(r)
  BY <1>2, <1>4, <1>5 DEF CallStep, RequestID, ReadBody, AuthBypassed,
     AuthRejects, AuthAccepts, RateLimitBypassed, RateLimitAdmits,
     RateLimitDenies, Telemetry, Audit, Reply, Responds, Runs, GoesTo, WaitsAt,
     Layers, PastAudit
<1>6. CASE \E r \in Requests : CallStep(r)
  BY <1>1, <1>3, <1>5, <1>6
<1>7. CASE \E r \in Requests :
              Arrive(r) \/ BodyArrives(r) \/ ClientDisconnects(r) \/ MetabaseAnswers(r)
  <2>1. PICK r \in Requests :
              Arrive(r) \/ BodyArrives(r) \/ ClientDisconnects(r) \/ MetabaseAnswers(r)
    BY <1>7
  <2>2. \E l \in Layers : /\ pc' = [pc EXCEPT ![r] = l] /\ pc[r] \notin PastAudit
                          /\ l = "audit_up" => IsRpc(r)
    BY <1>2, <2>1 DEF Arrive, BodyArrives, ClientDisconnects, MetabaseAnswers,
       Resumes, Layers, PastAudit
  <2> QED
    BY <1>1, <2>2
<1>8. CASE Crash
  BY <1>8 DEF Crash, PastAudit
<1>9. CASE pc' = pc
  BY <1>9 DEF AuditedIsRpc
<1> QED
  BY <1>6, <1>7, <1>8, <1>9
  DEF Next, LoopStep, AuditWrite, WindowElapses, StopAccepting, Close, vars

-----------------------------------------------------------------------------
(***************************************************************************)
(* One row for each call.                                                  *)
(***************************************************************************)
LEMMA QuietOnce ==
    ASSUME AllOnce, Quiet,
           \A q \in Requests : pc[q] \in PastAudit => pc'[q] \in PastAudit
    PROVE  AllOnce'
<1> SUFFICES ASSUME NEW q \in Requests
             PROVE  Once(q)'
  BY DEF AllOnce
<1>1. Once(q) /\ UNCHANGED <<input, store, lost>>
  BY DEF AllOnce, Quiet
<1>2. /\ HasWrite(ready', q) => HasWrite(ready, q)
      /\ OneWrite(ready, q) => OneWrite(ready', q)
  BY FewerHas DEF Quiet, Fewer, FewerFor
<1>3. pc[q] \in PastAudit => pc'[q] \in PastAudit
  OBVIOUS
<1> QED
  BY <1>1, <1>2, <1>3 DEF Once, OneStored, OneLost, InStore, InLost, IsRpc

\* The audit middleware leaves the writes of the others alone and queues one
\* write of its own.
LEMMA AuditQueue ==
    ASSUME TypeOK, CarriesWhatIsRead, NEW r \in Requests, Audit(r), NEW q \in Requests
    PROVE  /\ q # r => FewerFor(ready', ready, q)
           /\ ~HasWrite(ready, r) => OneWrite(ready', r)
           /\ \A i \in DOMAIN ready' :
                 IsWriteFor(ready'[i], r) /\ ~HasWrite(ready, r) =>
                     ready'[i] = WriteTask(Record(r))
<1> DEFINE write == WriteTask(Record(r))
           queue == Append(Tail(ready), write)
<1>1. ready \in Seq(Tasks) /\ ready # <<>> /\ Tail(ready) \in Seq(Tasks)
  BY TailPlaces DEF TypeOK, Audit, Runs
<1>2. write \in Tasks /\ \A s \in Requests : IsWriteFor(write, s) <=> s = r
  <2>1. outcome[r] # None /\ request_id[r] # None
    BY DEF Audit, Runs, CarriesWhatIsRead
  <2>2. Record(r) \in Rows
    BY <2>1, RecordType
  <2> QED
    BY <2>2, TaskKinds DEF Tasks, Record
<1>3. queue \in Seq(Tasks)
  BY <1>1, <1>2, AppendPlaces
<1>4. ready' = Append(queue, CallTask(r))
  <2>1. CallTask(r) \in Tasks
    BY DEF Tasks
  <2>2. Tail(ready) \o <<write, CallTask(r)>> = Append(Append(Tail(ready), write), CallTask(r))
    <3> HIDE DEF write
    <3> QED
      BY <1>1, <1>2, <2>1
  <2> QED
    BY <2>2 DEF Audit
<1>5. \A s \in Requests : FewerFor(Tail(ready), ready, s)
  BY <1>1, TailFewer DEF FewerFor
<1>6. \A s \in Requests : FewerFor(ready', queue, s)
  BY <1>3, <1>4, CallFewer DEF Fewer
<1>7. ASSUME q # r
      PROVE  FewerFor(ready', ready, q)
  <2>1. FewerFor(queue, Tail(ready), q)
    BY <1>1, <1>2, <1>7, AppendFewer DEF FewerFor
  <2> HIDE DEF queue
  <2> QED
    BY <1>5, <1>6, <2>1, FewerOfFewer
<1>8. ASSUME ~HasWrite(ready, r)
      PROVE  /\ OneWrite(ready', r)
             /\ \A i \in DOMAIN ready' : IsWriteFor(ready'[i], r) => ready'[i] = write
  <2>1. ~HasWrite(Tail(ready), r)
    BY <1>5, <1>8, FewerHas
  <2>2. OneWrite(ready', r)
    BY <1>1, <1>2, <1>6, <2>1, AppendFewer DEF FewerFor
  <2>3. \A j \in DOMAIN queue : IsWriteFor(queue[j], r) => queue[j] = write
    <3> DEFINE n == Len(Tail(ready))
    <3>1. /\ n \in Nat /\ DOMAIN Tail(ready) = 1 .. n /\ DOMAIN queue = 1 .. n + 1
          /\ \A j \in 1 .. n : queue[j] = Tail(ready)[j]
          /\ queue[n + 1] = write
      BY <1>1, <1>2, AppendPlaces
    <3> HIDE DEF n, write, queue
    <3>2. \A j \in 1 .. n + 1 : j \in 1 .. n \/ j = n + 1
      BY <3>1
    <3> QED
      BY <2>1, <3>1, <3>2 DEF HasWrite
  <2> HIDE DEF write, queue
  <2>4. \A i \in DOMAIN ready' : IsWriteFor(ready'[i], r) => ready'[i] = write
    BY <1>6, <2>3 DEF FewerFor, Among
  <2> QED
    BY <2>2, <2>4
<1> QED
  BY <1>7, <1>8

\* The row joins the queue of a call that has no row anywhere yet.
LEMMA AuditOnce ==
    ASSUME TypeOK, CarriesWhatIsRead, AuditedIsRpc, AllOnce, NEW r \in Requests, Audit(r)
    PROVE  AllOnce'
<1>1. /\ UNCHANGED <<input, store, lost>>
      /\ pc[r] = "audit_up" /\ pc' = [pc EXCEPT ![r] = "request_id_up"]
  BY DEF Audit, Runs, sent, audit
<1> SUFFICES ASSUME NEW q \in Requests
             PROVE  Once(q)'
  BY DEF AllOnce
<1>2. Once(q)
  BY DEF AllOnce
<1>3. CASE q # r
  <2>1. /\ HasWrite(ready', q) => HasWrite(ready, q)
        /\ OneWrite(ready, q) => OneWrite(ready', q)
    BY <1>3, AuditQueue, FewerHas DEF FewerFor
  <2>2. pc'[q] = pc[q]
    BY <1>1, <1>3 DEF TypeOK
  <2> QED
    BY <1>1, <1>2, <2>1, <2>2 DEF Once, OneStored, OneLost, InStore, InLost, IsRpc
<1>4. CASE q = r
  <2>1. ~InStore(r) /\ ~InLost(r) /\ ~HasWrite(ready, r)
    BY <1>1, <1>2, <1>4 DEF Once, PastAudit
  <2>2. OneWrite(ready', r)
    BY <2>1, AuditQueue
  <2>3. IsRpc(r) /\ pc'[r] \in PastAudit
    BY <1>1 DEF AuditedIsRpc, TypeOK, PastAudit
  <2> QED
    BY <1>1, <1>2, <1>4, <2>1, <2>2, <2>3
    DEF Once, OneStored, OneLost, InStore, InLost, IsRpc
<1> QED
  BY <1>3, <1>4

\* The row leaves the queue for the store or for the lost rows.
LEMMA WriteOnce ==
    ASSUME TypeOK, AllOnce, AuditWrite
    PROVE  AllOnce'
<1> DEFINE row == Head(ready)[2]
<1>1. /\ ready \in Seq(Tasks) /\ ready # <<>> /\ ready' = Tail(ready)
      /\ IsWrite(Head(ready)) /\ pc' = pc /\ input' = input /\ store \in Seq(Rows)
  BY DEF TypeOK, AuditWrite, sent
<1> SUFFICES ASSUME NEW q \in Requests
             PROVE  Once(q)'
  BY DEF AllOnce
<1>2. Once(q) /\ (IsWriteFor(Head(ready), q) <=> row.call = q)
  BY <1>1 DEF AllOnce, IsWriteFor
<1>3. /\ HasWrite(ready', q) => HasWrite(ready, q)
      /\ OneWrite(ready', q)
      /\ row.call = q => HasWrite(ready, q) /\ ~HasWrite(ready', q)
  <2>1. IsWriteFor(Head(ready), q) => HasWrite(ready, q)
    <3>1. 1 \in DOMAIN ready /\ ready[1] = Head(ready)
      BY <1>1, TailPlaces
    <3> QED
      BY <3>1 DEF HasWrite
  <2> QED
    BY <1>1, <1>2, <2>1, TailFewer DEF Once, Among, HasWrite
<1>4. row.call = q => ~InStore(q) /\ ~InLost(q)
  BY <1>2, <1>3 DEF Once
<1>5. CASE store' = Append(store, row) /\ lost' = lost
  <2> DEFINE n == Len(store)
  <2>1. /\ n \in Nat /\ DOMAIN store = 1 .. n /\ DOMAIN store' = 1 .. n + 1
        /\ store'[n + 1] = row /\ \A i \in 1 .. n : store'[i] = store[i]
    BY <1>1, <1>5
  <2> HIDE DEF n, row
  <2>2. \A j \in 1 .. n + 1 : j \in 1 .. n \/ j = n + 1
    BY <2>1
  <2>3. InStore(q)' => InStore(q) \/ row.call = q
    BY <2>1, <2>2 DEF InStore
  <2>4. OneStored(q)'
    <3>1. CASE row.call = q
      <4>1. \A j \in 1 .. n : store[j].call # q
        BY <1>4, <2>1, <3>1 DEF InStore
      <4> QED
        BY <2>1, <2>2, <4>1 DEF OneStored
    <3>2. CASE row.call # q
      BY <1>2, <2>1, <2>2, <3>2 DEF Once, OneStored
    <3> QED
      BY <3>1, <3>2
  <2> QED
    BY <1>1, <1>2, <1>3, <1>4, <1>5, <2>3, <2>4
    DEF Once, OneLost, InLost, IsRpc
<1>6. ASSUME NEW why, store' = store, lost' = lost \union {<<row, why>>}
      PROVE  Once(q)'
  <2> DEFINE entry == <<row, why>>
  <2>1. entry[1] = row
    OBVIOUS
  <2> HIDE DEF row, entry
  <2>2. lost' = lost \union {entry}
    BY <1>6 DEF entry
  <2>3. InLost(q)' => InLost(q) \/ row.call = q
    BY <2>1, <2>2 DEF InLost
  <2>4. OneLost(q)'
    <3>1. CASE row.call = q
      <4>1. \A l \in lost : l[1].call # q
        BY <1>4, <3>1 DEF InLost
      <4> QED
        BY <2>2, <4>1 DEF OneLost
    <3>2. CASE row.call # q
      BY <1>2, <2>1, <2>2, <3>2 DEF Once, OneLost
    <3> QED
      BY <3>1, <3>2
  <2> QED
    BY <1>1, <1>2, <1>3, <1>4, <1>6, <2>3, <2>4
    DEF Once, OneStored, InStore, IsRpc
<1> QED
  BY <1>5, <1>6 DEF AuditWrite, StoreWrite

\* A crash turns the row that waits for its write into a lost one.
LEMMA CrashOnce ==
    ASSUME TypeOK, AllOnce, Crash
    PROVE  AllOnce'
<1> SUFFICES ASSUME NEW q \in Requests
             PROVE  Once(q)'
  BY DEF AllOnce
<1>1. /\ Once(q) /\ ready' = <<>> /\ store' = store /\ input' = input
      /\ lost' = lost \union {<<row, "crash">> : row \in PendingRows}
      /\ pc[q] \in PastAudit => pc'[q] \in PastAudit
  BY DEF AllOnce, Crash, sent, PastAudit
<1>2. ~HasWrite(ready', q) /\ OneWrite(ready', q)
  BY <1>1 DEF HasWrite, OneWrite
<1>3. ASSUME NEW l \in lost', l \notin lost
      PROVE  \E i \in DOMAIN ready : /\ IsWrite(ready[i]) /\ l = <<ready[i][2], "crash">>
                                     /\ l[1].call = q <=> IsWriteFor(ready[i], q)
  BY <1>1, <1>3 DEF PendingRows, IsWriteFor
<1>4. InLost(q)' => InLost(q) \/ HasWrite(ready, q)
  BY <1>3 DEF InLost, HasWrite
<1>5. OneLost(q)'
  <2> SUFFICES ASSUME NEW l \in lost', NEW m \in lost', l[1].call = q, m[1].call = q
               PROVE  l = m
    BY DEF OneLost
  <2>1. CASE l \in lost /\ m \in lost
    BY <1>1, <2>1 DEF Once, OneLost
  <2>2. CASE l \in lost /\ m \notin lost
    BY <1>1, <1>3, <2>2 DEF Once, InLost, HasWrite
  <2>3. CASE l \notin lost /\ m \in lost
    BY <1>1, <1>3, <2>3 DEF Once, InLost, HasWrite
  <2>4. CASE l \notin lost /\ m \notin lost
    <3>1. PICK i \in DOMAIN ready : l = <<ready[i][2], "crash">> /\ IsWriteFor(ready[i], q)
      BY <1>3, <2>4
    <3>2. PICK j \in DOMAIN ready : m = <<ready[j][2], "crash">> /\ IsWriteFor(ready[j], q)
      BY <1>3, <2>4
    <3>3. i = j
      BY <1>1, <3>1, <3>2 DEF Once, OneWrite
    <3> QED
      BY <3>1, <3>2, <3>3
  <2> QED
    BY <2>1, <2>2, <2>3, <2>4
<1> QED
  BY <1>1, <1>2, <1>4, <1>5 DEF Once, OneStored, InStore, IsRpc

LEMMA OnceAlways == Spec => [](AuditedIsRpc /\ AllOnce)
<1> DEFINE IInv == AuditedIsRpc /\ AllOnce
<1>1. Init => IInv
  BY DEF Init, AuditedIsRpc, AllOnce, Once, OneStored, OneLost, OneWrite,
     InStore, InLost, HasWrite
<1>2. TypeOK /\ CarriesWhatIsRead /\ IInv /\ [Next]_vars => IInv'
  <2> SUFFICES ASSUME TypeOK, CarriesWhatIsRead, IInv, [Next]_vars
               PROVE  IInv'
    OBVIOUS
  <2>1. /\ \A q \in Requests : pc[q] \in PastAudit => pc'[q] \in PastAudit
        /\ \A q \in Requests : pc'[q] = "audit_up" => IsRpc(q)
    BY PastAuditStays
  <2>2. AuditedIsRpc'
    BY <2>1, NothingUndone DEF AuditedIsRpc, IsRpc
  <2>3. AllOnce'
    BY <2>1, Steps, QuietOnce, AuditOnce, WriteOnce, CrashOnce
  <2> QED
    BY <2>2, <2>3
<1> QED
  BY <1>1, <1>2, TypeCorrect, AlwaysCarries, PTL DEF Spec

\* How many elements a set has whose elements are all the same.
LEMMA AtMostOne ==
    ASSUME NEW S, \A x, y \in S : x = y
    PROVE  Cardinality(S) = IF S = {} THEN 0 ELSE 1
<1>1. CASE S = {}
  BY <1>1, FS_EmptySet
<1>2. CASE S # {}
  <2>1. PICK x : S = {x}
    BY <1>2
  <2> QED
    BY <1>2, <2>1, FS_Singleton
<1> QED
  BY <1>1, <1>2

\* Each call under /rpc/ leaves one row once its response has passed the audit
\* middleware, and no other call leaves any, through crashes, refused writes
\* and the shutdown (audit.py:87-144).
THEOREM AlwaysOneRowPerCall == Spec => []OneRowPerCall
<1>1. WritesGoFirst /\ AllOnce => OneRowPerCall
  <2> SUFFICES ASSUME WritesGoFirst, AllOnce, NEW r \in Requests
               PROVE  LET rows == Cardinality(StoredFor(r)) + Cardinality(PendingFor(r))
                                      + Cardinality(LostFor(r))
                      IN  /\ rows <= 1
                          /\ pc[r] \in {"request_id_up", "done"} => (rows = 1 <=> IsRpc(r))
                          /\ rows = 1 => IsRpc(r) /\ pc[r] \in {"request_id_up", "done", "gone"}
    BY DEF OneRowPerCall
  <2> DEFINE stored  == Cardinality(StoredFor(r))
             pending == Cardinality(PendingFor(r))
             gone    == Cardinality(LostFor(r))
  <2>1. Once(r)
    BY DEF AllOnce
  <2>2. stored = IF InStore(r) THEN 1 ELSE 0
    <3>1. \A i, j \in StoredFor(r) : i = j
      BY <2>1 DEF Once, OneStored, StoredFor
    <3>2. StoredFor(r) = {} <=> ~InStore(r)
      BY DEF StoredFor, InStore
    <3> QED
      BY <3>1, <3>2, AtMostOne
  <2>3. pending = IF HasWrite(ready, r) THEN 1 ELSE 0
    <3>1. \A row \in PendingFor(r) : \E i \in DOMAIN ready :
              row = ready[i][2] /\ IsWriteFor(ready[i], r)
      BY DEF PendingFor, PendingRows, IsWriteFor
    <3>2. \A x, y \in PendingFor(r) : x = y
      BY <2>1, <3>1 DEF Once, OneWrite
    <3>3. PendingFor(r) = {} <=> ~HasWrite(ready, r)
      BY <3>1 DEF PendingFor, PendingRows, HasWrite, IsWriteFor
    <3> QED
      BY <3>2, <3>3, AtMostOne
  <2>4. gone = IF InLost(r) THEN 1 ELSE 0
    <3>1. \A l, m \in LostFor(r) : l = m
      BY <2>1 DEF Once, OneLost, LostFor
    <3>2. LostFor(r) = {} <=> ~InLost(r)
      BY DEF LostFor, InLost
    <3> QED
      BY <3>1, <3>2, AtMostOne
  <2>5. pc[r] \in {"request_id_up", "done"} /\ IsRpc(r) =>
            InStore(r) \/ InLost(r) \/ HasWrite(ready, r)
    BY DEF WritesGoFirst, Settled, InStore, InLost, HasWrite
  <2> HIDE DEF stored, pending, gone
  <2>6. /\ stored + pending + gone <= 1
        /\ stored + pending + gone = 1 <=>
              InStore(r) \/ InLost(r) \/ HasWrite(ready, r)
    BY <2>1, <2>2, <2>3, <2>4 DEF Once
  <2> QED
    BY <2>1, <2>5, <2>6 DEF Once, PastAudit, stored, pending, gone
<1> QED
  BY <1>1, OnceAlways, WritesAlwaysGoFirst, PTL

-----------------------------------------------------------------------------
(***************************************************************************)
(* What a row tells.                                                       *)
(***************************************************************************)
\* The layers of a call whose key has been looked at.
Identified == {"ratelimit", "handler", "metabase", "telemetry_up", "audit_up"}

KeyKnown(r) == input[r].key \in Keys => consumer[r] # None

ReplyOf(r) ==
    [status     |-> IF outcome[r] = Exception THEN 500 ELSE outcome[r].status,
     code       |-> IF outcome[r] = Exception THEN "INTERNAL_ERROR"
                    ELSE outcome[r].code,
     request_id |-> request_id[r]]

\* The rows there are, wherever they are.
Held == {store[i] : i \in DOMAIN store} \union {l[1] : l \in lost} \union PendingRows

\* Every row is the record of its call as the call still stands, an RPC whose
\* key was looked at.
Told(r) ==
    /\ pc[r] \in Identified /\ IsRpc(r) => KeyKnown(r)
    /\ \A row \in Held : row.call = r => row = Record(r) /\ KeyKnown(r) /\ outcome[r] # None
    /\ pc[r] = "done" => reply[r] = ReplyOf(r)

AllTold == \A r \in Requests : Told(r)

\* What a step changes of a call, by its layer.
LEMMA StepOfOne ==
    ASSUME TypeOK, NEW r \in Requests, NEW q \in Requests,
           \/ CallStep(r)
           \/ Arrive(r) \/ BodyArrives(r) \/ ClientDisconnects(r) \/ MetabaseAnswers(r)
    PROVE  /\ q # r => /\ pc'[q] = pc[q] /\ request_id'[q] = request_id[q]
                       /\ consumer'[q] = consumer[q] /\ outcome'[q] = outcome[q]
                       /\ reply'[q] = reply[q]
           /\ pc[r] \in PastAudit => /\ Reply(r)
           /\ Reply(r) => /\ request_id'[r] = request_id[r] /\ consumer'[r] = consumer[r]
                          /\ outcome'[r] = outcome[r] /\ reply'[r] = ReplyOf(r)
                          /\ pc'[r] = "done"
           /\ pc'[r] = "done" => Reply(r)
<1>1. q # r => /\ pc'[q] = pc[q] /\ request_id'[q] = request_id[q]
               /\ consumer'[q] = consumer[q] /\ outcome'[q] = outcome[q]
               /\ reply'[q] = reply[q]
  BY DEF TypeOK, CallStep, RequestID, ReadBody, AuthBypassed, AuthRejects, AuthAccepts,
         RateLimitBypassed, RateLimitAdmits, RateLimitDenies, Handler, Telemetry, Audit,
         Reply, Arrive, BodyArrives, ClientDisconnects, MetabaseAnswers,
         NoRoute, RedirectsSlash, WrongMethod, BodyNotJson, ScopeMissing, BodyInvalid,
         AnswersLocally, ReadAudit, MetabaseNotConfigured, PostQuery, GetHealth,
         Answers, Responds, GoesTo, WaitsAt, Resumes, sent, state
<1>2. pc[r] \in PastAudit => Reply(r)
  BY DEF CallStep, RequestID, ReadBody, AuthBypassed, AuthRejects, AuthAccepts,
         RateLimitBypassed, RateLimitAdmits, RateLimitDenies, Handler, Telemetry,
         Audit, Arrive, BodyArrives, ClientDisconnects, MetabaseAnswers, Runs,
         PastAudit
<1>3. Reply(r) => /\ request_id'[r] = request_id[r] /\ consumer'[r] = consumer[r]
                  /\ outcome'[r] = outcome[r] /\ reply'[r] = ReplyOf(r)
                  /\ pc'[r] = "done"
  BY DEF TypeOK, Reply, ReplyOf, WaitsAt, state
<1>4. ~Reply(r) => pc'[r] # "done"
  <2>1. CASE Handler(r)
    BY <2>1, FirstUpType DEF TypeOK, Handler, NoRoute, RedirectsSlash, WrongMethod,
       BodyNotJson, ScopeMissing, BodyInvalid, AnswersLocally, ReadAudit,
       MetabaseNotConfigured, PostQuery, GetHealth, Answers, Responds, GoesTo,
       WaitsAt
  <2>2. CASE ~Handler(r)
    BY <2>2, FirstUpType DEF TypeOK, CallStep, RequestID, ReadBody, AuthBypassed,
       AuthRejects, AuthAccepts, RateLimitBypassed, RateLimitAdmits,
       RateLimitDenies, Telemetry, Audit, Arrive, BodyArrives, ClientDisconnects,
       MetabaseAnswers, Responds, GoesTo, WaitsAt, Resumes
  <2> QED
    BY <2>1, <2>2
<1> QED
  BY <1>1, <1>2, <1>3, <1>4

\* What is past the audit middleware is not changed any more.
LEMMA Frozen ==
    ASSUME TypeOK, [Next]_vars, NEW q \in Requests
    PROVE  /\ pc[q] \in PastAudit => /\ Record(q)' = Record(q)
                                     /\ consumer'[q] = consumer[q]
                                     /\ outcome'[q] = outcome[q]
                                     /\ ReplyOf(q)' = ReplyOf(q)
           /\ pc'[q] = "done" => \/ pc[q] = "done" /\ reply'[q] = reply[q]
                                 \/ reply'[q] = ReplyOf(q)' /\ pc[q] = "request_id_up"
<1>1. ASSUME NEW r \in Requests,
             \/ CallStep(r)
             \/ Arrive(r) \/ BodyArrives(r) \/ ClientDisconnects(r) \/ MetabaseAnswers(r)
      PROVE  /\ pc[q] \in PastAudit => /\ consumer'[q] = consumer[q]
                                       /\ outcome'[q] = outcome[q]
                                       /\ request_id'[q] = request_id[q]
             /\ pc'[q] = "done" => \/ pc[q] = "done" /\ reply'[q] = reply[q]
                                   \/ reply'[q] = ReplyOf(q)' /\ pc[q] = "request_id_up"
  <2>1. CASE q # r
    BY <1>1, <2>1, StepOfOne DEF PastAudit
  <2>2. CASE q = r /\ Reply(r)
    <3>1. pc[r] = "request_id_up"
      BY <2>2 DEF Reply, Runs
    <3>2. /\ request_id'[r] = request_id[r] /\ consumer'[r] = consumer[r]
          /\ outcome'[r] = outcome[r] /\ reply'[r] = ReplyOf(r)
      BY <1>1, <2>2, StepOfOne
    <3> QED
      BY <2>2, <3>1, <3>2 DEF ReplyOf
  <2>3. CASE q = r /\ ~Reply(r)
    BY <1>1, <2>3, StepOfOne
  <2> QED
    BY <2>1, <2>2, <2>3
<1>2. CASE UNCHANGED <<pc, request_id, consumer, outcome, reply>>
  BY <1>2, NothingUndone DEF Record, ReplyOf, CallerType
<1>3. CASE Crash
  <2>1. UNCHANGED <<request_id, consumer, outcome, reply>> /\ (pc'[q] = "done" => pc[q] = "done")
    BY <1>3 DEF Crash, state
  <2> QED
    BY <2>1, NothingUndone DEF Record, ReplyOf, CallerType
<1>4. AuditWrite \/ (\E b \in Buckets : WindowElapses(b)) \/ StopAccepting \/ Close
          \/ UNCHANGED vars => UNCHANGED <<pc, request_id, consumer, outcome, reply>>
  BY DEF AuditWrite, WindowElapses, StopAccepting, Close, vars, state
<1>5. ASSUME pc[q] \in PastAudit => /\ consumer'[q] = consumer[q]
                                    /\ outcome'[q] = outcome[q]
                                    /\ request_id'[q] = request_id[q]
      PROVE  pc[q] \in PastAudit => /\ Record(q)' = Record(q)
                                    /\ consumer'[q] = consumer[q]
                                    /\ outcome'[q] = outcome[q]
                                    /\ ReplyOf(q)' = ReplyOf(q)
  BY <1>5, NothingUndone DEF Record, ReplyOf, CallerType
<1> QED
  BY <1>1, <1>2, <1>3, <1>4, <1>5 DEF Next, LoopStep

\* A call's key is looked at once, on the way to the rate limiter.
LEMMA IdentifiedStays ==
    ASSUME TypeOK, [Next]_vars, NEW q \in Requests,
           pc[q] \in Identified /\ IsRpc(q) => KeyKnown(q),
           pc'[q] \in Identified, IsRpc(q)
    PROVE  KeyKnown(q)'
<1>1. input' = input
  BY NothingUndone
<1>2. CASE pc[q] \in Identified /\ consumer'[q] = consumer[q]
  BY <1>1, <1>2 DEF KeyKnown
<1>3. CASE AuthRejects(q)
  BY <1>1, <1>3 DEF AuthRejects, KeyKnown
<1>4. CASE AuthAccepts(q)
  <2>1. consumer'[q] = KeyToIdentity[input[q].key] /\ input[q].key \in Keys
    BY <1>4 DEF AuthAccepts, TypeOK
  <2> QED
    BY <2>1, KeysAssumption, NoneAssumption DEF KeyKnown
<1>5. ~AuthBypassed(q)
  BY DEF AuthBypassed, IsPublic, IsRpc, PublicPaths, RpcPaths
<1>6. CASE CallStep(q) /\ ~AuthRejects(q) /\ ~AuthAccepts(q)
  <2>1. CASE Handler(q)
    BY <1>2, <2>1 DEF Identified, Handler, NoRoute, RedirectsSlash, WrongMethod,
       BodyNotJson, ScopeMissing, BodyInvalid, AnswersLocally, ReadAudit,
       MetabaseNotConfigured, PostQuery, GetHealth, Answers, Runs, state
  <2>2. CASE ~Handler(q)
    BY <1>2, <1>5, <1>6, <2>2 DEF TypeOK, Identified, CallStep, RequestID, ReadBody,
       RateLimitBypassed, RateLimitAdmits, RateLimitDenies, Telemetry, Audit,
       Reply, Runs, GoesTo, WaitsAt, state
  <2> QED
    BY <2>1, <2>2
<1>7. CASE Arrive(q) \/ BodyArrives(q) \/ ClientDisconnects(q) \/ MetabaseAnswers(q)
  BY <1>2, <1>7 DEF TypeOK, Identified, Arrive, BodyArrives, ClientDisconnects,
     MetabaseAnswers, Resumes, state
<1>8. ASSUME NEW r \in Requests, r # q,
             \/ CallStep(r)
             \/ Arrive(r) \/ BodyArrives(r) \/ ClientDisconnects(r) \/ MetabaseAnswers(r)
      PROVE  KeyKnown(q)'
  BY <1>2, <1>8, StepOfOne
<1>9. CASE Crash
  BY <1>9 DEF Crash, Identified
<1>10. AuditWrite \/ (\E b \in Buckets : WindowElapses(b)) \/ StopAccepting \/ Close
          \/ UNCHANGED vars => UNCHANGED <<pc, consumer>>
  BY DEF AuditWrite, WindowElapses, StopAccepting, Close, vars, state
<1> QED
  BY <1>2, <1>3, <1>4, <1>6, <1>7, <1>8, <1>9, <1>10 DEF Next, LoopStep

LEMMA HeldIsPlaced ==
    ASSUME NEW row \in Held
    PROVE  InStore(row.call) \/ InLost(row.call) \/ HasWrite(ready, row.call)
BY DEF Held, PendingRows, InStore, InLost, HasWrite, IsWriteFor

\* Told, when the step adds no row of q's.
LEMMA ToldStays ==
    ASSUME TypeOK, AllOnce, AllTold, [Next]_vars, NEW q \in Requests,
           \A row \in Held' : row.call = q => row \in Held
    PROVE  Told(q)'
<1>1. Told(q)
  BY DEF AllTold
<1>2. IsRpc(q)' <=> IsRpc(q)
  BY NothingUndone DEF IsRpc
<1>3. (pc[q] \in Identified /\ IsRpc(q) => KeyKnown(q))'
  BY <1>1, <1>2, IdentifiedStays DEF Told
<1>4. ASSUME NEW row \in Held', row.call = q
      PROVE  row = Record(q)' /\ KeyKnown(q)' /\ outcome'[q] # None
  <2>1. row \in Held
    BY <1>4
  <2>2. pc[q] \in PastAudit
    BY <1>4, <2>1, HeldIsPlaced DEF AllOnce, Once
  <2>3. /\ Record(q)' = Record(q) /\ consumer'[q] = consumer[q]
        /\ outcome'[q] = outcome[q] /\ input' = input
    BY <2>2, Frozen, NothingUndone
  <2>4. row = Record(q) /\ KeyKnown(q) /\ outcome[q] # None
    BY <1>1, <1>4, <2>1 DEF Told
  <2> QED
    BY <2>3, <2>4 DEF KeyKnown
<1>5. pc'[q] = "done" => reply'[q] = ReplyOf(q)'
  BY <1>1, Frozen DEF Told, PastAudit
<1> QED
  BY <1>3, <1>4, <1>5 DEF Told

\* The rows of the queue, after writes of another.
LEMMA AmongPending ==
    ASSUME NEW q, Among(ready', ready, q), NEW row \in PendingRows', row.call = q
    PROVE  row \in PendingRows
<1>1. PICK i \in DOMAIN ready' : IsWrite(ready'[i]) /\ row = ready'[i][2]
  BY DEF PendingRows, IsWrite
<1>2. PICK j \in DOMAIN ready : ready[j] = ready'[i]
  BY <1>1 DEF Among, IsWriteFor
<1> QED
  BY <1>1, <1>2 DEF PendingRows

LEMMA QuietHeld ==
    ASSUME NEW q \in Requests, Among(ready', ready, q), UNCHANGED <<store, lost>>,
           NEW row \in Held', row.call = q
    PROVE  row \in Held
BY AmongPending DEF Held

\* The audit middleware queues the record of its own call.
LEMMA AuditTold ==
    ASSUME TypeOK, CarriesWhatIsRead, AuditedIsRpc, AllOnce, AllTold, [Next]_vars,
           NEW r \in Requests, Audit(r)
    PROVE  AllTold'
<1> SUFFICES ASSUME NEW q \in Requests
             PROVE  Told(q)'
  BY DEF AllTold
<1>1. /\ UNCHANGED <<input, store, lost, request_id, consumer, outcome>>
      /\ pc[r] = "audit_up" /\ pc' = [pc EXCEPT ![r] = "request_id_up"]
  BY DEF Audit, Runs, sent, state, audit
<1>2. CASE q # r
  BY <1>1, <1>2, AuditQueue, QuietHeld, ToldStays DEF FewerFor
<1>3. CASE q = r
  <2>1. ~InStore(r) /\ ~InLost(r) /\ ~HasWrite(ready, r)
    BY <1>1 DEF AllOnce, Once, PastAudit
  <2>2. /\ Record(r)' = Record(r) /\ KeyKnown(r)' /\ outcome'[r] # None
    <3>1. KeyKnown(r) /\ outcome[r] # None
      BY <1>1 DEF AllTold, Told, Identified, AuditedIsRpc, CarriesWhatIsRead
    <3> QED
      BY <1>1, <3>1 DEF Record, CallerType, KeyKnown
  <2>3. ASSUME NEW row \in Held', row.call = r
        PROVE  row = Record(r)
    <3>1. row \in PendingRows'
      BY <1>1, <2>1, <2>3 DEF Held, InStore, InLost
    <3>2. PICK i \in DOMAIN ready' : IsWrite(ready'[i]) /\ row = ready'[i][2]
      BY <3>1 DEF PendingRows, IsWrite
    <3>3. ready'[i] = WriteTask(Record(r))
      BY <2>1, <2>3, <3>2, AuditQueue DEF IsWriteFor
    <3> QED
      BY <3>2, <3>3 DEF WriteTask
  <2>4. pc'[r] = "request_id_up"
    BY <1>1 DEF TypeOK
  <2> QED
    BY <1>3, <2>2, <2>3, <2>4 DEF Told, Identified
<1> QED
  BY <1>2, <1>3

\* The store, or the lost rows, have the row as it was queued.
LEMMA WriteHeld ==
    ASSUME TypeOK, AuditWrite
    PROVE  Held' \subseteq Held
<1> DEFINE written == Head(ready)[2]
<1>1. /\ ready \in Seq(Tasks) /\ ready # <<>> /\ ready' = Tail(ready)
      /\ IsWrite(Head(ready)) /\ store \in Seq(Rows)
  BY DEF TypeOK, AuditWrite
<1>2. written \in PendingRows
  <2>1. 1 \in DOMAIN ready /\ ready[1] = Head(ready)
    BY <1>1, TailPlaces
  <2> QED
    BY <1>1, <2>1 DEF PendingRows
<1>3. PendingRows' \subseteq PendingRows
  <2>1. \A i \in DOMAIN Tail(ready) : \E j \in DOMAIN ready : ready[j] = Tail(ready)[i]
    <3>1. \A i \in 1 .. Len(ready) - 1 : i + 1 \in 1 .. Len(ready)
      BY <1>1, TailPlaces
    <3> QED
      BY <1>1, <3>1, TailPlaces
  <2> QED
    BY <1>1, <2>1 DEF PendingRows, IsWrite
<1>4. \A i \in DOMAIN store' : (\E j \in DOMAIN store : store'[i] = store[j]) \/ store'[i] = written
  <2>1. CASE store' = store
    BY <2>1
  <2>2. CASE store' = Append(store, written)
    <3>1. \A i \in DOMAIN Append(store, written) :
              \/ i \in DOMAIN store /\ Append(store, written)[i] = store[i]
              \/ Append(store, written)[i] = written
      BY <1>1
    <3> QED
      BY <2>2, <3>1
  <2> QED
    BY <2>1, <2>2 DEF AuditWrite, StoreWrite
<1>5. \A l \in lost' : l \in lost \/ l[1] = written
  BY DEF AuditWrite
<1> HIDE DEF written
<1> QED
  BY <1>2, <1>3, <1>4, <1>5 DEF Held

LEMMA CrashHeld ==
    ASSUME Crash
    PROVE  Held' \subseteq Held
<1>1. store' = store /\ PendingRows' = {}
  BY DEF Crash, PendingRows
<1>2. \A l \in lost' : l \in lost \/ l[1] \in PendingRows
  BY DEF Crash
<1> QED
  BY <1>1, <1>2 DEF Held

LEMMA ToldAlways == Spec => []AllTold
<1>1. Init => AllTold
  BY DEF Init, AllTold, Told, Held, PendingRows, Identified
<1>2. TypeOK /\ CarriesWhatIsRead /\ AuditedIsRpc /\ AllOnce /\ AllTold /\ [Next]_vars
          => AllTold'
  <2> SUFFICES ASSUME TypeOK, CarriesWhatIsRead, AuditedIsRpc, AllOnce, AllTold, [Next]_vars
               PROVE  AllTold'
    OBVIOUS
  <2>1. CASE Quiet
    <3>1. UNCHANGED <<store, lost>> /\ \A q \in Requests : Among(ready', ready, q)
      BY <2>1 DEF Quiet, Fewer, FewerFor
    <3> QED
      BY <3>1, QuietHeld, ToldStays DEF AllTold
  <2>2. CASE AuditWrite \/ Crash
    BY <2>2, WriteHeld, CrashHeld, ToldStays DEF AllTold
  <2> QED
    BY <2>1, <2>2, Steps, AuditTold
<1> QED
  BY <1>1, <1>2, TypeCorrect, AlwaysCarries, OnceAlways, PTL DEF Spec

\* A row names the consumer whose key the call carried, and tells the request
\* id, the status and the error the client saw, whatever other calls, refused
\* writes and crashes come in between (audit.py:104-138, README.md:268).
THEOREM RowsAlwaysTellTheTruth == Spec => []RowsTellTheTruth
<1>1. TypeOK /\ CarriesWhatIsRead /\ AllTold => RowsTellTheTruth
  <2> SUFFICES ASSUME TypeOK, CarriesWhatIsRead, AllTold, NEW i \in DOMAIN store
               PROVE  LET row == store[i]
                          r   == row.call
                      IN  /\ row.caller_id = IF input[r].key \in Keys
                                             THEN KeyToIdentity[input[r].key].id ELSE None
                          /\ pc[r] = "done" =>
                              /\ row.request_id = reply[r].request_id
                              /\ row.status = "success" <=> reply[r].status < 400
                              /\ \/ row.error_code = reply[r].code
                                 \/ reply[r].status = 500 /\ row.error_code = "exception"
    BY DEF RowsTellTheTruth
  <2> DEFINE r == store[i].call
  <2>1. r \in Requests
    <3>1. store[i] \in Rows
      BY DEF TypeOK
    <3> QED
      BY <3>1 DEF Rows
  <2>2. /\ Told(r) /\ store[i] = Record(r)
        /\ KeyKnown(r) /\ outcome[r] # None
    BY <2>1 DEF AllTold, Told, Held
  <2>3. consumer[r] # None =>
            input[r].key \in Keys /\ consumer[r] = KeyToIdentity[input[r].key]
    BY <2>1 DEF CarriesWhatIsRead
  <2>4. outcome[r] \in Responses
    BY <2>1, <2>2 DEF TypeOK
  <2> HIDE DEF r
  <2>5. Record(r).caller_id = IF input[r].key \in Keys
                              THEN KeyToIdentity[input[r].key].id ELSE None
    BY <2>2, <2>3 DEF Record, KeyKnown
  <2>6. /\ Record(r).request_id = ReplyOf(r).request_id
        /\ Record(r).status = "success" <=> ReplyOf(r).status < 400
        /\ \/ Record(r).error_code = ReplyOf(r).code
           \/ ReplyOf(r).status = 500 /\ Record(r).error_code = "exception"
    BY <2>4 DEF Record, ReplyOf, StatusOf, IsSuccess, Responses, Response,
       Success, Redirect, Exception
  <2>7. pc[r] = "done" => reply[r] = ReplyOf(r)
    BY <2>2 DEF Told
  <2> QED
    BY <2>2, <2>5, <2>6, <2>7 DEF r
<1> QED
  BY <1>1, TypeCorrect, AlwaysCarries, ToldAlways, PTL

-----------------------------------------------------------------------------
(***************************************************************************)
(* The counters and the rows.                                              *)
(***************************************************************************)
\* The layers of a call the telemetry middleware is done with.
PastTelemetry == {"audit_up", "request_id_up", "done"}

HasLabel(r, label) ==
    /\ RpcName(input[r].path) # None
    /\ Label(RpcName(input[r].path), CallerType(r), StatusOf(outcome[r])) = label

Counted(label) == {r \in Requests : pc[r] \in PastTelemetry /\ HasLabel(r, label)}

\* Until a crash, a counter is the number of calls counted ...
Metered ==
    crashes = 0 => \A label \in Labels : requests_total[label] = Cardinality(Counted(label))

\* ... and a call whose client left has no row.
GoneHasNoRow ==
    crashes = 0 => \A row \in Held : pc[row.call] # "gone"

\* A call is past the telemetry middleware by Telemetry, or has no label.
LEMMA CountedStays ==
    ASSUME TypeOK, [Next]_vars, ~Crash, NEW q \in Requests, ~Telemetry(q)
    PROVE  /\ pc[q] \in PastTelemetry =>
                 /\ pc'[q] \in PastTelemetry
                 /\ outcome'[q] = outcome[q] /\ consumer'[q] = consumer[q]
           /\ pc'[q] \in PastTelemetry /\ RpcName(input[q].path) # None =>
                 pc[q] \in PastTelemetry
           /\ pc'[q] = "gone" => pc[q] \in {"gone", "body"}
<1>1. ASSUME NEW r \in Requests, r # q,
             \/ CallStep(r)
             \/ Arrive(r) \/ BodyArrives(r) \/ ClientDisconnects(r) \/ MetabaseAnswers(r)
      PROVE  /\ pc'[q] = pc[q] /\ outcome'[q] = outcome[q] /\ consumer'[q] = consumer[q]
  BY <1>1, StepOfOne
<1>2. RpcName(input[q].path) # None => FirstUp(q) = "telemetry_up"
  BY DEF FirstUp
<1>3. CASE Handler(q)
  <2>1. pc[q] = "handler" /\ pc'[q] \in {"metabase", FirstUp(q)}
    BY <1>3 DEF TypeOK, Handler, NoRoute, RedirectsSlash, WrongMethod, BodyNotJson,
       ScopeMissing, BodyInvalid, AnswersLocally, ReadAudit,
       MetabaseNotConfigured, PostQuery, GetHealth, Answers, Responds, Runs,
       GoesTo, WaitsAt
  <2> QED
    BY <1>2, <2>1, FirstUpType DEF PastTelemetry
<1>4. CASE CallStep(q) /\ ~Handler(q)
  <2>1. CASE Audit(q)
    BY <2>1 DEF TypeOK, Audit, Runs, PastTelemetry, state
  <2>2. CASE Reply(q)
    <3>1. pc[q] = "request_id_up"
      BY <2>2 DEF Reply, Runs
    <3>2. /\ pc'[q] = "done" /\ outcome'[q] = outcome[q] /\ consumer'[q] = consumer[q]
      BY <1>4, <2>2, StepOfOne
    <3> QED
      BY <3>1, <3>2 DEF PastTelemetry
  <2>3. CASE AuthRejects(q) \/ RateLimitDenies(q)
    <3>1. pc[q] \in {"auth", "ratelimit"} /\ pc'[q] = FirstUp(q)
      BY <2>3 DEF TypeOK, AuthRejects, RateLimitDenies, Responds, Runs, GoesTo
    <3> QED
      BY <1>2, <3>1, FirstUpType DEF PastTelemetry
  <2>4. CASE ~Audit(q) /\ ~Reply(q) /\ ~AuthRejects(q) /\ ~RateLimitDenies(q)
    <3>1. /\ pc[q] \in {"request_id", "audit", "auth", "ratelimit"}
          /\ pc'[q] \in {"audit", "auth", "body", "ratelimit", "handler"}
      BY <1>4, <2>4 DEF TypeOK, CallStep, RequestID, ReadBody, AuthBypassed,
         AuthAccepts, RateLimitBypassed, RateLimitAdmits, Runs, GoesTo, WaitsAt
    <3> QED
      BY <3>1 DEF PastTelemetry
  <2> QED
    BY <2>1, <2>2, <2>3, <2>4
<1>5. CASE MetabaseAnswers(q)
  <2>1. pc[q] = "metabase" /\ pc'[q] = FirstUp(q)
    BY <1>5 DEF TypeOK, MetabaseAnswers, Resumes
  <2> QED
    BY <1>2, <2>1, FirstUpType DEF PastTelemetry
<1>6. CASE Arrive(q) \/ BodyArrives(q) \/ ClientDisconnects(q)
  <2>1. /\ pc[q] \in {"idle", "body"} /\ pc'[q] \in {"request_id", "auth", "gone"}
        /\ pc'[q] = "gone" => pc[q] = "body"
    BY <1>6 DEF TypeOK, Arrive, BodyArrives, ClientDisconnects, Resumes
  <2> QED
    BY <2>1 DEF PastTelemetry
<1>7. AuditWrite \/ (\E b \in Buckets : WindowElapses(b)) \/ StopAccepting \/ Close
          \/ UNCHANGED vars => UNCHANGED <<pc, consumer, outcome>>
  BY DEF AuditWrite, WindowElapses, StopAccepting, Close, vars, state
<1>8. CASE \E r \in Requests :
              \/ CallStep(r)
              \/ Arrive(r) \/ BodyArrives(r) \/ ClientDisconnects(r) \/ MetabaseAnswers(r)
  <2>1. PICK r \in Requests :
              \/ CallStep(r)
              \/ Arrive(r) \/ BodyArrives(r) \/ ClientDisconnects(r) \/ MetabaseAnswers(r)
    BY <1>8
  <2>2. CASE r = q
    BY <1>3, <1>4, <1>5, <1>6, <2>1, <2>2
  <2>3. CASE r # q
    BY <1>1, <2>1, <2>3
  <2> QED
    BY <2>2, <2>3
<1> QED
  BY <1>7, <1>8 DEF Next, LoopStep

\* A call that Telemetry does not count keeps its place among the counted.
LEMMA SameCounted ==
    ASSUME TypeOK, [Next]_vars, ~Crash, NEW q \in Requests, ~Telemetry(q), NEW label
    PROVE  q \in Counted(label)' <=> q \in Counted(label)
<1>1. input' = input
  BY NothingUndone
<1>2. CASE pc[q] \in PastTelemetry
  BY <1>1, <1>2, CountedStays DEF Counted, HasLabel, CallerType
<1>3. CASE pc[q] \notin PastTelemetry
  BY <1>1, <1>3, CountedStays DEF Counted, HasLabel
<1> QED
  BY <1>2, <1>3

LEMMA CountersChange ==
    ASSUME [Next]_vars, ~Crash
    PROVE  (\E r \in Requests : Telemetry(r)) \/ requests_total' = requests_total
BY ZenonT(100) DEF Next, LoopStep, AuditWrite, CallStep, RequestID, ReadBody,
     AuthBypassed, AuthRejects, AuthAccepts, RateLimitBypassed, RateLimitAdmits,
     RateLimitDenies, Handler, NoRoute, RedirectsSlash, WrongMethod, BodyNotJson,
     ScopeMissing, BodyInvalid, AnswersLocally, ReadAudit, MetabaseNotConfigured,
     PostQuery, GetHealth, Answers, Audit, Reply, Arrive, BodyArrives,
     ClientDisconnects, MetabaseAnswers, WindowElapses, StopAccepting, Close, vars

LEMMA NoCrashYet ==
    ASSUME TypeOK, [Next]_vars, crashes' = 0
    PROVE  crashes = 0 /\ ~Crash
<1>1. crashes \in Nat
  BY CrashesAssumption DEF TypeOK
<1>2. ~Crash
  BY <1>1 DEF Crash
<1>3. crashes' = crashes
  BY <1>2, ZenonT(100) DEF Next, LoopStep, AuditWrite, CallStep, RequestID, ReadBody,
     AuthBypassed, AuthRejects, AuthAccepts, RateLimitBypassed, RateLimitAdmits,
     RateLimitDenies, Handler, NoRoute, RedirectsSlash, WrongMethod, BodyNotJson,
     ScopeMissing, BodyInvalid, AnswersLocally, ReadAudit, MetabaseNotConfigured,
     PostQuery, GetHealth, Answers, Telemetry, Audit, Reply, Arrive, BodyArrives,
     ClientDisconnects, MetabaseAnswers, WindowElapses, StopAccepting, Close,
     vars, process
<1> QED
  BY <1>2, <1>3

LEMMA MeteredStep ==
    ASSUME TypeOK, CarriesWhatIsRead, Metered, [Next]_vars
    PROVE  Metered'
<1> SUFFICES ASSUME crashes' = 0, NEW label \in Labels
             PROVE  requests_total'[label] = Cardinality(Counted(label)')
  BY DEF Metered
<1>1. crashes = 0 /\ ~Crash /\ requests_total[label] = Cardinality(Counted(label))
  BY NoCrashYet DEF Metered
<1>2. Counted(label) \subseteq Requests /\ Counted(label)' \subseteq Requests
  BY DEF Counted
<1>3. CASE \E r \in Requests : Telemetry(r)
  <2>1. PICK r \in Requests : Telemetry(r)
    BY <1>3
  <2> DEFINE own == Label(RpcName(input[r].path), CallerType(r), StatusOf(outcome[r]))
  <2>2. /\ pc[r] = "telemetry_up" /\ pc'[r] = "audit_up" /\ Head(ready) = CallTask(r)
        /\ UNCHANGED <<input, consumer, outcome>>
        /\ requests_total' = [requests_total EXCEPT ![own] = @ + 1]
        /\ RpcName(input[r].path) # None
    BY <2>1 DEF TypeOK, CarriesWhatIsRead, Telemetry, Runs, GoesTo, sent, state
  <2>3. \A q \in Requests : q # r => (q \in Counted(label)' <=> q \in Counted(label))
    <3>1. \A q \in Requests : q # r => ~Telemetry(q)
      BY <2>2, TaskKinds DEF Telemetry, Runs
    <3> QED
      BY <1>1, <3>1, SameCounted
  <2>4. r \notin Counted(label) /\ (r \in Counted(label)' <=> own = label)
    BY <2>2 DEF Counted, PastTelemetry, HasLabel, CallerType
  <2>5. IsFiniteSet(Counted(label))
    BY <1>2, RequestsAssumption, FS_Subset
  <2>6. own \in Labels
    BY <2>2, LabelType
  <2> HIDE DEF own
  <2>7. requests_total \in [Labels -> Nat]
    BY DEF TypeOK
  <2>8. CASE own = label
    <3>1. Counted(label)' = Counted(label) \union {r}
      BY <1>2, <2>3, <2>4, <2>8
    <3>2. Cardinality(Counted(label)') = Cardinality(Counted(label)) + 1
      BY <2>4, <2>5, <3>1, FS_AddElement
    <3> QED
      BY <1>1, <2>2, <2>6, <2>7, <2>8, <3>2
  <2>9. CASE own # label
    <3>1. Counted(label)' = Counted(label)
      BY <1>2, <2>3, <2>4, <2>9
    <3> QED
      BY <1>1, <2>2, <2>6, <2>7, <2>9, <3>1
  <2> QED
    BY <2>8, <2>9
<1>4. CASE ~\E r \in Requests : Telemetry(r)
  <2>1. Counted(label)' = Counted(label)
    BY <1>1, <1>2, <1>4, SameCounted
  <2> QED
    BY <1>1, <1>4, <2>1, CountersChange
<1> QED
  BY <1>3, <1>4

\* Which rows a step adds: those of the audit middleware's call.
LEMMA HeldChanges ==
    ASSUME TypeOK, CarriesWhatIsRead, [Next]_vars, NEW row \in Held', row.call \in Requests
    PROVE  row \in Held \/ Audit(row.call)
<1>1. CASE Quiet
  BY <1>1, QuietHeld DEF Quiet, Fewer, FewerFor
<1>2. CASE AuditWrite \/ Crash
  BY <1>2, WriteHeld, CrashHeld
<1>3. ASSUME NEW r \in Requests, Audit(r), row.call # r
      PROVE  row \in Held
  <2>1. UNCHANGED <<store, lost>> /\ FewerFor(ready', ready, row.call)
    BY <1>3, AuditQueue DEF Audit, audit
  <2> QED
    BY <2>1, QuietHeld DEF FewerFor
<1> QED
  BY <1>1, <1>2, <1>3, Steps

LEMMA HeldType ==
    ASSUME TypeOK
    PROVE  Held \subseteq Rows
<1>1. \A l \in lost : l[1] \in Rows
  BY DEF TypeOK
<1>2. \A i \in DOMAIN store : store[i] \in Rows
  BY DEF TypeOK
<1> QED
  BY <1>1, <1>2, PendingRowsType DEF Held

LEMMA GoneStep ==
    ASSUME TypeOK, (Held \subseteq Rows)', CarriesWhatIsRead, AllOnce, GoneHasNoRow,
           [Next]_vars
    PROVE  GoneHasNoRow'
<1> SUFFICES ASSUME crashes' = 0, NEW row \in Held', pc'[row.call] = "gone"
             PROVE  FALSE
  BY DEF GoneHasNoRow
<1> DEFINE q == row.call
<1>1. q \in Requests
  <2>1. row \in Rows
    BY DEF Rows
  <2> QED
    BY <2>1 DEF Rows
<1>2. crashes = 0 /\ ~Crash
  BY NoCrashYet
<1>3. ~Telemetry(q) /\ ~Audit(q)
  BY <1>1 DEF Telemetry, Audit, GoesTo, TypeOK
<1>4. row \in Held
  BY <1>1, <1>3, HeldChanges
<1>5. pc[q] \in PastAudit /\ pc[q] # "gone"
  BY <1>1, <1>2, <1>4, HeldIsPlaced DEF AllOnce, Once, GoneHasNoRow
<1>6. pc[q] \in {"gone", "body"}
  BY <1>1, <1>2, <1>3, CountedStays
<1> QED
  BY <1>5, <1>6 DEF PastAudit

LEMMA MeteredAlways == Spec => [](Metered /\ GoneHasNoRow)
<1>1. Init => Metered /\ GoneHasNoRow
  <2> SUFFICES ASSUME Init
               PROVE  Metered /\ GoneHasNoRow
    OBVIOUS
  <2>1. \A label \in Labels : Counted(label) = {}
    BY DEF Init, Counted, PastTelemetry
  <2>2. Metered
    BY <2>1, FS_EmptySet DEF Init, Metered
  <2>3. Held = {}
    BY DEF Init, Held, PendingRows
  <2> QED
    BY <2>2, <2>3 DEF GoneHasNoRow
<1>2. TypeOK => Held \subseteq Rows
  BY HeldType
<1>3. TypeOK /\ (Held \subseteq Rows)' /\ CarriesWhatIsRead /\ AllOnce /\ Metered /\ GoneHasNoRow
          /\ [Next]_vars => Metered' /\ GoneHasNoRow'
  BY MeteredStep, GoneStep
<1> QED
  BY <1>1, <1>2, <1>3, TypeCorrect, AlwaysCarries, OnceAlways, PTL DEF Spec

\* With nothing in flight and no crash, a counter is the number of rows of its
\* label, those that were refused included.
LEMMA CountedRows ==
    ASSUME TypeOK, WritesGoFirst, AllOnce, AllTold, GoneHasNoRow, NothingInFlight,
           ready = <<>>, crashes = 0, NEW label \in Labels
    PROVE  LET Matches(row) ==
                   row.rpc_name # None /\ Label(row.rpc_name, row.consumer_type, row.status) = label
           IN  Cardinality(Counted(label)) =
                   Cardinality({i \in DOMAIN store : Matches(store[i])})
                       + Cardinality({l \in lost : Matches(l[1])})
<1> DEFINE Matches(row) ==
               row.rpc_name # None /\ Label(row.rpc_name, row.consumer_type, row.status) = label
           stored  == {i \in DOMAIN store : Matches(store[i])}
           gone    == {l \in lost : Matches(l[1])}
           inStore == {r \in Counted(label) : InStore(r)}
           inLost  == {r \in Counted(label) : InLost(r)}
<1>1. ASSUME NEW row \in Held
      PROVE  Matches(row) <=> row.call \in Counted(label)
  <2>1. row \in Rows /\ row.call \in Requests
    BY HeldType DEF Rows
  <2>2. row = Record(row.call)
    BY <2>1 DEF AllTold, Told
  <2>3. pc[row.call] = "done"
    BY <2>1, HeldIsPlaced DEF AllOnce, Once, PastAudit, GoneHasNoRow, NothingInFlight
  <2>4. /\ Record(row.call).rpc_name = RpcName(input[row.call].path)
        /\ Record(row.call).consumer_type = CallerType(row.call)
        /\ Record(row.call).status = StatusOf(outcome[row.call])
    BY DEF Record
  <2>5. Matches(row) <=> HasLabel(row.call, label)
    BY <2>2, <2>4 DEF HasLabel
  <2> QED
    BY <2>1, <2>3, <2>5 DEF Counted, PastTelemetry
<1>2. ASSUME NEW r \in Counted(label)
      PROVE  r \in Requests /\ (InStore(r) <=> ~InLost(r))
  <2>1. r \in Requests /\ pc[r] = "done"
    BY DEF Counted, PastTelemetry, NothingInFlight
  <2>2. IsRpc(r)
    BY DEF Counted, HasLabel, RpcName, IsRpc, RpcPaths
  <2>3. InStore(r) \/ InLost(r)
    BY <2>1, <2>2 DEF WritesGoFirst, Settled, InStore, InLost
  <2> QED
    BY <2>1, <2>3 DEF AllOnce, Once
<1>3. IsFiniteSet(Counted(label)) /\ IsFiniteSet(inStore) /\ IsFiniteSet(inLost)
  <2>1. Counted(label) \in SUBSET Requests
    BY DEF Counted
  <2>2. inStore \in SUBSET Requests /\ inLost \in SUBSET Requests
    BY <2>1
  <2> QED
    BY <2>1, <2>2, RequestsAssumption, FS_Subset
<1>4. Cardinality(Counted(label)) = Cardinality(inStore) + Cardinality(inLost)
  <2>1. Counted(label) = inStore \union inLost /\ inStore \intersect inLost = {}
    BY <1>2
  <2> HIDE DEF inStore, inLost
  <2>2. Cardinality(inStore) \in Nat /\ Cardinality(inLost) \in Nat
    BY <1>3, FS_CardinalityType
  <2>3. Cardinality(inStore \union inLost) =
            Cardinality(inStore) + Cardinality(inLost) - Cardinality(inStore \intersect inLost)
    BY <1>3, FS_Union
  <2>4. Cardinality(inStore \intersect inLost) = 0
    BY <2>1, FS_EmptySet
  <2> QED
    BY <2>1, <2>2, <2>3, <2>4
<1>5. Cardinality(stored) = Cardinality(inStore)
  <2> DEFINE f == [i \in stored |-> store[i].call]
  <2>1. \A i \in stored : store[i].call \in inStore
    BY <1>1 DEF Held, InStore
  <2>2. \A i, j \in stored : store[i].call = store[j].call => i = j
    BY <1>2, <2>1 DEF AllOnce, Once, OneStored
  <2>3. \A r \in inStore : \E i \in stored : store[i].call = r
    BY <1>1 DEF Held, InStore
  <2> HIDE DEF stored, inStore
  <2>4. f \in Injection(stored, inStore) /\ f \in Surjection(stored, inStore)
    BY <2>1, <2>2, <2>3 DEF Injection, Surjection, IsInjective
  <2> HIDE DEF f
  <2> QED
    BY <1>3, <2>4, FS_Injection
<1>6. Cardinality(gone) = Cardinality(inLost)
  <2> DEFINE f == [l \in gone |-> l[1].call]
  <2>1. \A l \in gone : l[1].call \in inLost
    BY <1>1 DEF Held, InLost
  <2>2. \A l, m \in gone : l[1].call = m[1].call => l = m
    BY <1>2, <2>1 DEF AllOnce, Once, OneLost
  <2>3. \A r \in inLost : \E l \in gone : l[1].call = r
    BY <1>1 DEF Held, InLost
  <2> HIDE DEF gone, inLost
  <2>4. f \in Injection(gone, inLost) /\ f \in Surjection(gone, inLost)
    BY <2>1, <2>2, <2>3 DEF Injection, Surjection, IsInjective
  <2> HIDE DEF f
  <2> QED
    BY <1>3, <2>4, FS_Injection
<1> QED
  BY <1>4, <1>5, <1>6

\* The counters of the telemetry middleware and the rows of the audit log,
\* kept by different middlewares, agree whenever no call is in flight
\* (middleware/telemetry.py:38-44, middleware/audit.py:104-138).
THEOREM MetricsAlwaysMatchAudit == Spec => []MetricsMatchAudit
<1>1. TypeOK /\ WritesGoFirst /\ AllOnce /\ AllTold /\ Metered /\ GoneHasNoRow
          => MetricsMatchAudit
  BY CountedRows DEF Metered, MetricsMatchAudit
<1> QED
  BY <1>1, TypeCorrect, WritesAlwaysGoFirst, OnceAlways, ToldAlways, MeteredAlways, PTL
=============================================================================
