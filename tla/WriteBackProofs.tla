-------------------------- MODULE WriteBackProofs ---------------------------
(***************************************************************************)
(* The steps of the callers preserve IInv too, so that it is an invariant  *)
(* of the write-back queues, and with it FateInv, on what became of the    *)
(* tasks.  Together they say how far queued tasks are kept and keep their  *)
(* order, what Wait covers and what Close leaves.                          *)
(***************************************************************************)
EXTENDS WriteBackStepProofs, FiniteSetTheorems

(***************************************************************************)
(* The steps of a caller.                                                  *)
(***************************************************************************)

\* A call that goes on without a write: past the first select, or from a full
\* queue to the synchronous write.
LEMMA CallMoves ==
  ASSUME IInv, NEW c \in Caller, call[c].at # "idle",
         UNCHANGED <<task, fate, l2, queue, wk, wait, released, must, closing, racing>>,
         NEW at \in {"send", "sync"}, call' = [call EXCEPT ![c].at = at],
         at = "send" => ~Stopped
  PROVE  IInv'
<1>1. TypeOK /\ call'[c].at = at /\ call'[c].id = call[c].id /\ \A d \in Caller \ {c} : call'[d] = call[d]
  BY Zenon DEF IInv, TypeOK
<1>2. TypeOK'
  <2>1. call' \in [Caller -> [at : {"idle", "check", "send", "sync"}, id : Nat]]
    BY <1>1, ZenonT(60) DEF TypeOK
  <2>. QED
    BY Zenon, <1>1, <2>1 DEF TypeOK
<1>3. /\ Ids' = Ids /\ Queued' = Queued /\ OrderInv'
      /\ \A w \in Worker : Unmoved(w) /\ FlusherOK(wk[w])' /\ PendingInv(w)' /\ HomeInv(w)'
      /\ \A d \in Waiter : WaitInv(d)' /\ \A w \in Worker : MarkerInv(d, w)'
  BY Zenon, Still
<1>4. ASSUME NEW d \in Caller PROVE CallInv(d)'
  <2>1. CallInv(d)
    BY Zenon DEF IInv
  <2>2. CASE d = c
    BY <1>1, <1>3, <2>1, <2>2 DEF CallInv
  <2>3. CASE d # c
    BY <1>1, <1>3, <2>1, <2>3 DEF CallInv
  <2>. QED
    BY Zenon, <2>2, <2>3
<1>5. CallingInv'
  <2>1. ASSUME NEW j \in Ids, fate[j] = "calling" PROVE call'[task[j].by].id = j
    <3>1. call[task[j].by].id = j
      BY Zenon, <2>1 DEF IInv, CallingInv
    <3>2. task \in Seq(Tasks) /\ j \in 1..Len(task)
      BY Zenon, <1>1 DEF TypeOK, Ids
    <3>3. task[j] \in Tasks
      BY <3>2
    <3>4. task[j].by \in Caller
      BY Zenon, <3>3 DEF Tasks
    <3>. QED
      BY Zenon, <1>1, <3>1, <3>4
  <2>. QED
    BY Zenon, <1>3, <2>1 DEF CallingInv
<1>6. CloseInv'
  <2>1. CloseInv
    BY Zenon DEF IInv
  <2>. QED
    BY <1>1, <2>1 DEF CloseInv, Stopped
<1>. QED
  BY Zenon, <1>2, <1>3, <1>4, <1>5, <1>6 DEF IInv

\* The first select of enqueueL2.
LEMMA CheckStopStep ==
  ASSUME IInv, NEW c \in Caller, CheckStop(c)
  PROVE  IInv'
<1>. DEFINE at == IF Stopped THEN "sync" ELSE "send"
<1>1. /\ UNCHANGED <<task, fate, l2, queue, wk, wait, released, must, closing, racing>>
      /\ call' = [call EXCEPT ![c].at = at] /\ call[c].at # "idle"
  BY Zenon DEF CheckStop
<1>2. at \in {"send", "sync"} /\ (at = "send" => ~Stopped)
  BY Zenon
<1>. HIDE DEF at
<1>. QED
  BY ONLY Zenon, IInv, c \in Caller, <1>1, <1>2, CallMoves

\* A task of the model has a key and a caller.
LEMMA TaskType ==
  ASSUME TypeOK, NEW j \in Ids
  PROVE  j \in Nat \ {0} /\ task[j].key \in Key /\ task[j].by \in Caller /\ fate[j] \in Fates
<1>1. task \in Seq(Tasks) /\ j \in 1..Len(task) /\ fate \in Seq(Fates) /\ Len(fate) = Len(task)
  BY Zenon DEF TypeOK, Ids
<1>2. task[j] \in Tasks /\ fate[j] \in Fates /\ j \in Nat \ {0}
  BY <1>1
<1>. QED
  BY Zenon, <1>2 DEF Tasks

\* The fate of one task is set.
LEMMA FateSet ==
  ASSUME TypeOK, NEW id \in Ids, NEW x \in Fates, fate' = [fate EXCEPT ![id] = x]
  PROVE  /\ fate' \in Seq(Fates) /\ Len(fate') = Len(fate)
         /\ fate'[id] = x /\ \A j \in Ids \ {id} : fate'[j] = fate[j]
<1>1. fate \in Seq(Fates) /\ Len(fate) = Len(task)
  BY Zenon DEF TypeOK
<1>2. id \in 1..Len(fate)
  BY Zenon, <1>1 DEF Ids
<1>3. fate' \in Seq(Fates) /\ Len(fate') = Len(fate)
  BY <1>1, <1>2
<1>4. fate'[id] = x /\ \A j \in 1..Len(fate) : j # id => fate'[j] = fate[j]
  BY <1>1, <1>2
<1>. QED
  BY Zenon, <1>1, <1>3, <1>4 DEF Ids

\* A call ends, and its task becomes x ...
Ends(c, id, x) ==
  /\ call[c].at # "idle" /\ id = call[c].id /\ x \in Fates \ {"calling"}
  /\ fate' = [fate EXCEPT ![id] = x] /\ call' = [call EXCEPT ![c] = Idle]
  /\ UNCHANGED <<task, wk, wait, released, must, closing, racing>>

\* ... which leaves this of the invariant.
Ended(id, x) ==
  /\ id \in Ids /\ fate[id] = "calling" /\ fate'[id] = x /\ Ids' = Ids
  /\ \A j \in Ids \ {id} : fate'[j] = fate[j]
  /\ fate' \in Seq(Fates) /\ Len(fate') = Len(fate)
  /\ call' \in [Caller -> [at : {"idle", "check", "send", "sync"}, id : Nat]]
  /\ (\A d \in Caller : CallInv(d)') /\ CallingInv' /\ CloseInv'
  /\ \A d \in Waiter : WaitInv(d)' /\ id \notin must[d]
  /\ \A j \in Ids : ~SameKey(id, j)

\* A call ends: its task is no longer the caller's.
LEMMA CallEnds ==
  ASSUME IInv, NEW c \in Caller, NEW id, NEW x, Ends(c, id, x)
  PROVE  Ended(id, x)
<1>. USE DEF Ends
<1>1. TypeOK /\ CallInv(c)
  BY Zenon DEF IInv
<1>2. /\ id \in Ids /\ fate[id] = "calling" /\ task[id].by = c
      /\ \A j \in Ids : task[j].by = c => j <= id
  BY Zenon, <1>1 DEF CallInv
<1>3. /\ fate' \in Seq(Fates) /\ Len(fate') = Len(fate)
      /\ fate'[id] = x /\ \A j \in Ids \ {id} : fate'[j] = fate[j]
  <2>1. x \in Fates
    BY Zenon
  <2>. QED
    BY Zenon, <1>1, <1>2, <2>1, FateSet
<1>4. Ids' = Ids
  BY Zenon DEF Ids
<1>5. call'[c] = Idle /\ \A d \in Caller \ {c} : call'[d] = call[d]
  BY Zenon, <1>1 DEF TypeOK
<1>6. call' \in [Caller -> [at : {"idle", "check", "send", "sync"}, id : Nat]]
  BY Zenon, <1>1 DEF TypeOK, Idle, None
<1>7. ASSUME NEW d \in Caller PROVE CallInv(d)'
  <2>1. CASE d = c
    <3>1. call'[d].at = "idle" /\ call'[d].id = None
      BY <1>5, <2>1, SMTT(60) DEF Idle
    <3>. QED
      BY Zenon, <3>1 DEF CallInv
  <2>2. CASE d # c
    <3>1. CallInv(d) /\ call'[d] = call[d]
      BY Zenon, <1>5, <2>2 DEF IInv
    <3>2. call[d].at # "idle" => call[d].id # id
      BY Zenon, <1>2, <2>2, <3>1 DEF CallInv
    <3>. QED
      BY <1>3, <1>4, <3>1, <3>2, SMTT(60) DEF CallInv
  <2>. QED
    BY Zenon, <2>1, <2>2
<1>8. CallingInv'
  <2>1. ASSUME NEW j \in Ids, fate'[j] = "calling" PROVE call'[task[j].by].id = j
    <3>1. j # id /\ fate[j] = "calling"
      BY Zenon, <1>3, <2>1
    <3>2. call[task[j].by].id = j /\ task[j].by \in Caller
      BY Zenon, <1>1, <3>1, TaskType DEF IInv, CallingInv
    <3>3. task[j].by # c
      BY Zenon, <3>1, <3>2
    <3>. QED
      BY Zenon, <1>5, <3>2, <3>3
  <2>. QED
    BY Zenon, <1>4, <2>1 DEF CallingInv
<1>9. CloseInv'
  <2>1. CloseInv
    BY Zenon DEF IInv
  <2>2. \A d \in Caller : call'[d].at = "send" => call'[d] = call[d]
    BY <1>5, SMTT(60) DEF Idle
  <2>. QED
    BY <2>1, <2>2 DEF CloseInv, Stopped
<1>10. ASSUME NEW d \in Waiter PROVE WaitInv(d)' /\ id \notin must[d]
  <2>1. WaitInv(d)
    BY Zenon DEF IInv
  <2>2. \A j \in must[d] : j \in Ids /\ fate[j] # "calling"
    BY Zenon, <2>1 DEF WaitInv
  <2>3. \A j \in must[d] : j # id /\ fate'[j] = fate[j]
    BY Zenon, <1>2, <1>3, <2>2
  <2>4. \A j \in must'[d] : j \in Ids' /\ fate'[j] # "calling"
    BY Zenon, <1>4, <2>2, <2>3
  <2>. QED
    BY Zenon, <2>1, <2>3, <2>4 DEF WaitInv
<1>11. ASSUME NEW j \in Ids PROVE ~SameKey(id, j)
  <2>1. id \in Nat /\ j \in Nat
    BY <1>2 DEF Ids
  <2>. QED
    BY <1>2, <2>1, SMTT(60) DEF SameKey
<1>. QED
  BY Zenon, <1>2, <1>3, <1>4, <1>6, <1>7, <1>8, <1>9, <1>10, <1>11 DEF Ended

\* The synchronous write goes past the queues: it changes its own key in the
\* second level, of which nothing is claimed from then on.
LEMMA SyncStep ==
  ASSUME IInv, NEW c \in Caller, NEW outcome, Sync(c, outcome)
  PROVE  IInv'
<1>. DEFINE x == IF outcome = "ok" THEN "synced" ELSE "failed"
<1>1. PICK id : id = call[c].id
  BY Zenon
<1>2. /\ UNCHANGED <<task, queue, wk, wait, released, must, closing, racing>>
      /\ call[c].at # "idle" /\ fate' = [fate EXCEPT ![id] = x]
      /\ call' = [call EXCEPT ![c] = Idle] /\ TypeOK
      /\ l2' \in Applied(<<id>>, outcome)
  BY Zenon, <1>1 DEF Sync, IInv
<1>3. x \in Fates \ {"calling"} /\ x \in {"synced", "failed"}
  BY Zenon DEF Fates
<1>. HIDE DEF x
<1>4. /\ id \in Ids /\ fate[id] = "calling" /\ fate'[id] = x /\ Ids' = Ids
      /\ \A j \in Ids \ {id} : fate'[j] = fate[j]
      /\ fate' \in Seq(Fates) /\ Len(fate') = Len(fate)
      /\ call' \in [Caller -> [at : {"idle", "check", "send", "sync"}, id : Nat]]
      /\ (\A d \in Caller : CallInv(d)') /\ CallingInv' /\ CloseInv'
      /\ \A d \in Waiter : WaitInv(d)'
  <2>1. Ends(c, id, x)
    BY Zenon, <1>1, <1>2, <1>3 DEF Ends
  <2>2. Ended(id, x)
    BY Zenon, <2>1, CallEnds
  <2>. QED
    BY Zenon, <2>2 DEF Ended
<1>5. \A j \in Ids : j \in Nat /\ task[j].key \in Key /\ task[j].by \in Caller
  BY Zenon, <1>2, TaskType
<1>6. l2' \in [Key -> Nat]
  <2>1. l2' \in [Key -> {None} \cup Ids]
    BY Zenon, <1>2 DEF Applied
  <2>. QED
    BY Zenon, <2>1, LevelType
<1>7. TypeOK'
  BY Zenon, <1>2, <1>4, <1>6 DEF TypeOK
<1>8. Queued' = Queued
  <2>1. \A j \in Ids : fate'[j] = "queued" <=> fate[j] = "queued"
    BY Zenon, <1>3, <1>4
  <2>. QED
    BY Zenon, <1>4, <2>1 DEF Queued
<1>9. ASSUME NEW w \in Worker PROVE Unmoved(w)
  <2>1. Pending(w)' = Pending(w)
    BY Zenon, <1>2, PendingSame
  <2>2. QueuedIn(w)' = QueuedIn(w)
    BY Zenon, <1>2, <1>8 DEF QueuedIn
  <2>. QED
    BY Zenon, <2>1, <2>2 DEF Unmoved
<1>10. ASSUME NEW w \in Worker PROVE FlusherOK(wk[w])' /\ PendingInv(w)' /\ HomeInv(w)'
  <2>1. FlusherOK(wk[w]) /\ PendingInv(w) /\ HomeInv(w)
    BY Zenon DEF IInv
  <2>2. Lined(Pending(w)', QueuedIn(w)')
    BY Zenon, <1>9, <2>1 DEF PendingInv, Unmoved
  <2>3. PendingInv(w)'
    BY Zenon, <1>2, <2>2, LinedNext, SameKeySame
  <2>4. HomeInv(w)'
    BY Zenon, <1>2, <1>9, <2>1 DEF HomeInv, Stopped, Unmoved
  <2>. QED
    BY Zenon, <1>2, <2>1, <2>3, <2>4
<1>11. ASSUME NEW d \in Waiter, NEW w \in Worker PROVE MarkerInv(d, w)'
  <2>1. MarkerInv(d, w) /\ must'[d] = must[d] /\ wk'[w] = wk[w] /\ released' = released
    BY Zenon, <1>2 DEF IInv
  <2>2. Unsent(d, w)' => Unsent(d, w)
    BY Zenon, <1>2 DEF Unsent
  <2>. QED
    BY Zenon, <1>9, <2>1, <2>2, MarkerStill
<1>12. OrderInv'
  <2>1. SUFFICES ASSUME NEW i \in Ids, NEW j \in Ids, SameKey(i, j), fate'[i] = "queued"
                 PROVE  fate'[j] # "handed"
    BY <1>2, <1>4, SMTT(60) DEF OrderInv, SameKey
  <2>2. fate[i] = "queued"
    BY Zenon, <1>3, <1>4, <2>1
  <2>3. fate[j] # "handed"
    BY Zenon, <2>1, <2>2 DEF IInv, OrderInv
  <2>. QED
    BY Zenon, <1>3, <1>4, <2>3
<1>. QED
  BY Zenon, <1>4, <1>7, <1>10, <1>11, <1>12 DEF IInv

\* The second select of enqueueL2: the task goes to the end of its queue, or its
\* call goes on to the synchronous write.
LEMMA SendStep ==
  ASSUME IInv, NEW c \in Caller, Send(c)
  PROVE  IInv'
<1>1. PICK id : id = call[c].id
  BY Zenon
<1>2. TypeOK /\ call[c].at = "send" /\ id \in Ids
  BY Zenon, <1>1 DEF Send, IInv, CallInv
<1>3. id \in Nat /\ task[id].key \in Key
  BY Zenon, <1>2, TaskType
<1>4. PICK w \in Worker : w = WorkerOf[task[id].key]
  BY Zenon, <1>3, WriteBackAssumption
<1>5. CASE ~(Len(queue[w]) < BufferSize)
  <2>1. /\ UNCHANGED <<task, fate, l2, queue, wk, wait, released, must, closing, racing>>
        /\ call' = [call EXCEPT ![c].at = "sync"] /\ call[c].at # "idle"
    BY Zenon, <1>1, <1>2, <1>4, <1>5 DEF Send
  <2>. QED
    BY ONLY Zenon, IInv, c \in Caller, <2>1, CallMoves
<1>6. CASE Len(queue[w]) < BufferSize
  <2>1. /\ UNCHANGED <<task, l2, wk, wait, released, must, closing, racing>>
        /\ queue' = [queue EXCEPT ![w] = Append(queue[w], id)]
        /\ fate' = [fate EXCEPT ![id] = "queued"] /\ call' = [call EXCEPT ![c] = Idle]
    BY Zenon, <1>1, <1>4, <1>6 DEF Send
  <2>2. /\ fate[id] = "calling" /\ fate'[id] = "queued" /\ Ids' = Ids
        /\ \A j \in Ids \ {id} : fate'[j] = fate[j]
        /\ fate' \in Seq(Fates) /\ Len(fate') = Len(fate)
        /\ call' \in [Caller -> [at : {"idle", "check", "send", "sync"}, id : Nat]]
        /\ (\A d \in Caller : CallInv(d)') /\ CallingInv' /\ CloseInv'
        /\ \A d \in Waiter : WaitInv(d)' /\ id \notin must[d]
        /\ \A j \in Ids : ~SameKey(id, j)
    <3>1. Ends(c, id, "queued")
      BY Zenon, <1>1, <1>2, <2>1 DEF Ends, Fates
    <3>2. Ended(id, "queued")
      BY Zenon, <3>1, CallEnds
    <3>. QED
      BY Zenon, <3>2 DEF Ended
  <2>3. id \in Items /\ id \notin Waiter
    BY Zenon, <1>3, WriteBackAssumption DEF Items
  <2>4. /\ queue' \in [Worker -> Seq(Items)] /\ Pending(w) \in Seq(Items)
        /\ Pending(w)' = Append(Pending(w), id)
        /\ \A v \in Worker \ {w} : Pending(v)' = Pending(v)
    BY Zenon, <1>2, <2>1, <2>3, PutLast
  <2>5. TypeOK'
    BY Zenon, <1>2, <2>1, <2>2, <2>4 DEF TypeOK
  <2>6. Queued' = Queued \cup {id} /\ id \notin Queued
    BY Zenon, <1>2, <2>2 DEF Queued
  <2>7. QueuedIn(w)' = QueuedIn(w) \cup {id} /\ id \notin QueuedIn(w)
    BY Zenon, <1>4, <2>1, <2>6 DEF QueuedIn
  <2>8. \A v \in Worker \ {w} : QueuedIn(v)' = QueuedIn(v)
    BY Zenon, <1>4, <2>1, <2>6 DEF QueuedIn
  <2>9. \A v \in Worker \ {w} : Unmoved(v)
    BY Zenon, <2>4, <2>8 DEF Unmoved
  <2>10. ASSUME NEW v \in Worker PROVE FlusherOK(wk[v])' /\ PendingInv(v)' /\ HomeInv(v)'
    <3>1. FlusherOK(wk[v]) /\ PendingInv(v) /\ HomeInv(v)
      BY Zenon DEF IInv
    <3>2. CASE v = w
      <4>1. Lined(Pending(w), QueuedIn(w))
        BY Zenon, <3>1, <3>2 DEF PendingInv
      <4>2. \A j \in QueuedIn(w) : ~SameKey(id, j)
        BY Zenon, <2>2 DEF QueuedIn, Queued
      <4>3. Lined(Append(Pending(w), id), QueuedIn(w) \cup {id})
        BY ONLY Zenon, <2>3, <2>4, <2>7, <4>1, <4>2, AppendTask
      <4>4. Lined(Pending(w)', QueuedIn(w)')
        BY Zenon, <2>4, <2>7, <4>3
      <4>5. PendingInv(w)'
        BY Zenon, <2>1, <4>4, LinedNext, SameKeySame
      <4>6. Stopped => id \in racing
        BY Zenon, <1>1, <1>2 DEF IInv, CloseInv
      <4>7. HomeInv(w)'
        BY Zenon, <2>1, <2>7, <3>1, <3>2, <4>6 DEF HomeInv, Stopped
      <4>. QED
        BY Zenon, <2>1, <3>1, <3>2, <4>5, <4>7
    <3>3. CASE v # w
      <4>1. Unmoved(v)
        BY Zenon, <2>9, <3>3
      <4>2. Lined(Pending(v)', QueuedIn(v)')
        BY Zenon, <3>1, <4>1 DEF PendingInv, Unmoved
      <4>3. PendingInv(v)'
        BY Zenon, <2>1, <4>2, LinedNext, SameKeySame
      <4>4. HomeInv(v)'
        BY Zenon, <2>1, <3>1, <4>1 DEF HomeInv, Stopped, Unmoved
      <4>. QED
        BY Zenon, <2>1, <3>1, <4>3, <4>4
    <3>. QED
      BY Zenon, <3>2, <3>3
  <2>11. ASSUME NEW d \in Waiter, NEW v \in Worker PROVE MarkerInv(d, v)'
    <3>1. /\ MarkerInv(d, v) /\ must'[d] = must[d] /\ wk'[v] = wk[v] /\ released' = released
          /\ (Unsent(d, v)' <=> Unsent(d, v))
      BY Zenon, <2>1 DEF IInv, Unsent
    <3>2. CASE v # w
      BY Zenon, <2>9, <3>1, <3>2, MarkerStill
    <3>3. CASE v = w
      <4>1. Owes(d, w)' = Owes(d, w)
        BY Zenon, <2>1, <2>2, <2>7 DEF Owes
      <4>2. MarkedInv(d, w) /\ Behind(Pending(w), d, Owes(d, w)) /\ (Unsent(d, w) => Absent(Pending(w), d))
        BY Zenon, <3>1, <3>3 DEF MarkerInv
      <4>3. MarkedInv(d, w)'
        BY Zenon, <3>1, <3>3, <4>1, <4>2 DEF MarkedInv
      <4>4. id # d
        BY Zenon, <2>3
      <4>5. Behind(Append(Pending(w), id), d, Owes(d, w))
        BY ONLY <2>3, <2>4, <4>2, <4>4, AppendBehind, SMTT(60)
      <4>6. Unsent(d, w) => Absent(Append(Pending(w), id), d)
        BY ONLY Zenon, <2>3, <2>4, <4>2, <4>4, AppendAbsent
      <4>7. Behind(Pending(w)', d, Owes(d, w)') /\ (Unsent(d, w)' => Absent(Pending(w)', d))
        BY Zenon, <2>4, <3>1, <3>3, <4>1, <4>5, <4>6
      <4>. QED
        BY Zenon, <3>3, <4>3, <4>7 DEF MarkerInv, Behind, Absent
    <3>. QED
      BY Zenon, <3>2, <3>3
  <2>12. OrderInv'
    <3>1. SUFFICES ASSUME NEW i \in Ids, NEW j \in Ids, SameKey(i, j), fate'[i] = "queued"
                   PROVE  fate'[j] # "handed"
      BY <2>1, <2>2, SMTT(60) DEF OrderInv, SameKey
    <3>2. i # id /\ fate[i] = "queued"
      BY Zenon, <2>2, <3>1
    <3>3. fate[j] # "handed"
      BY Zenon, <3>1, <3>2 DEF IInv, OrderInv
    <3>. QED
      BY Zenon, <2>2, <3>3
  <2>. QED
    BY Zenon, <2>2, <2>5, <2>10, <2>11, <2>12 DEF IInv
<1>. QED
  BY Zenon, <1>5, <1>6

\* A call begins: a task that is new, and newer than all of its caller's.
LEMMA BeginStep ==
  ASSUME IInv, NEW c \in Caller, NEW k \in Key, NEW kind \in Kind, Begin(c, k, kind)
  PROVE  IInv'
<1>1. PICK id : id = Len(task) + 1
  BY Zenon
<1>. DEFINE t == [key |-> k, kind |-> kind, by |-> c]
<1>2. /\ UNCHANGED <<l2, queue, wk, wait, released, must, closing>> /\ TypeOK
      /\ call[c].at = "idle" /\ task' = Append(task, t) /\ fate' = Append(fate, "calling")
      /\ call' = [call EXCEPT ![c] = [at |-> "check", id |-> id]]
      /\ racing' = IF closing.at \in {"wait", "drain"} THEN racing \union {id} ELSE racing
  BY Zenon, <1>1 DEF Begin, IInv
<1>3. t \in Tasks /\ t.by = c
  BY Zenon DEF Tasks
<1>. HIDE DEF t
<1>4. /\ task \in Seq(Tasks) /\ fate \in Seq(Fates) /\ Len(fate) = Len(task) /\ Len(task) \in Nat
  <2>1. task \in Seq(Tasks) /\ fate \in Seq(Fates) /\ Len(fate) = Len(task)
    BY Zenon, <1>2 DEF TypeOK
  <2>. QED
    BY <2>1, SMTT(60)
<1>5. /\ task' \in Seq(Tasks) /\ Len(task') = id /\ task'[id] = t
      /\ \A j \in 1..Len(task) : task'[j] = task[j]
  BY <1>1, <1>2, <1>3, <1>4, SMTT(60)
<1>6. /\ fate' \in Seq(Fates) /\ Len(fate') = id /\ fate'[id] = "calling"
      /\ \A j \in 1..Len(task) : fate'[j] = fate[j]
  BY <1>1, <1>2, <1>4, SMTT(60) DEF Fates
<1>7. /\ id \in Nat \ {0} /\ Ids' = Ids \cup {id} /\ id \notin Ids
      /\ \A j \in Ids : j \in Nat \ {0} /\ j < id /\ task'[j] = task[j] /\ fate'[j] = fate[j]
  BY <1>1, <1>4, <1>5, <1>6, SMTT(60) DEF Ids
<1>8. /\ call'[c] = [at |-> "check", id |-> id] /\ \A d \in Caller \ {c} : call'[d] = call[d]
      /\ call' \in [Caller -> [at : {"idle", "check", "send", "sync"}, id : Nat]]
  BY Zenon, <1>2, <1>7 DEF TypeOK
<1>9. racing \subseteq racing' /\ racing' \in SUBSET Nat
  BY Zenon, <1>2, <1>7 DEF TypeOK
<1>10. TypeOK'
  BY Zenon, <1>2, <1>5, <1>6, <1>8, <1>9 DEF TypeOK
<1>11. Queued' = Queued
  BY Zenon, <1>6, <1>7 DEF Queued
<1>12. ASSUME NEW w \in Worker PROVE Unmoved(w)
  <2>1. Pending(w)' = Pending(w)
    BY Zenon, <1>2, PendingSame
  <2>2. \A j \in Queued : task'[j] = task[j]
    BY Zenon, <1>7 DEF Queued
  <2>3. QueuedIn(w)' = QueuedIn(w)
    BY Zenon, <1>11, <2>2 DEF QueuedIn
  <2>. QED
    BY Zenon, <2>1, <2>3 DEF Unmoved
<1>13. \A i, j \in Ids : SameKey(i, j)' <=> SameKey(i, j)
  BY Zenon, <1>7 DEF SameKey
<1>14. ASSUME NEW w \in Worker PROVE FlusherOK(wk[w])' /\ PendingInv(w)' /\ HomeInv(w)'
  <2>1. FlusherOK(wk[w]) /\ PendingInv(w) /\ HomeInv(w)
    BY Zenon DEF IInv
  <2>2. Lined(Pending(w)', QueuedIn(w)')
    BY Zenon, <1>12, <2>1 DEF PendingInv, Unmoved
  <2>3. QueuedIn(w)' \subseteq Ids
    BY Zenon, <1>12 DEF QueuedIn, Queued, Unmoved
  <2>4. \A i, j \in QueuedIn(w)' : SameKey(i, j)' <=> SameKey(i, j)
    BY Zenon, <1>13, <2>3
  <2>5. PendingInv(w)'
    BY Zenon, <2>2, <2>4, LinedNext
  <2>6. HomeInv(w)'
    BY Zenon, <1>2, <1>9, <1>12, <2>1 DEF HomeInv, Stopped, Unmoved
  <2>. QED
    BY Zenon, <1>2, <2>1, <2>5, <2>6
<1>15. ASSUME NEW d \in Waiter, NEW w \in Worker PROVE MarkerInv(d, w)'
  <2>1. MarkerInv(d, w) /\ must'[d] = must[d] /\ wk'[w] = wk[w] /\ released' = released
    BY Zenon, <1>2 DEF IInv
  <2>2. Unsent(d, w)' => Unsent(d, w)
    BY Zenon, <1>2 DEF Unsent
  <2>. QED
    BY Zenon, <1>12, <2>1, <2>2, MarkerStill
<1>16. ASSUME NEW d \in Waiter PROVE WaitInv(d)'
  <2>1. WaitInv(d)
    BY Zenon DEF IInv
  <2>2. \A j \in must'[d] : j \in Ids' /\ fate'[j] # "calling"
    BY Zenon, <1>2, <1>7, <2>1 DEF WaitInv
  <2>. QED
    BY Zenon, <1>2, <2>1, <2>2 DEF WaitInv
<1>17. ASSUME NEW d \in Caller PROVE CallInv(d)'
  <2>1. CASE d = c
    <3>1. call'[d].at = "check" /\ call'[d].id = id
      BY <1>8, <2>1
    <3>2. \A j \in Ids' : j <= id
      BY <1>7, SMTT(60)
    <3>3. task'[id].by = d /\ fate'[id] = "calling" /\ id \in Ids'
      BY Zenon, <1>3, <1>5, <1>6, <1>7, <2>1
    <3>. QED
      BY Zenon, <3>1, <3>2, <3>3 DEF CallInv
  <2>2. CASE d # c
    <3>1. CallInv(d) /\ call'[d] = call[d]
      BY Zenon, <1>8, <2>2 DEF IInv
    <3>2. task'[id].by # d
      BY Zenon, <1>3, <1>5, <2>2
    <3>3. ASSUME call[d].at # "idle"
          PROVE  /\ call[d].id \in Ids' /\ fate'[call[d].id] = "calling" /\ task'[call[d].id].by = d
                 /\ \A j \in Ids' : task'[j].by = d => j <= call[d].id
      BY Zenon, <1>7, <3>1, <3>2, <3>3 DEF CallInv
    <3>. QED
      BY Zenon, <3>1, <3>3 DEF CallInv
  <2>. QED
    BY Zenon, <2>1, <2>2
<1>18. CallingInv'
  <2>1. ASSUME NEW j \in Ids', fate'[j] = "calling" PROVE call'[task'[j].by].id = j
    <3>1. CASE j = id
      BY <1>3, <1>5, <1>8, <3>1, SMTT(60)
    <3>2. CASE j # id
      <4>1. j \in Ids /\ fate[j] = "calling" /\ task'[j] = task[j]
        BY Zenon, <1>7, <2>1, <3>2
      <4>2. call[task[j].by].id = j /\ task[j].by \in Caller /\ j # 0
        BY Zenon, <1>2, <1>7, <4>1, TaskType DEF IInv, CallingInv
      <4>3. call[c].id = 0
        BY Zenon, <1>2 DEF IInv, CallInv, None
      <4>4. task[j].by # c
        BY Zenon, <4>2, <4>3
      <4>. QED
        BY Zenon, <1>8, <4>1, <4>2, <4>4
    <3>. QED
      BY Zenon, <3>1, <3>2
  <2>. QED
    BY <2>1, ZenonT(60) DEF CallingInv
<1>19. OrderInv'
  <2>1. SUFFICES ASSUME NEW i \in Ids', NEW j \in Ids', SameKey(i, j)', fate'[i] = "queued", fate'[j] = "handed"
                 PROVE  FALSE
    BY Zenon DEF OrderInv
  <2>2. i \in Ids /\ j \in Ids /\ fate[i] = "queued" /\ fate[j] = "handed"
    BY Zenon, <1>6, <1>7, <2>1
  <2>3. SameKey(i, j)
    BY Zenon, <1>13, <2>1, <2>2
  <2>. QED
    BY Zenon, <2>2, <2>3 DEF IInv, OrderInv
<1>21. CloseInv'
  <2>1. CloseInv
    BY Zenon DEF IInv
  <2>2. \A d \in Caller : call'[d].at = "send" => call'[d] = call[d]
    BY <1>8
  <2>. QED
    BY Zenon, <1>2, <1>9, <2>1, <2>2 DEF CloseInv, Stopped
<1>. QED
  BY Zenon, <1>10, <1>14, <1>15, <1>16, <1>17, <1>18, <1>19, <1>21 DEF IInv

-----------------------------------------------------------------------------
(***************************************************************************)
(* What becomes of the tasks, and of the second level.  FateInv rests on   *)
(* IInv, and is proved for every step with its help.                       *)
(***************************************************************************)

\* A run is of one kind and no longer than a batch.
RunInv(w) ==
  wk[w].at \in {"collect", "deliver"} =>
    /\ Len(wk[w].run) <= BatchMax /\ wk[w].run[1] = wk[w].first
    /\ \A n \in 1..Len(wk[w].run) : task[wk[w].run[n]].kind = task[wk[w].first].kind

\* A worker drops no more tasks than panicked.
LostInv(w) == Cardinality(Met(w, "dropped")) <= Cardinality(Met(w, "panicked"))

\* What Wait covers went through a queue.
MustInv(c) == \A id \in must[c] : id \in Ids /\ fate[id] \notin {"calling", "synced"}

\* Key k was written by one caller and through the queue, without a failure.
Plain(k) ==
  \A i, j \in Ids : task[i].key = k /\ task[j].key = k =>
    task[i].by = task[j].by /\ fate[i] \in {"calling", "queued", "handed"}

Handed(k) == {i \in Ids : task[i].key = k /\ fate[i] = "handed"}

Later(k) == {i \in Handed(k) : i > l2[k]}

\* Key k holds a task, and what was handed over and is newer was in its batch.
Held(k) ==
  /\ l2[k] \in Ids /\ task[l2[k]].key = k
  /\ InOrder => Later(k) = {}
  /\ \A i \in Later(k) : task[i].kind = task[l2[k]].kind /\ task[i].kind # "del"
  /\ Cardinality(Later(k)) < BatchMax

LevelInv(k) == Plain(k) /\ Handed(k) # {} => Held(k)

FateInv ==
  /\ \A w \in Worker : RunInv(w) /\ LostInv(w)
  /\ \A c \in Waiter : MustInv(c)
  /\ \A k \in Key : LevelInv(k)

\* Nothing that concerns key k has changed but for tasks that are not delivered.
LEMMA LevelStill ==
  ASSUME NEW k \in Key, LevelInv(k), l2'[k] = l2[k], Handed(k)' = Handed(k),
         Ids \subseteq Ids', \A i \in Ids : task'[i] = task[i],
         \A i \in Ids : task[i].key = k /\ fate'[i] \in {"calling", "queued", "handed"}
                          => fate[i] \in {"calling", "queued", "handed"}
  PROVE  LevelInv(k)'
<1>1. SUFFICES ASSUME Plain(k)', Handed(k)' # {} PROVE Held(k)'
  BY Zenon DEF LevelInv
<1>2. Plain(k)
  <2>1. SUFFICES ASSUME NEW i \in Ids, NEW j \in Ids, task[i].key = k, task[j].key = k
                 PROVE  task[i].by = task[j].by /\ fate[i] \in {"calling", "queued", "handed"}
    BY Zenon DEF Plain
  <2>2. i \in Ids' /\ j \in Ids' /\ task'[i] = task[i] /\ task'[j] = task[j]
    BY Zenon
  <2>3. task'[i].by = task'[j].by /\ fate'[i] \in {"calling", "queued", "handed"}
    BY Zenon, <1>1, <2>1, <2>2 DEF Plain
  <2>. QED
    BY Zenon, <2>1, <2>2, <2>3
<1>3. Held(k)
  BY Zenon, <1>1, <1>2 DEF LevelInv
<1>4. Later(k)' = Later(k)
  BY Zenon DEF Later
<1>5. \A i \in Later(k) : task'[i] = task[i]
  BY Zenon DEF Later, Handed
<1>6. l2'[k] \in Ids' /\ task'[l2'[k]] = task[l2[k]] /\ task'[l2'[k]].key = k
  BY Zenon, <1>3 DEF Held
<1>7. \A i \in Later(k)' : task'[i].kind = task'[l2'[k]].kind /\ task'[i].kind # "del"
  BY Zenon, <1>3, <1>4, <1>5, <1>6 DEF Held
<1>8. (InOrder => Later(k)' = {}) /\ Cardinality(Later(k)') < BatchMax
  BY Zenon, <1>3, <1>4 DEF Held
<1>. QED
  BY Zenon, <1>6, <1>7, <1>8 DEF Held

\* The lost tasks change only with the fates that count.
LEMMA LostStill ==
  ASSUME NEW w \in Worker, LostInv(w), Ids \subseteq Ids', \A i \in Ids : task'[i] = task[i],
         \A i \in Ids', f \in {"dropped", "panicked"} : fate'[i] = f <=> i \in Ids /\ fate[i] = f
  PROVE  LostInv(w)'
<1>1. ASSUME NEW f \in {"dropped", "panicked"} PROVE Met(w, f)' = Met(w, f)
  BY Zenon DEF Met
<1>2. Met(w, "dropped")' = Met(w, "dropped") /\ Met(w, "panicked")' = Met(w, "panicked")
  BY Zenon, <1>1
<1>. QED
  BY Zenon, <1>2 DEF LostInv

\* A step that leaves the tasks and the second level alone.
LEMMA FatesStill ==
  ASSUME FateInv, UNCHANGED <<task, fate, l2>>
  PROVE  /\ \A w \in Worker : LostInv(w)' /\ (wk'[w] = wk[w] => RunInv(w)')
         /\ \A k \in Key : LevelInv(k)'
         /\ \A c \in Waiter : must'[c] = must[c] => MustInv(c)'
<1>1. Ids' = Ids
  BY Zenon DEF Ids
<1>2. ASSUME NEW w \in Worker PROVE LostInv(w)' /\ (wk'[w] = wk[w] => RunInv(w)')
  <2>1. LostInv(w) /\ RunInv(w)
    BY Zenon DEF FateInv
  <2>2. LostInv(w)'
    BY Zenon, <1>1, <2>1, LostStill
  <2>3. wk'[w] = wk[w] => RunInv(w)'
    BY Zenon, <2>1 DEF RunInv
  <2>. QED
    BY Zenon, <2>2, <2>3
<1>3. ASSUME NEW k \in Key PROVE LevelInv(k)'
  <2>1. Handed(k)' = Handed(k) /\ LevelInv(k)
    BY Zenon, <1>1 DEF Handed, FateInv
  <2>. QED
    BY Zenon, <1>1, <2>1, LevelStill
<1>4. ASSUME NEW c \in Waiter, must'[c] = must[c] PROVE MustInv(c)'
  BY Zenon, <1>1, <1>4 DEF FateInv, MustInv
<1>. QED
  BY Zenon, <1>2, <1>3, <1>4

\* A worker that receives, goes home or closes a marker has no run yet; flushWrite
\* starts one with its first task, and flushRun adds what is of the same kind
\* while there is room.
LEMMA RunSteps ==
  ASSUME IInv, FateInv, NEW w \in Worker,
         Receive(w) \/ StopWorker(w) \/ EndWorker(w) \/ FlushWrite(w) \/ FlushRun(w)
  PROVE  FateInv'
<1>. DEFINE r == wk[w]
            s == wk'[w]
<1>1. /\ UNCHANGED <<task, fate, l2, must>> /\ TypeOK /\ FlusherOK(r) /\ RunInv(w) /\ r \in Flushers
      /\ \A v \in Worker \ {w} : wk'[v] = wk[v]
  BY Zenon DEF IInv, FateInv, TypeOK, Receive, StopWorker, EndWorker, FlushWrite, FlushRun
<1>2. SUFFICES RunInv(w)'
  <2>1. SUFFICES ASSUME RunInv(w)' PROVE FateInv'
    BY Zenon
  <2>2. /\ \A v \in Worker : LostInv(v)' /\ (wk'[v] = wk[v] => RunInv(v)')
        /\ \A k \in Key : LevelInv(k)'
        /\ \A c \in Waiter : MustInv(c)'
    BY Zenon, <1>1, FatesStill
  <2>3. \A v \in Worker : RunInv(v)'
    BY Zenon, <1>1, <2>1, <2>2
  <2>. QED
    BY Zenon, <2>2, <2>3 DEF FateInv
<1>3. CASE Receive(w)
  <2>1. s.at = "flush"
    BY Zenon, <1>1, <1>3 DEF Receive, TypeOK, Flushers
  <2>. QED
    BY Zenon, <2>1 DEF RunInv
<1>4. CASE StopWorker(w) \/ EndWorker(w)
  <2>1. \E h \in {"drain", "gone"} : s = AtHome(h)
    BY Zenon, <1>1, <1>4 DEF StopWorker, EndWorker, TypeOK
  <2>2. PICK h \in {"drain", "gone"} : s = AtHome(h)
    BY Zenon, <2>1
  <2>3. s.at = h
    <3>. HIDE DEF s
    <3>. QED
      BY Zenon, <2>2 DEF AtHome
  <2>. QED
    BY Zenon, <2>3 DEF RunInv
<1>5. CASE FlushWrite(w)
  <2>1. CASE IsMarker(r.first)
    <3>1. wk' = [wk EXCEPT ![w] = AtHome(r.home)]
      BY Zenon, <1>5, <2>1 DEF FlushWrite
    <3>2. s = AtHome(r.home) /\ r.home \in Places
      BY Zenon, <1>1, <3>1 DEF TypeOK, Flushers
    <3>3. s.at = r.home
      <4>. HIDE DEF r, s
      <4>. QED
        BY Zenon, <3>2 DEF AtHome
    <3>. QED
      BY Zenon, <3>2, <3>3 DEF RunInv, Places
  <2>2. CASE ~IsMarker(r.first)
    <3>1. s.run = <<r.first>> /\ s.first = r.first
      <4>1. PICK p : wk' = [wk EXCEPT ![w].at = p, ![w].run = <<wk[w].first>>]
        BY Zenon, <1>5, <2>2 DEF FlushWrite
      <4>2. wk \in [Worker -> Flushers]
        BY Zenon, <1>1 DEF TypeOK
      <4>. QED
        BY <4>1, <4>2 DEF Flushers
    <3>. HIDE DEF r, s
    <3>2. Len(s.run) = 1 /\ s.run[1] = s.first /\ \A n \in 1..Len(s.run) : s.run[n] = s.first
      BY <3>1
    <3>3. Len(s.run) <= BatchMax
      BY <3>2, WriteBackAssumption
    <3>4. \A n \in 1..Len(s.run) : task'[s.run[n]].kind = task'[s.first].kind
      BY Zenon, <3>2
    <3>. QED
      BY Zenon, <3>2, <3>3, <3>4 DEF RunInv, s
  <2>. QED
    BY Zenon, <2>1, <2>2
<1>6. CASE FlushRun(w)
  <2>. DEFINE x == Head(queue[w])
  <2>1. r.at = "collect" /\ r.run \in Seq(Nat) /\ r.run # <<>>
    BY Zenon, <1>1, <1>6 DEF FlushRun, FlusherOK, Flushers
  <2>2. /\ Len(r.run) <= BatchMax /\ r.run[1] = r.first
        /\ \A n \in 1..Len(r.run) : task[r.run[n]].kind = task[r.first].kind
    BY Zenon, <1>1, <2>1 DEF RunInv
  <2>. DEFINE more == Len(r.run) < BatchMax /\ queue[w] # <<>>
              grow == more /\ ~IsMarker(x) /\ task[x].kind = task[r.first].kind
  <2>3. CASE ~grow
    <3>1. \/ wk' = [wk EXCEPT ![w].at = "deliver"]
          \/ wk' = [wk EXCEPT ![w].at = "deliver", ![w].marker = x]
          \/ wk' = [wk EXCEPT ![w].at = "deliver", ![w].next = x]
      BY Zenon, <1>6, <2>3 DEF FlushRun
    <3>2. wk \in [Worker -> Flushers]
      BY Zenon, <1>1 DEF TypeOK
    <3>3. s.run = r.run /\ s.first = r.first
      <4>. HIDE DEF x
      <4>. QED
        BY <3>1, <3>2 DEF Flushers
    <3>. QED
      BY Zenon, <1>1, <2>2, <3>3 DEF RunInv
  <2>4. CASE grow
    <3>1. /\ Len(r.run) < BatchMax /\ queue[w] # <<>> /\ ~IsMarker(x) /\ task[x].kind = task[r.first].kind
          /\ wk' = [wk EXCEPT ![w].run = Append(r.run, x)]
      BY Zenon, <1>6, <2>4 DEF FlushRun
    <3>2. s.run = Append(r.run, x) /\ s.first = r.first
      <4>1. wk \in [Worker -> Flushers]
        BY Zenon, <1>1 DEF TypeOK
      <4>. HIDE DEF x
      <4>. QED
        BY <3>1, <4>1 DEF Flushers
    <3>3. x \in Nat
      <4>1. queue[w] \in Seq(Items)
        BY Zenon, <1>1 DEF TypeOK
      <4>2. Head(queue[w]) \in Items
        BY <3>1, <4>1
      <4>. QED
        BY Zenon, <3>1, <4>2 DEF Items, IsMarker
    <3>. HIDE DEF r, s, x, more, grow
    <3>4. /\ Len(s.run) = Len(r.run) + 1 /\ s.run[Len(s.run)] = x /\ Len(r.run) \in Nat /\ Len(r.run) >= 1
          /\ \A n \in 1..Len(r.run) : s.run[n] = r.run[n]
      BY <2>1, <3>2, <3>3
    <3>5. Len(s.run) <= BatchMax /\ 1 \in 1..Len(r.run)
      BY <3>1, <3>4, WriteBackAssumption
    <3>6. s.run[1] = s.first
      BY Zenon, <2>2, <3>2, <3>4, <3>5
    <3>7. ASSUME NEW n \in 1..Len(s.run) PROVE task'[s.run[n]].kind = task'[s.first].kind
      <4>1. n \in 1..Len(r.run) \/ n = Len(s.run)
        BY <3>4
      <4>. QED
        BY Zenon, <1>1, <2>2, <3>1, <3>2, <3>4, <4>1
    <3>. QED
      BY Zenon, <3>5, <3>6, <3>7 DEF RunInv, s
  <2>. QED
    BY Zenon, <2>3, <2>4
<1>. QED
  BY Zenon, <1>3, <1>4, <1>5, <1>6

\* A call begins: its task has met no fate yet.
LEMMA BeginFates ==
  ASSUME IInv, FateInv, NEW c \in Caller, NEW k \in Key, NEW kind \in Kind, Begin(c, k, kind)
  PROVE  FateInv'
<1>1. PICK id : id = Len(task) + 1
  BY Zenon
<1>2. /\ UNCHANGED <<l2, wk, must>> /\ TypeOK
      /\ task' = Append(task, [key |-> k, kind |-> kind, by |-> c]) /\ fate' = Append(fate, "calling")
  BY Zenon DEF Begin, IInv
<1>3. task \in Seq(Tasks) /\ fate \in Seq(Fates) /\ Len(fate) = Len(task)
  BY Zenon, <1>2 DEF TypeOK
<1>4. [key |-> k, kind |-> kind, by |-> c] \in Tasks
  BY Zenon DEF Tasks
<1>5. /\ Ids' = Ids \cup {id} /\ id \notin Ids /\ fate'[id] = "calling"
      /\ \A j \in Ids : task'[j] = task[j] /\ fate'[j] = fate[j]
  BY <1>1, <1>2, <1>3, <1>4, SMTT(60) DEF Ids
<1>6. ASSUME NEW w \in Worker PROVE RunInv(w)' /\ LostInv(w)'
  <2>1. RunInv(w) /\ LostInv(w) /\ wk'[w] = wk[w]
    BY Zenon, <1>2 DEF FateInv
  <2>2. RunInv(w)'
    <3>1. SUFFICES ASSUME wk[w].at \in {"collect", "deliver"} PROVE RunInv(w)'
      BY Zenon, <2>1 DEF RunInv
    <3>2. wk[w].run \in Seq(Nat) /\ Elements(wk[w].run) \subseteq Ids
      BY Zenon, <3>1, RunIsQueued DEF QueuedIn, Queued
    <3>3. \A n \in 1..Len(wk[w].run) : wk[w].run[n] \in Ids
      BY Zenon, <3>2 DEF Elements
    <3>4. wk[w].first \in Ids
      <4>1. wk[w].run # <<>>
        BY Zenon, <3>1 DEF IInv, FlusherOK
      <4>2. 1 \in 1..Len(wk[w].run)
        BY <3>2, <4>1
      <4>3. wk[w].run[1] = wk[w].first
        BY Zenon, <2>1, <3>1 DEF RunInv
      <4>. QED
        BY Zenon, <3>3, <4>2, <4>3
    <3>5. /\ task'[wk[w].first] = task[wk[w].first]
          /\ \A n \in 1..Len(wk[w].run) : task'[wk[w].run[n]] = task[wk[w].run[n]]
      BY Zenon, <1>5, <3>3, <3>4
    <3>6. /\ Len(wk[w].run) <= BatchMax /\ wk[w].run[1] = wk[w].first
          /\ \A n \in 1..Len(wk[w].run) : task[wk[w].run[n]].kind = task[wk[w].first].kind
      BY Zenon, <2>1, <3>1 DEF RunInv
    <3>7. \A n \in 1..Len(wk[w].run) : task'[wk[w].run[n]].kind = task'[wk[w].first].kind
      BY Zenon, <3>5, <3>6
    <3>. QED
      BY Zenon, <2>1, <3>6, <3>7 DEF RunInv
  <2>3. \A i \in Ids', f \in {"dropped", "panicked"} : fate'[i] = f <=> i \in Ids /\ fate[i] = f
    BY Zenon, <1>5
  <2>. QED
    BY Zenon, <1>5, <2>1, <2>2, <2>3, LostStill
<1>7. ASSUME NEW d \in Waiter PROVE MustInv(d)'
  BY Zenon, <1>2, <1>5 DEF FateInv, MustInv
<1>8. ASSUME NEW l \in Key PROVE LevelInv(l)'
  <2>1. Handed(l)' = Handed(l)
    BY Zenon, <1>5 DEF Handed
  <2>. QED
    BY Zenon, <1>2, <1>5, <2>1, LevelStill DEF FateInv
<1>. QED
  BY Zenon, <1>6, <1>7, <1>8 DEF FateInv

\* A call ends: its task is queued, or was written past the queue, and then
\* nothing is claimed of its key any more.
LEMMA EndFates ==
  ASSUME IInv, FateInv, NEW c \in Caller, NEW id, NEW x \in {"queued", "synced", "failed"}, Ends(c, id, x),
         \A k \in Key : k # task[id].key \/ x = "queued" => l2'[k] = l2[k]
  PROVE  FateInv'
<1>1. Ended(id, x) /\ UNCHANGED <<task, wk, must>>
  BY Zenon, CallEnds DEF Ends
<1>2. /\ id \in Ids /\ fate[id] = "calling" /\ fate'[id] = x /\ Ids' = Ids
      /\ \A j \in Ids \ {id} : fate'[j] = fate[j]
      /\ \A d \in Waiter : id \notin must[d]
  BY Zenon, <1>1 DEF Ended
<1>3. ASSUME NEW w \in Worker PROVE RunInv(w)' /\ LostInv(w)'
  <2>1. RunInv(w) /\ LostInv(w)
    BY Zenon DEF FateInv
  <2>2. RunInv(w)'
    BY Zenon, <1>1, <2>1 DEF RunInv
  <2>3. ASSUME NEW i \in Ids, NEW f \in {"dropped", "panicked"} PROVE fate'[i] = f <=> fate[i] = f
    <3>1. CASE i = id
      BY Zenon, <1>2, <3>1
    <3>2. CASE i # id
      BY Zenon, <1>2, <3>2
    <3>. QED
      BY Zenon, <3>1, <3>2
  <2>. QED
    BY Zenon, <1>1, <1>2, <2>1, <2>2, <2>3, LostStill
<1>4. ASSUME NEW d \in Waiter PROVE MustInv(d)'
  <2>1. MustInv(d) /\ id \notin must[d] /\ must'[d] = must[d]
    BY Zenon, <1>1, <1>2 DEF FateInv
  <2>. QED
    BY Zenon, <1>2, <2>1 DEF MustInv
<1>5. ASSUME NEW k \in Key PROVE LevelInv(k)'
  <2>1. CASE k # task[id].key \/ x = "queued"
    <3>1. \A i \in Ids : task[i].key = k => (fate'[i] = "handed" <=> fate[i] = "handed")
      BY Zenon, <1>2, <2>1
    <3>2. Handed(k)' = Handed(k)
      BY Zenon, <1>1, <1>2, <3>1 DEF Handed
    <3>3. \A i \in Ids : task[i].key = k /\ fate'[i] \in {"calling", "queued", "handed"}
                           => fate[i] \in {"calling", "queued", "handed"}
      BY Zenon, <1>2
    <3>. QED
      BY Zenon, <1>1, <1>2, <2>1, <3>2, <3>3, LevelStill DEF FateInv
  <2>2. CASE k = task[id].key /\ x # "queued"
    <3>1. id \in Ids' /\ task'[id].key = k /\ fate'[id] \notin {"calling", "queued", "handed"}
      BY Zenon, <1>1, <1>2, <2>2
    <3>2. ~Plain(k)'
      BY Zenon, <3>1 DEF Plain
    <3>. QED
      BY Zenon, <3>2 DEF LevelInv
  <2>. QED
    BY Zenon, <2>1, <2>2
<1>. QED
  BY Zenon, <1>3, <1>4, <1>5 DEF FateInv

\* A set of items of a sequence, without one of them, is smaller than it is long.
LEMMA FewerThan ==
  ASSUME NEW a \in Seq(Nat), NEW t \in Elements(a), NEW S \in SUBSET (Elements(a) \ {t})
  PROVE  Cardinality(S) < Len(a)
<1>. DEFINE D == 1..Len(a)
            E == Elements(a)
            f == [i \in D |-> a[i]]
<1>1. Len(a) \in Nat
  OBVIOUS
<1>2. IsFiniteSet(D) /\ Cardinality(D) = Len(a)
  <2>1. IsFiniteSet(1..Len(a)) /\ Cardinality(1..Len(a)) = IF 1 > Len(a) THEN 0 ELSE Len(a) - 1 + 1
    BY <1>1, FS_Interval
  <2>. QED
    BY <1>1, <2>1
<1>3. f \in Surjection(D, E)
  BY Zenon DEF Surjection, Elements
<1>4. IsFiniteSet(E) /\ Cardinality(E) <= Cardinality(D)
  <2>. HIDE DEF D, E, f
  <2>. QED
    BY Zenon, <1>2, <1>3, FS_Surjection
<1>5. IsFiniteSet(E \ {t}) /\ Cardinality(E \ {t}) = Cardinality(E) - 1
  <2>1. t \in E
    OBVIOUS
  <2>. HIDE DEF E
  <2>2. IsFiniteSet(E \ {t}) /\ Cardinality(E \ {t}) = IF t \in E THEN Cardinality(E) - 1 ELSE Cardinality(E)
    BY ONLY Zenon, <1>4, FS_RemoveElement
  <2>. QED
    BY Zenon, <2>1, <2>2
<1>6. IsFiniteSet(S) /\ Cardinality(S) <= Cardinality(E \ {t})
  BY Zenon, <1>5, FS_Subset
<1>7. Cardinality(S) \in Nat /\ Cardinality(E) \in Nat
  BY Zenon, <1>4, <1>6, FS_CardinalityType
<1>. HIDE DEF D, E
<1>. QED
  BY <1>1, <1>2, <1>4, <1>5, <1>6, <1>7

\* Of a key that no task in the run writes, nothing changes.
LEMMA AppliedElsewhere ==
  ASSUME NEW a \in Seq(Nat), NEW outcome, NEW k \in Key, l2' \in Applied(a, outcome),
         \A id \in Elements(a) : task[id].key # k
  PROVE  l2'[k] = l2[k]
<1>1. DOMAIN a = 1..Len(a)
  OBVIOUS
<1>2. Writes(a, k) = {}
  BY Zenon, <1>1 DEF Writes, Elements
<1>3. l2'[k] \in Left(a, k, outcome)
  BY Zenon DEF Applied
<1>. QED
  BY Zenon, <1>2, <1>3 DEF Left

\* A panic takes along one task besides the batch, and the batch is not empty.
LEMMA DeliverLoses ==
  ASSUME IInv, FateInv, NEW w \in Worker, NEW outcome, DeliverRun(w, outcome), NEW v \in Worker
  PROVE  LostInv(v)'
<1>. DEFINE a == wk[w].run
            D == Met(v, "dropped")
            N == Met(v, "panicked")
<1>1. task' = task /\ \A id \in Ids : fate'[id] = Becomes(w, outcome, id)
  BY Zenon, DeliverTypes
<1>2. Ids' = Ids /\ Gone(w, outcome) \subseteq QueuedIn(w)
  BY Zenon, DeliverServes
<1>3. \A id \in Gone(w, outcome) : id \in Ids /\ fate[id] = "queued" /\ WorkerOf[task[id].key] = w
  BY Zenon, <1>2 DEF QueuedIn, Queued
<1>4. LostInv(v) /\ TypeOK
  BY Zenon DEF FateInv, IInv
<1>5. a \in Seq(Nat) /\ a # <<>>
  BY Zenon, RunIsQueued DEF DeliverRun, IInv, FlusherOK
<1>6. IsFiniteSet(Ids)
  <2>1. Len(task) \in Nat
    BY <1>4 DEF TypeOK
  <2>. QED
    BY <2>1, FS_Interval DEF Ids
<1>7. D \subseteq Ids /\ N \subseteq Ids /\ D' \subseteq Ids /\ N' \subseteq Ids
  BY Zenon, <1>2 DEF Met
<1>8. /\ IsFiniteSet(D) /\ IsFiniteSet(N) /\ IsFiniteSet(D') /\ IsFiniteSet(N')
      /\ Cardinality(D) \in Nat /\ Cardinality(N) \in Nat /\ Cardinality(D') \in Nat /\ Cardinality(N') \in Nat
  BY Zenon, <1>6, <1>7, FS_Subset, FS_CardinalityType
<1>9. Cardinality(D) <= Cardinality(N)
  BY Zenon, <1>4 DEF LostInv
<1>10. N \subseteq N'
  <2>1. SUFFICES ASSUME NEW id \in N PROVE id \in N'
    BY Zenon
  <2>2. id \in Ids /\ fate[id] = "panicked" /\ WorkerOf[task[id].key] = v
    BY Zenon DEF Met
  <2>3. id \notin Gone(w, outcome)
    BY Zenon, <1>3, <2>2
  <2>4. fate'[id] = "panicked"
    BY Zenon, <1>1, <2>2, <2>3 DEF Becomes, Gone
  <2>. QED
    BY Zenon, <1>1, <1>2, <2>2, <2>4 DEF Met
<1>11. D' \subseteq D \cup Lost(w, outcome)
  <2>1. SUFFICES ASSUME NEW id \in D', id \notin Lost(w, outcome) PROVE id \in D
    BY Zenon
  <2>2. id \in Ids /\ fate'[id] = "dropped" /\ WorkerOf[task[id].key] = v
    BY Zenon, <1>1, <1>2 DEF Met
  <2>3. fate[id] = "dropped"
    BY Zenon, <1>1, <2>1, <2>2 DEF Becomes, FateAfter
  <2>. QED
    BY Zenon, <2>2, <2>3 DEF Met
<1>. HIDE DEF D, N
<1>12. CASE D' \subseteq D
  <2>1. Cardinality(D') <= Cardinality(D) /\ Cardinality(N) <= Cardinality(N')
    BY Zenon, <1>8, <1>10, <1>12, FS_Subset
  <2>2. Cardinality(D') <= Cardinality(N')
    BY <1>8, <1>9, <2>1
  <2>. QED
    BY Zenon, <2>2 DEF LostInv, D, N
<1>13. CASE ~(D' \subseteq D)
  <2>1. PICK x \in D' : x \in Lost(w, outcome)
    BY Zenon, <1>11, <1>13
  <2>2. outcome = "panic" /\ Lost(w, outcome) = {x}
    BY Zenon, <2>1 DEF Lost
  <2>3. v = w
    <3>1. x \in Gone(w, outcome) /\ WorkerOf[task[x].key] = v
      BY Zenon, <1>1, <2>1 DEF Gone, D, Met
    <3>. QED
      BY Zenon, <1>3, <3>1
  <2>4. 1 \in 1..Len(a)
    <3>. HIDE DEF a
    <3>. QED
      BY <1>5
  <2>5. PICK y \in Elements(a) : TRUE
    BY Zenon, <2>4 DEF Elements
  <2>6. y \in Ids /\ fate[y] = "queued" /\ WorkerOf[task[y].key] = w
    BY Zenon, <1>3, <2>5 DEF Gone
  <2>7. y \in N' /\ y \notin N
    <3>1. fate'[y] = "panicked"
      BY Zenon, <1>1, <2>2, <2>5, <2>6 DEF Becomes, FateAfter
    <3>. QED
      BY Zenon, <1>1, <1>2, <2>3, <2>6, <3>1 DEF N, Met
  <2>8. IsFiniteSet(N \cup {y}) /\ Cardinality(N \cup {y}) = Cardinality(N) + 1
    BY <1>8, <2>7, FS_AddElement
  <2>9. N \cup {y} \subseteq N'
    BY Zenon, <1>10, <2>7
  <2>10. Cardinality(N) + 1 <= Cardinality(N')
    BY Zenon, <1>8, <2>8, <2>9, FS_Subset
  <2>11. IsFiniteSet(D \cup {x}) /\ Cardinality(D \cup {x}) <= Cardinality(D) + 1
    <3>1. IsFiniteSet(D \cup {x}) /\ Cardinality(D \cup {x}) = IF x \in D THEN Cardinality(D) ELSE Cardinality(D) + 1
      BY <1>8, FS_AddElement
    <3>. QED
      BY <1>8, <3>1
  <2>12. Cardinality(D') <= Cardinality(D \cup {x})
    BY Zenon, <1>11, <2>2, <2>11, FS_Subset
  <2>13. Cardinality(D \cup {x}) \in Nat
    BY Zenon, <2>11, FS_CardinalityType
  <2>14. Cardinality(D') <= Cardinality(N')
    BY <1>8, <1>9, <2>10, <2>11, <2>12, <2>13
  <2>. QED
    BY Zenon, <2>14 DEF LostInv, D, N
<1>. QED
  BY Zenon, <1>12, <1>13

\* After a delivery, a key in the batch with one caller and no failures holds a
\* write of the batch: what was handed over before is older, so whatever is newer
\* comes later in the batch.
LEMMA DeliverLevel ==
  ASSUME IInv, FateInv, NEW w \in Worker, NEW outcome, DeliverRun(w, outcome), NEW k \in Key
  PROVE  LevelInv(k)'
<1>. DEFINE a == wk[w].run
            P == Pending(w)
<1>1. task' = task /\ \A id \in Ids : fate'[id] = Becomes(w, outcome, id)
  BY Zenon, DeliverTypes
<1>2. Ids' = Ids /\ Gone(w, outcome) \subseteq QueuedIn(w)
  BY Zenon, DeliverServes
<1>3. /\ a \in Seq(Nat) /\ Len(a) \in Nat /\ Len(a) <= Len(P)
      /\ \A m \in 1..Len(a) : P[m] = a[m]
      /\ Elements(a) \subseteq QueuedIn(w)
  BY Zenon, RunIsQueued DEF DeliverRun
<1>4. TypeOK /\ Lined(P, QueuedIn(w)) /\ OrderInv /\ LevelInv(k) /\ RunInv(w) /\ wk[w].at = "deliver"
  BY Zenon DEF IInv, FateInv, PendingInv, DeliverRun
<1>5. l2' \in Applied(a, outcome)
  BY Zenon DEF DeliverRun
<1>6. Gone(w, outcome) \subseteq Ids /\ Elements(a) \subseteq Gone(w, outcome)
  BY Zenon, <1>2 DEF QueuedIn, Queued, Gone
<1>7. CASE \A id \in Gone(w, outcome) : task[id].key # k
  <2>1. l2'[k] = l2[k]
    <3>. HIDE DEF a
    <3>. QED
      BY Zenon, <1>3, <1>5, <1>6, <1>7, AppliedElsewhere
  <2>2. ASSUME NEW i \in Ids, task[i].key = k PROVE fate'[i] = fate[i]
    BY Zenon, <1>1, <1>7, <2>2 DEF Becomes, Gone
  <2>3. Handed(k)' = Handed(k)
    BY Zenon, <1>1, <1>2, <2>2 DEF Handed
  <2>. QED
    BY Zenon, <1>1, <1>2, <1>4, <2>1, <2>2, <2>3, LevelStill
<1>8. CASE \E id \in Gone(w, outcome) : task[id].key = k
  <2>1. SUFFICES ASSUME Plain(k)' PROVE Held(k)'
    BY Zenon DEF LevelInv
  <2>2. \A i, j \in Ids : task[i].key = k /\ task[j].key = k =>
          task[i].by = task[j].by /\ fate'[i] \in {"calling", "queued", "handed"}
    BY Zenon, <1>1, <1>2, <2>1 DEF Plain
  <2>3. PICK id \in Gone(w, outcome) : task[id].key = k
    BY Zenon, <1>8
  <2>4. outcome = "ok" /\ id \in Elements(a)
    <3>1. \/ id \in Elements(a) /\ fate'[id] = FateAfter(outcome)
          \/ fate'[id] = "dropped"
      BY Zenon, <1>1, <1>6 DEF Becomes, Gone
    <3>2. fate'[id] \in {"calling", "queued", "handed"}
      BY Zenon, <1>6, <2>2, <2>3
    <3>. QED
      BY Zenon, <3>1, <3>2 DEF FateAfter
  <2>5. DOMAIN a = 1..Len(a)
    <3>. HIDE DEF a
    <3>. QED
      BY <1>3
  <2>6. Writes(a, k) # {} /\ Writes(a, k) \in SUBSET (1..Len(a))
    BY Zenon, <2>3, <2>4, <2>5 DEF Writes, Elements
  <2>7. PICK m \in Writes(a, k) :
          /\ l2'[k] = a[m]
          /\ InOrder \/ task[a[1]].kind = "del" => \A n \in Writes(a, k) : n <= m
    <3>1. l2'[k] \in {a[n] : n \in Lasting(a, k)}
      BY Zenon, <1>5, <2>4, <2>6 DEF Applied, Left
    <3>2. PICK m \in Lasting(a, k) : l2'[k] = a[m]
      BY Zenon, <3>1
    <3>3. Max(Writes(a, k)) \in Writes(a, k) /\ \A n \in Writes(a, k) : n <= Max(Writes(a, k))
      BY Zenon, <1>3, <2>6, Largest
    <3>. QED
      BY Zenon, <3>2, <3>3 DEF Lasting
  <2>. DEFINE t == a[m]
  <2>8. m \in 1..Len(a) /\ task[t].key = k /\ t \in Elements(a)
    BY Zenon, <2>5 DEF Writes, Elements
  <2>9. t \in Ids /\ t \in QueuedIn(w) /\ fate[t] = "queued" /\ fate'[t] = "handed"
    <3>1. t \in Ids /\ t \in QueuedIn(w) /\ fate[t] = "queued"
      BY Zenon, <1>3, <2>8 DEF QueuedIn, Queued
    <3>2. fate'[t] = FateAfter(outcome)
      BY Zenon, <1>1, <2>8, <3>1 DEF Becomes
    <3>. QED
      BY Zenon, <2>4, <3>1, <3>2 DEF FateAfter
  <2>10. ASSUME NEW i \in Later(k)'
         PROVE  i \in Ids /\ \E n \in Writes(a, k) : a[n] = i /\ n # m /\ ~(n < m)
    <3>1. i \in Ids /\ task[i].key = k /\ fate'[i] = "handed" /\ i > t
      BY Zenon, <1>1, <1>2, <2>7 DEF Later, Handed
    <3>2. t < i /\ t # i
      BY <2>9, <3>1, SMTT(60) DEF Ids
    <3>3. SameKey(t, i)
      BY Zenon, <2>2, <2>8, <2>9, <3>1, <3>2 DEF SameKey
    <3>4. fate[i] # "handed"
      BY Zenon, <1>4, <2>9, <3>1, <3>3 DEF OrderInv
    <3>5. i \in Elements(a)
      BY Zenon, <1>1, <3>1, <3>4 DEF Becomes
    <3>6. PICK n \in 1..Len(a) : a[n] = i
      BY Zenon, <3>5 DEF Elements
    <3>7. n \in Writes(a, k)
      BY Zenon, <2>5, <3>1, <3>6 DEF Writes
    <3>8. n # m
      BY Zenon, <3>2, <3>6
    <3>9. ~(n < m)
      <4>1. Len(P) \in Nat
        BY Zenon, <1>4, PendingIsSeq
      <4>. HIDE DEF a, P, t
      <4>2. n \in 1..Len(P) /\ m \in 1..Len(P)
        BY <1>3, <2>8, <3>6, <4>1
      <4>3. P[n] = i /\ P[m] = t
        BY Zenon, <1>3, <2>8, <3>6 DEF t
      <4>4. i \in QueuedIn(w)
        BY Zenon, <1>3, <3>5
      <4>. QED
        BY Zenon, <1>4, <2>9, <3>3, <4>2, <4>3, <4>4 DEF Lined
    <3>. QED
      BY Zenon, <3>1, <3>6, <3>7, <3>8, <3>9
  <2>. HIDE DEF t, P
  <2>11. InOrder \/ task[a[1]].kind = "del" => Later(k)' = {}
    <3>1. SUFFICES ASSUME InOrder \/ task[a[1]].kind = "del", NEW i \in Later(k)' PROVE FALSE
      BY Zenon
    <3>2. PICK n \in Writes(a, k) : n # m /\ ~(n < m)
      BY Zenon, <2>10, <3>1
    <3>3. n <= m
      BY Zenon, <2>7, <3>1
    <3>4. n \in Nat /\ m \in Nat
      <4>. HIDE DEF a
      <4>. QED
        BY <1>3, <2>6, <2>8
    <3>. QED
      BY <3>2, <3>3, <3>4
  <2>12. /\ Len(a) <= BatchMax /\ a[1] = wk[w].first
         /\ \A n \in 1..Len(a) : task[a[n]].kind = task[wk[w].first].kind
    BY Zenon, <1>4 DEF RunInv
  <2>13. ASSUME NEW i \in Later(k)' PROVE task[i].kind = task[t].kind /\ task[i].kind # "del"
    <3>1. PICK n \in Writes(a, k) : a[n] = i
      BY Zenon, <2>10
    <3>2. task[i].kind = task[a[1]].kind /\ task[t].kind = task[a[1]].kind
      BY Zenon, <2>6, <2>8, <2>12, <3>1 DEF t
    <3>. QED
      BY Zenon, <2>11, <3>2
  <2>14. Cardinality(Later(k)') < BatchMax
    <3>1. Later(k)' \subseteq Elements(a) \ {t}
      <4>1. SUFFICES ASSUME NEW i \in Later(k)' PROVE i \in Elements(a) /\ i # t
        BY Zenon
      <4>2. PICK n \in Writes(a, k) : a[n] = i
        BY Zenon, <2>10
      <4>3. i \in Elements(a)
        BY Zenon, <2>6, <4>2 DEF Elements
      <4>4. i > t /\ i \in Ids
        BY Zenon, <2>7, <2>10 DEF Later, t
      <4>5. i # t
        BY <4>4, SMTT(60) DEF Ids
      <4>. QED
        BY Zenon, <4>3, <4>5
    <3>. HIDE DEF a
    <3>2. Later(k)' \in SUBSET (Elements(a) \ {t})
      BY Zenon, <3>1
    <3>3. Cardinality(Later(k)') < Len(a)
      BY Zenon, <1>3, <2>8, <3>2, FewerThan
    <3>4. IsFiniteSet(Later(k)')
      <4>1. Len(task) \in Nat
        BY <1>4 DEF TypeOK
      <4>2. IsFiniteSet(Ids)
        BY <4>1, FS_Interval DEF Ids
      <4>3. Later(k)' \subseteq Ids
        BY Zenon, <2>10
      <4>. QED
        BY Zenon, <4>2, <4>3, FS_Subset
    <3>5. Cardinality(Later(k)') \in Nat
      BY Zenon, <3>4, FS_CardinalityType
    <3>. QED
      BY <1>3, <2>12, <3>3, <3>5, WriteBackAssumption
  <2>15. l2'[k] = t
    BY Zenon, <2>7 DEF t
  <2>. QED
    BY Zenon, <1>1, <1>2, <2>8, <2>9, <2>11, <2>13, <2>14, <2>15 DEF Held
<1>. QED
  BY Zenon, <1>7, <1>8

\* A delivery: its worker has no run any more, and its tasks met their fates.
LEMMA DeliverFates ==
  ASSUME IInv, FateInv, NEW w \in Worker, NEW outcome, DeliverRun(w, outcome)
  PROVE  FateInv'
<1>1. /\ UNCHANGED <<task, must>> /\ \A v \in Worker \ {w} : wk'[v] = wk[v]
      /\ \A id \in Ids : fate'[id] = Becomes(w, outcome, id)
  BY Zenon, DeliverTypes
<1>2. Ids' = Ids
  BY Zenon, DeliverServes
<1>3. wk'[w].at \notin {"collect", "deliver"}
  <2>1. wk \in [Worker -> Flushers] /\ wk[w].home \in Places
    BY Zenon DEF IInv, TypeOK, Flushers
  <2>2. \/ wk'[w] = AtHome(wk[w].home)
        \/ wk'[w] = [AtHome(wk[w].home) EXCEPT !.at = "flush", !.first = wk[w].next]
    BY Zenon, <2>1 DEF DeliverRun
  <2>3. wk'[w].at \in {wk[w].home, "flush"}
    <3>1. PICK h : h = wk[w].home
      BY Zenon
    <3>2. PICK x : x = wk[w].next
      BY Zenon
    <3>3. wk'[w] = AtHome(h) \/ wk'[w] = [AtHome(h) EXCEPT !.at = "flush", !.first = x]
      BY Zenon, <2>2, <3>1, <3>2
    <3>4. AtHome(h).at = h /\ [AtHome(h) EXCEPT !.at = "flush", !.first = x].at = "flush"
      BY Zenon DEF AtHome
    <3>. QED
      BY Zenon, <3>1, <3>3, <3>4
  <2>. QED
    BY Zenon, <2>1, <2>3 DEF Places
<1>4. ASSUME NEW v \in Worker PROVE RunInv(v)'
  <2>1. CASE v = w
    BY Zenon, <1>3, <2>1 DEF RunInv
  <2>2. CASE v # w
    <3>1. RunInv(v) /\ wk'[v] = wk[v]
      BY Zenon, <1>1, <2>2 DEF FateInv
    <3>. QED
      BY Zenon, <1>1, <3>1 DEF RunInv
  <2>. QED
    BY Zenon, <2>1, <2>2
<1>5. ASSUME NEW c \in Waiter PROVE MustInv(c)'
  <2>1. SUFFICES ASSUME NEW id \in must[c] PROVE id \in Ids /\ fate'[id] \notin {"calling", "synced"}
    BY Zenon, <1>1, <1>2 DEF MustInv
  <2>2. id \in Ids /\ fate[id] \notin {"calling", "synced"}
    BY Zenon DEF FateInv, MustInv
  <2>. QED
    BY Zenon, <1>1, <2>2 DEF Becomes, FateAfter
<1>. QED
  BY Zenon, <1>4, <1>5, DeliverLoses, DeliverLevel DEF FateInv

\* The calls: only the end of one changes a fate, from calling.
LEMMA CallFates ==
  ASSUME IInv, FateInv, NEW c \in Caller, CallStep(c)
  PROVE  FateInv'
<1>1. PICK id : id = call[c].id
  BY Zenon
<1>2. TypeOK /\ (call[c].at # "idle" => id \in Ids)
  BY Zenon, <1>1 DEF IInv, CallInv
<1>3. ASSUME UNCHANGED <<task, fate, l2, wk, must>> PROVE FateInv'
  BY Zenon, <1>3, FatesStill DEF FateInv
<1>4. CASE CheckStop(c)
  BY Zenon, <1>3, <1>4 DEF CheckStop
<1>5. CASE Send(c)
  <2>1. CASE UNCHANGED fate
    BY Zenon, <1>3, <1>5, <2>1 DEF Send
  <2>2. CASE fate' # fate
    <3>1. Ends(c, id, "queued") /\ l2' = l2
      BY Zenon, <1>1, <1>5, <2>2 DEF Send, Ends, Fates
    <3>. QED
      BY Zenon, <3>1, EndFates
  <2>. QED
    BY Zenon, <2>1, <2>2
<1>6. ASSUME NEW outcome \in Outcome, Sync(c, outcome) PROVE FateInv'
  <2>. DEFINE x == IF outcome = "ok" THEN "synced" ELSE "failed"
  <2>1. l2' \in Applied(<<id>>, outcome) /\ call[c].at # "idle"
    BY Zenon, <1>1, <1>6 DEF Sync
  <2>2. x \in {"synced", "failed"}
    BY Zenon
  <2>3. Ends(c, id, x)
    BY Zenon, <1>1, <1>6 DEF Sync, Ends, Fates
  <2>. HIDE DEF x
  <2>4. <<id>> \in Seq(Nat) /\ Elements(<<id>>) = {id}
    <3>1. id \in Nat
      BY <1>2, <2>1 DEF Ids
    <3>. QED
      BY <3>1, SMTT(60) DEF Elements
  <2>5. \A k \in Key : k # task[id].key => l2'[k] = l2[k]
    BY Zenon, <2>1, <2>4, AppliedElsewhere
  <2>. QED
    BY Zenon, <2>2, <2>3, <2>5, EndFates
<1>. QED
  BY Zenon, <1>4, <1>5, <1>6 DEF CallStep

\* Wait covers the tasks that are queued when it begins; its other steps, and
\* those of Close, concern no task.
LEMMA WaitFates ==
  ASSUME IInv, FateInv, NEW c \in Waiter, WaitBegin(c) \/ WaitStep(c)
  PROVE  FateInv'
<1>1. UNCHANGED <<task, fate, l2, wk>> /\ Ids' = Ids
  BY Zenon DEF WaitBegin, WaitStep, WaitPut, WaitGet, WaitStopped, Ids
<1>2. /\ \A w \in Worker : LostInv(w)' /\ RunInv(w)'
      /\ \A k \in Key : LevelInv(k)'
      /\ \A d \in Waiter : must'[d] = must[d] => MustInv(d)'
  BY Zenon, <1>1, FatesStill
<1>3. ASSUME NEW d \in Waiter PROVE must'[d] = must[d] \/ must'[d] = Queued
  <2>1. must \in [Waiter -> SUBSET Nat]
    BY Zenon DEF IInv, TypeOK
  <2>. QED
    BY Zenon, <2>1 DEF WaitBegin, WaitStep, WaitPut, WaitGet, WaitStopped
<1>4. ASSUME NEW d \in Waiter, must'[d] = Queued PROVE MustInv(d)'
  BY Zenon, <1>1, <1>4 DEF MustInv, Queued
<1>. QED
  BY Zenon, <1>2, <1>3, <1>4 DEF FateInv

\* FateInv holds before the first call.
LEMMA InitFates ==
  ASSUME Init
  PROVE  FateInv
<1>1. Ids = {}
  BY DEF Init, Ids
<1>2. \A k \in Key : LevelInv(k)
  BY Zenon, <1>1 DEF LevelInv, Handed
<1>3. \A c \in Waiter : MustInv(c)
  BY Zenon DEF Init, MustInv
<1>4. ASSUME NEW w \in Worker PROVE RunInv(w) /\ LostInv(w)
  <2>1. wk[w].at = "loop"
    BY Zenon DEF Init, AtHome
  <2>2. Met(w, "dropped") = {} /\ Met(w, "panicked") = {}
    BY Zenon, <1>1 DEF Met
  <2>3. LostInv(w)
    BY <2>2, FS_EmptySet DEF LostInv
  <2>. QED
    BY Zenon, <2>1, <2>3 DEF RunInv
<1>. QED
  BY Zenon, <1>2, <1>3, <1>4 DEF FateInv

\* No step breaks it.
LEMMA NextFates ==
  ASSUME IInv, FateInv, [Next]_vars
  PROVE  FateInv'
<1>1. ASSUME NEW w \in Worker, FlushStep(w) PROVE FateInv'
  BY Zenon, <1>1, RunSteps, DeliverFates DEF FlushStep
<1>2. CASE CloseBegin \/ CloseWait \/ CloseNext \/ UNCHANGED vars
  <2>1. UNCHANGED <<task, fate, l2, wk, must>>
    BY Zenon, <1>2 DEF CloseBegin, CloseWait, CloseNext, vars
  <2>. QED
    BY Zenon, <2>1, FatesStill DEF FateInv
<1>. QED
  BY Zenon, <1>1, <1>2, CallFates, BeginFates, WaitFates DEF Next

-----------------------------------------------------------------------------
(***************************************************************************)
(* The results.                                                            *)
(***************************************************************************)

\* Before the first call.
LEMMA InitInv ==
  ASSUME Init
  PROVE  IInv
<1>1. Ids = {} /\ Queued = {} /\ \A w \in Worker : QueuedIn(w) = {}
  BY DEF Init, Ids, Queued, QueuedIn
<1>2. 1 \in Worker
  BY WriteBackAssumption, SMTT(60) DEF Worker
<1>3. TypeOK
  <2>1. AtHome("loop") \in Flushers
    BY DEF AtHome, Flushers, Places, Items, None
  <2>2. task \in Seq(Tasks) /\ fate \in Seq(Fates) /\ Len(fate) = Len(task)
    BY DEF Init
  <2>3. queue \in [Worker -> Seq(Items)]
    BY DEF Init
  <2>4. call \in [Caller -> [at : {"idle", "check", "send", "sync"}, id : Nat]]
    BY Zenon DEF Init, Idle, None
  <2>. QED
    BY Zenon, <1>2, <2>1, <2>2, <2>3, <2>4 DEF Init, TypeOK, None
<1>4. ASSUME NEW w \in Worker PROVE FlusherOK(wk[w]) /\ PendingInv(w) /\ HomeInv(w) /\ Len(Pending(w)) = 0
  <2>1. wk[w] = AtHome("loop") /\ queue[w] = <<>>
    BY Zenon DEF Init
  <2>2. FlusherOK(wk[w])
    BY <2>1 DEF FlusherOK, AtHome, Places
  <2>3. InHand(wk[w]) = <<>>
    <3>1. wk[w].at = "loop"
      BY <2>1 DEF AtHome
    <3>. QED
      BY Zenon, <3>1 DEF InHand
  <2>4. Len(Pending(w)) = 0
    BY <2>1, <2>3, SMTT(60) DEF Pending
  <2>5. PendingInv(w)
    BY <1>1, <2>4, SMTT(60) DEF PendingInv, Lined
  <2>6. HomeInv(w)
    BY <2>1 DEF HomeInv, AtHome
  <2>. QED
    BY Zenon, <2>2, <2>4, <2>5, <2>6
<1>5. ASSUME NEW c \in Waiter, NEW w \in Worker PROVE MarkerInv(c, w)
  <2>1. wk[w].marker # c
    BY Zenon, MarkersAreNoTasks DEF Init, AtHome
  <2>2. MarkedInv(c, w)
    BY Zenon, <2>1 DEF Init, MarkedInv
  <2>3. Behind(Pending(w), c, Owes(c, w)) /\ Absent(Pending(w), c)
    BY <1>4, SMTT(60) DEF Behind, Absent
  <2>. QED
    BY Zenon, <2>2, <2>3 DEF MarkerInv
<1>6. \A c \in Waiter : WaitInv(c)
  BY Zenon DEF Init, WaitInv
<1>7. (\A c \in Caller : CallInv(c)) /\ CallingInv
  BY Zenon, <1>1 DEF Init, CallInv, CallingInv, Idle
<1>8. OrderInv
  BY Zenon, <1>1 DEF OrderInv
<1>9. CloseInv
  BY Zenon DEF Init, CloseInv, Stopped
<1>. QED
  BY Zenon, <1>3, <1>4, <1>5, <1>6, <1>7, <1>8, <1>9 DEF IInv

\* No step breaks the invariant.
LEMMA NextInv ==
  ASSUME IInv, [Next]_vars
  PROVE  IInv'
<1>1. ASSUME NEW c \in Caller, CallStep(c) PROVE IInv'
  BY Zenon, <1>1, CheckStopStep, SendStep, SyncStep DEF CallStep
<1>2. ASSUME NEW c \in Caller, NEW k \in Key, NEW kind \in Kind, Begin(c, k, kind) PROVE IInv'
  BY Zenon, <1>2, BeginStep
<1>3. ASSUME NEW w \in Worker, FlushStep(w) PROVE IInv'
  BY Zenon, <1>3, ReceiveStep, HomeStep, FlushWriteStep, FlushRunStep, DeliverStep DEF FlushStep
<1>4. ASSUME NEW c \in Waiter, WaitBegin(c) \/ WaitStep(c) PROVE IInv'
  BY Zenon, <1>4, WaitBeginStep, WaitPutStep, WaitGetStep, WaitStoppedStep DEF WaitStep
<1>5. CASE CloseBegin \/ CloseWait \/ CloseNext
  BY Zenon, <1>5, CloseBeginStep, CloseStep
<1>6. CASE UNCHANGED vars
  <2>1. /\ UNCHANGED <<task, fate, l2, queue, wk, released>> /\ UNCHANGED <<wait, must>>
        /\ UNCHANGED call /\ UNCHANGED <<closing, racing>>
    BY Zenon, <1>6 DEF vars
  <2>2. TypeOK'
    BY Zenon, <2>1 DEF IInv, TypeOK
  <2>3. CloseInv'
    BY Zenon, <2>1 DEF IInv, CloseInv, Stopped
  <2>. QED
    BY Zenon, <2>1, <2>2, <2>3, Still DEF IInv
<1>. QED
  BY Zenon, <1>1, <1>2, <1>3, <1>4, <1>5, <1>6 DEF Next

\* The invariant holds in every reachable state, for any number of callers,
\* waiters, keys and workers, any queue and batch size and any outcome of the
\* adapter calls.
THEOREM Inductive == Spec => []IInv
<1>1. Init => IInv
  BY Zenon, InitInv
<1>2. IInv /\ [Next]_vars => IInv'
  BY Zenon, NextInv
<1>. QED
  BY <1>1, <1>2, PTL DEF Spec

\* And so does what it says of the fates of the tasks.
THEOREM FatesInductive == Spec => [](IInv /\ FateInv)
<1>1. Init => IInv /\ FateInv
  BY Zenon, InitInv, InitFates
<1>2. (IInv /\ FateInv) /\ [Next]_vars => (IInv /\ FateInv)'
  BY Zenon, NextInv, NextFates
<1>. QED
  BY <1>1, <1>2, PTL DEF Spec

\* A task that was accepted into a queue is before its own worker, in exactly one
\* place, until the adapter is called with it: flushRun and deliverRun lose and
\* repeat nothing, except that a panic of the adapter takes along at most one task
\* besides those of its batch.
THEOREM QueueLosesNothing == Spec => []NothingLost
<1>1. ASSUME IInv, FateInv PROVE NothingLost
  <2>1. ASSUME NEW w \in Worker
        PROVE  /\ IsInjective(Pending(w))
               /\ \A id \in Ids : id \in Range(Pending(w)) <=> id \in QueuedIn(w)
    <3>. DEFINE P == Pending(w)
    <3>1. P \in Seq(Items) /\ Lined(P, QueuedIn(w))
      BY Zenon, <1>1, PendingIsSeq DEF IInv, PendingInv
    <3>. HIDE DEF P
    <3>2. DOMAIN P = 1..Len(P)
      BY <3>1
    <3>3. IsInjective(P)
      BY Zenon, <3>1, <3>2 DEF Lined, IsInjective
    <3>4. ASSUME NEW id \in Ids PROVE id \in Range(P) <=> id \in QueuedIn(w)
      <4>1. id \notin Waiter
        BY WriteBackAssumption DEF Ids
      <4>. QED
        BY <3>1, <3>2, <4>1 DEF Lined, Range
    <3>. QED
      BY Zenon, <3>3, <3>4 DEF P
  <2>2. ASSUME NEW id \in Ids, NEW w \in Worker
        PROVE  id \in QueuedIn(w) <=> fate[id] = "queued" /\ WorkerOf[task[id].key] = w
    BY Zenon DEF QueuedIn, Queued
  <2>3. \A w \in Worker : Cardinality(Met(w, "dropped")) <= Cardinality(Met(w, "panicked"))
    BY Zenon, <1>1 DEF FateInv, LostInv
  <2>. QED
    BY Zenon, <2>1, <2>2, <2>3 DEF NothingLost
<1>. QED
  BY <1>1, FatesInductive, PTL

\* Tasks of one caller and key that go through the queue are handed over in the
\* order they were issued in.  Once all of them were delivered the second level
\* holds the last, if the adapter applies a batch in order, and otherwise a write
\* of the last batch, with fewer than BatchMax newer writes, all of one lifetime:
\* neither the batches of flushRun nor the sharing of a queue by several keys
\* change that.
THEOREM QueueKeepsOrder == Spec => []QueuedInOrder
<1>1. ASSUME IInv, FateInv PROVE QueuedInOrder
  <2>1. \A i, j \in Ids : (SameKey(i, j) /\ fate[i] = "queued") => fate[j] # "handed"
    BY Zenon, <1>1 DEF IInv, OrderInv
  <2>2. ASSUME NEW j \in Ids, NEW k, k = task[j].key,
               \A i \in Ids : task[i].key = k => fate[i] = "handed" /\ task[i].by = task[j].by
        PROVE  /\ l2[k] \in Ids /\ task[l2[k]].key = k
               /\ InOrder => Newer(k) = {}
               /\ \A i \in Newer(k) : task[i].kind = task[l2[k]].kind /\ task[i].kind # "del"
               /\ Cardinality(Newer(k)) < BatchMax
    <3>1. k \in Key
      BY Zenon, <1>1, <2>2, TaskType DEF IInv
    <3>2. Plain(k)
      BY Zenon, <2>2 DEF Plain
    <3>3. j \in Handed(k)
      BY Zenon, <2>2 DEF Handed
    <3>4. Held(k)
      BY Zenon, <1>1, <3>1, <3>2, <3>3 DEF FateInv, LevelInv
    <3>5. Later(k) = Newer(k)
      BY Zenon, <2>2 DEF Later, Newer, Handed
    <3>. QED
      BY Zenon, <3>4, <3>5 DEF Held
  <2>. QED
    BY Zenon, <2>1, <2>2 DEF QueuedInOrder
<1>. QED
  BY <1>1, FatesInductive, PTL

\* When Wait returns, unless because the cache closes, the adapter has been called
\* with every task that was queued before, also where a batch failed, but for
\* tasks whose worker has met a panic of the adapter.
THEOREM WaitIsABarrier == Spec => []WaitCovers
<1>1. ASSUME IInv, FateInv PROVE WaitCovers
  <2>1. SUFFICES ASSUME NEW c \in Waiter, wait[c].at = "flushed", NEW id \in must[c]
                 PROVE  \/ fate[id] \in {"handed", "failed", "panicked"}
                        \/ fate[id] = "dropped" /\ Met(WorkerOf[task[id].key], "panicked") # {}
    BY Zenon DEF WaitCovers
  <2>2. id \in Ids /\ fate[id] \notin {"calling", "synced"}
    BY Zenon, <1>1, <2>1 DEF FateInv, MustInv
  <2>3. task[id].key \in Key /\ fate[id] \in Fates
    BY Zenon, <1>1, <2>2, TaskType DEF IInv
  <2>4. PICK w \in Worker : w = WorkerOf[task[id].key]
    BY Zenon, <2>3, WriteBackAssumption
  <2>5. <<c, w>> \in released
    BY Zenon, <1>1, <2>1 DEF IInv, WaitInv
  <2>6. Owes(c, w) = {}
    BY Zenon, <1>1, <2>5 DEF IInv, MarkerInv, MarkedInv
  <2>7. fate[id] # "queued"
    BY Zenon, <2>1, <2>2, <2>4, <2>6 DEF Owes, QueuedIn, Queued
  <2>8. ASSUME fate[id] = "dropped" PROVE Met(w, "panicked") # {}
    <3>1. SUFFICES ASSUME Met(w, "panicked") = {} PROVE FALSE
      BY Zenon
    <3>. DEFINE D == Met(w, "dropped")
    <3>2. id \in D
      BY Zenon, <2>2, <2>4, <2>8 DEF Met
    <3>3. Cardinality(D) <= Cardinality({})
      BY Zenon, <1>1, <3>1 DEF FateInv, LostInv
    <3>4. IsFiniteSet(D)
      <4>1. Len(task) \in Nat
        BY <1>1 DEF IInv, TypeOK
      <4>2. IsFiniteSet(Ids)
        BY <4>1, FS_Interval DEF Ids
      <4>3. D \subseteq Ids
        BY Zenon DEF Met
      <4>. QED
        BY Zenon, <4>2, <4>3, FS_Subset
    <3>. HIDE DEF D
    <3>5. Cardinality(D) = 0
      <4>1. Cardinality(D) \in Nat
        BY Zenon, <3>4, FS_CardinalityType
      <4>2. Cardinality({}) = 0
        BY Zenon, FS_EmptySet
      <4>. QED
        BY <3>3, <4>1, <4>2
    <3>6. D = {}
      BY Zenon, <3>4, <3>5, FS_EmptySet
    <3>. QED
      BY Zenon, <3>2, <3>6
  <2>. QED
    BY Zenon, <2>2, <2>3, <2>4, <2>7, <2>8 DEF Fates
<1>. QED
  BY <1>1, FatesInductive, PTL

\* When Close has returned, a task is left in a queue only if its call overlapped
\* Close.
THEOREM CloseLeavesOnlyRaces == Spec => []CloseDrains
<1>1. ASSUME IInv PROVE CloseDrains
  <2>1. SUFFICES ASSUME closing.at = "closed", NEW id \in Queued PROVE id \in racing
    BY Zenon DEF CloseDrains
  <2>2. id \in Ids
    BY Zenon, <2>1 DEF Queued
  <2>3. task[id].key \in Key
    BY Zenon, <1>1, <2>2, TaskType DEF IInv
  <2>4. PICK w \in Worker : w = WorkerOf[task[id].key]
    BY Zenon, <2>3, WriteBackAssumption
  <2>5. id \in QueuedIn(w)
    BY Zenon, <2>1, <2>4 DEF QueuedIn
  <2>6. wk[w].home = "gone"
    BY Zenon, <1>1, <2>1 DEF IInv, CloseInv
  <2>. QED
    BY Zenon, <1>1, <2>5, <2>6 DEF IInv, HomeInv
<1>. QED
  BY <1>1, Inductive, PTL

=============================================================================
