----------------------------- MODULE WriteBack -----------------------------
(***************************************************************************)
(* The asynchronous writes to the second level (cache.go, batch.go): Set   *)
(* and Delete enqueue tasks into the bounded queue of the key's worker or, *)
(* when it is full or the cache is closed, run them themselves; workers    *)
(* coalesce tasks into batches; Wait sends markers through the queues;     *)
(* Close stops the workers and drains what is left.                        *)
(*                                                                         *)
(* A task is known by the number it is issued under, which also stands for *)
(* the value it writes; its kind is "del" or the lifetime of a write.      *)
(***************************************************************************)
EXTENDS Integers, Sequences, FiniteSetsExt

CONSTANTS Key,
          Kind,       \* "del" and one element per lifetime
          Caller,     \* goroutines that call Set and Delete
          Waiter,     \* goroutines that call Wait, once each
          NWorkers, WorkerOf,
          BufferSize, \* WriteBackBufferSize
          BatchMax,   \* WriteBackBatchMax
          Batching,   \* WriteBackBatching: "full", "none" or "adaptive"
          Outcome,    \* what an adapter call may do: "ok", "error", "panic"
          InOrder,    \* the adapter applies the items of a batch one after the other
          CanClose,   \* Close may be called
          MaxTasks    \* bound of the model

Worker == 1..NWorkers

ASSUME WriteBackAssumption ==
  /\ NWorkers \in Nat \ {0} /\ WorkerOf \in [Key -> Worker]
  /\ BufferSize \in Nat \ {0} /\ BatchMax \in Nat \ {0} /\ MaxTasks \in Nat
  /\ CanClose \in BOOLEAN /\ InOrder \in BOOLEAN /\ Waiter \intersect Nat = {}
  /\ Batching \in {"full", "none", "adaptive"}
  /\ Outcome \subseteq {"ok", "error", "panic"}

VARIABLES task,    \* the tasks issued, in order
          fate,    \* what became of each
          l2,      \* the second level: the task each key was last written by, or 0
          queue,   \* writeQueues: task numbers, and waiters for their markers
          wk,      \* what the goroutine that flushes each queue is doing
          call,    \* where each caller is, with its task
          wait,    \* where each waiter is
          released,\* the markers that were closed
          must,    \* the tasks that were queued when each Wait began
          closing, \* where Close is
          racing   \* the tasks whose calls overlap Close

vars == <<task, fate, l2, queue, wk, call, wait, released, must, closing, racing>>

Ids == 1..Len(task)
None == 0
Idle == [at |-> "idle", id |-> None]

\* The channel stop is closed first thing by Close.
Stopped == closing.at # "open"

\* A worker before its first task. home is where flushWrite returns to.
AtHome(home) == [at |-> home, home |-> home, first |-> None, run |-> <<>>,
                 next |-> None, marker |-> None]

Init ==
  /\ task = <<>> /\ fate = <<>> /\ l2 = [k \in Key |-> None]
  /\ queue = [w \in Worker |-> <<>>]
  /\ wk = [w \in Worker |-> AtHome("loop")]
  /\ call = [c \in Caller |-> Idle]
  /\ wait = [c \in Waiter |-> [at |-> "idle", i |-> 1]]
  /\ released = {} /\ must = [c \in Waiter |-> {}]
  /\ closing = [at |-> "open", i |-> 1] /\ racing = {}
-----------------------------------------------------------------------------
(***************************************************************************)
(* Set, SetWithTTL, Delete and their batches, past the first level.        *)
(***************************************************************************)

\* A caller reaches enqueueL2.
Begin(c, k, kind) ==
  /\ call[c].at = "idle" /\ Len(task) < MaxTasks
  /\ task' = Append(task, [key |-> k, kind |-> kind, by |-> c])
  /\ fate' = Append(fate, "calling")
  /\ call' = [call EXCEPT ![c] = [at |-> "check", id |-> Len(task) + 1]]
  /\ racing' = IF closing.at \in {"wait", "drain"} THEN racing \union {Len(task) + 1} ELSE racing
  /\ UNCHANGED <<l2, queue, wk, wait, released, must, closing>>

\* Variant: the check is missing.
CheckStopMissing(c) ==
  /\ call[c].at = "check"
  /\ call' = [call EXCEPT ![c].at = "send"]
  /\ UNCHANGED <<task, fate, l2, queue, wk, wait, released, must, closing, racing>>

\* The first select of enqueueL2: is the cache closed?
CheckStop(c) ==
  /\ call[c].at = "check"
  /\ call' = [call EXCEPT ![c].at = IF Stopped THEN "sync" ELSE "send"]
  /\ UNCHANGED <<task, fate, l2, queue, wk, wait, released, must, closing, racing>>

\* The second select: a buffered send, unless the queue is full.
Send(c) ==
  LET id == call[c].id
      w  == WorkerOf[task[id].key]
  IN  /\ call[c].at = "send"
      /\ IF Len(queue[w]) < BufferSize
         THEN /\ queue' = [queue EXCEPT ![w] = Append(@, id)]
              /\ fate' = [fate EXCEPT ![id] = "queued"]
              /\ call' = [call EXCEPT ![c] = Idle]
         ELSE /\ call' = [call EXCEPT ![c].at = "sync"]
              /\ UNCHANGED <<queue, fate>>
      /\ UNCHANGED <<task, l2, wk, wait, released, must, closing, racing>>

\* Where a run of tasks writes key k.
Writes(run, k) == {n \in DOMAIN run : task[run[n]].key = k}

\* The write of key k that stays when a run has been applied: the last.  Adapters
\* that set the items of a batch concurrently may leave any; of two deletes it
\* does not matter which is called the last.
Lasting(run, k) ==
  IF InOrder \/ task[run[1]].kind = "del" THEN {Max(Writes(run, k))} ELSE Writes(run, k)

\* What key k may hold after a call with a run.  One that failed may have applied
\* a part.
Left(run, k, outcome) ==
  IF Writes(run, k) = {} THEN {l2[k]}
  ELSE IF outcome = "ok" THEN {run[n] : n \in Lasting(run, k)}
  ELSE {l2[k]} \union {run[n] : n \in Writes(run, k)}

Applied(run, outcome) ==
  {m \in [Key -> {None} \union Ids] : \A k \in Key : m[k] \in Left(run, k, outcome)}

\* The synchronous call to the second level.
Sync(c, outcome) ==
  LET id == call[c].id
  IN  /\ call[c].at = "sync"
      /\ l2' \in Applied(<<id>>, outcome)
      /\ fate' = [fate EXCEPT ![id] = IF outcome = "ok" THEN "synced" ELSE "failed"]
      /\ call' = [call EXCEPT ![c] = Idle]
      /\ UNCHANGED <<task, queue, wk, wait, released, must, closing, racing>>
-----------------------------------------------------------------------------
(***************************************************************************)
(* The goroutine that flushes queue w: its worker, or Close at the end.    *)
(***************************************************************************)

IsMarker(x) == x \in Waiter

\* A task or marker is taken from the queue: the receive in writeBackLoop and
\* in Close.
Receive(w) ==
  /\ wk[w].at \in {"loop", "drain"} \/ (wk[w].at = "gone" /\ closing = [at |-> "drain", i |-> w])
  /\ queue[w] # <<>>
  /\ wk' = [wk EXCEPT ![w].at = "flush", ![w].first = Head(queue[w])]
  /\ queue' = [queue EXCEPT ![w] = Tail(@)]
  /\ UNCHANGED <<task, fate, l2, call, wait, released, must, closing, racing>>

\* The worker's select chose stop: what is left is flushed ...
StopWorker(w) ==
  /\ wk[w].at = "loop" /\ Stopped
  /\ wk' = [wk EXCEPT ![w] = AtHome("drain")]
  /\ UNCHANGED <<task, fate, l2, queue, call, wait, released, must, closing, racing>>

\* ... and the worker ends.
EndWorker(w) ==
  /\ wk[w].at = "drain" /\ queue[w] = <<>>
  /\ wk' = [wk EXCEPT ![w] = AtHome("gone")]
  /\ UNCHANGED <<task, fate, l2, queue, call, wait, released, must, closing, racing>>

\* Does flushWrite send the task on its own, with no look at the queue behind?
Single(w) ==
  /\ task[wk[w].first].kind # "del"
  /\ \/ Batching = "none"
     \/ Batching = "adaptive" /\ Len(queue[w]) <= BufferSize \div 2

\* The body of flushWrite's loop, up to flushRun.
FlushWrite(w) ==
  /\ wk[w].at = "flush"
  /\ IF IsMarker(wk[w].first)
     THEN /\ released' = released \union {<<wk[w].first, w>>}
          /\ wk' = [wk EXCEPT ![w] = AtHome(wk[w].home)]
     ELSE /\ wk' = [wk EXCEPT ![w].at = IF Single(w) THEN "deliver" ELSE "collect",
                              ![w].run = <<wk[w].first>>]
          /\ UNCHANGED released
  /\ UNCHANGED <<task, fate, l2, queue, call, wait, must, closing, racing>>

\* Variant: the task that ends a run is not kept.
FlushRunForgets(w) ==
  LET run  == wk[w].run
      more == Len(run) < BatchMax /\ queue[w] # <<>>
      x    == Head(queue[w])
  IN  /\ wk[w].at = "collect"
      /\ queue' = [queue EXCEPT ![w] = IF more THEN Tail(@) ELSE @]
      /\ wk' = IF ~more \/ (~IsMarker(x) /\ task[x].kind # task[wk[w].first].kind)
               THEN [wk EXCEPT ![w].at = "deliver"]
               ELSE IF IsMarker(x) THEN [wk EXCEPT ![w].at = "deliver", ![w].marker = x]
               ELSE [wk EXCEPT ![w].run = Append(run, x)]
      /\ UNCHANGED <<task, fate, l2, call, wait, released, must, closing, racing>>

\* Variant: the bound of a batch is off by one.
FlushRunOver(w) ==
  LET run  == wk[w].run
      more == Len(run) <= BatchMax /\ queue[w] # <<>>
      x    == Head(queue[w])
  IN  /\ wk[w].at = "collect"
      /\ queue' = [queue EXCEPT ![w] = IF more THEN Tail(@) ELSE @]
      /\ wk' = IF ~more THEN [wk EXCEPT ![w].at = "deliver"]
               ELSE IF IsMarker(x) THEN [wk EXCEPT ![w].at = "deliver", ![w].marker = x]
               ELSE IF task[x].kind # task[wk[w].first].kind
                    THEN [wk EXCEPT ![w].at = "deliver", ![w].next = x]
               ELSE [wk EXCEPT ![w].run = Append(run, x)]
      /\ UNCHANGED <<task, fate, l2, call, wait, released, must, closing, racing>>

\* Variant: a marker is closed when it is received, before the run is delivered.
FlushRunEager(w) ==
  LET more == Len(wk[w].run) < BatchMax /\ queue[w] # <<>>
      x    == Head(queue[w])
      same == ~IsMarker(x) /\ task[x].kind = task[wk[w].first].kind
  IN  /\ wk[w].at = "collect"
      /\ queue' = [queue EXCEPT ![w] = IF more THEN Tail(@) ELSE @]
      /\ released' = IF more /\ IsMarker(x) THEN released \union {<<x, w>>} ELSE released
      /\ wk' = IF more /\ same THEN [wk EXCEPT ![w].run = Append(@, x)]
               ELSE [wk EXCEPT ![w].at = "deliver", ![w].next = IF more /\ ~IsMarker(x) THEN x ELSE None]
      /\ UNCHANGED <<task, fate, l2, call, wait, must, closing, racing>>

\* One turn of flushRun's loop: the run ends when it is full or the queue is
\* empty, at a marker, and where the kind changes.
FlushRun(w) ==
  LET run  == wk[w].run
      more == Len(run) < BatchMax /\ queue[w] # <<>>
      x    == Head(queue[w])
  IN  /\ wk[w].at = "collect"
      /\ queue' = [queue EXCEPT ![w] = IF more THEN Tail(@) ELSE @]
      /\ wk' = IF ~more THEN [wk EXCEPT ![w].at = "deliver"]
               ELSE IF IsMarker(x) THEN [wk EXCEPT ![w].at = "deliver", ![w].marker = x]
               ELSE IF task[x].kind # task[wk[w].first].kind
                    THEN [wk EXCEPT ![w].at = "deliver", ![w].next = x]
               ELSE [wk EXCEPT ![w].run = Append(run, x)]
      /\ UNCHANGED <<task, fate, l2, call, wait, released, must, closing, racing>>

\* What becomes of the tasks of a batch.
FateAfter(outcome) ==
  IF outcome = "ok" THEN "handed" ELSE IF outcome = "error" THEN "failed" ELSE "panicked"

\* Variant: the marker is closed after the delivery, not deferred.
DeliverRunUndeferred(w, outcome) ==
  LET run  == wk[w].run
      next == wk[w].next
  IN  /\ wk[w].at = "deliver"
      /\ l2' \in Applied(run, outcome)
      /\ fate' = [id \in Ids |-> IF id \in Range(run) THEN "handed" ELSE fate[id]]
      /\ released' = IF wk[w].marker = None \/ outcome = "panic" THEN released
                     ELSE released \union {<<wk[w].marker, w>>}
      /\ wk' = [wk EXCEPT ![w] = IF next = None \/ outcome = "panic" THEN AtHome(wk[w].home)
                                 ELSE [AtHome(wk[w].home) EXCEPT !.at = "flush", !.first = next]]
      /\ UNCHANGED <<task, queue, call, wait, must, closing, racing>>

\* The adapter call of deliverRun.  One that panics also loses the task that was
\* received next.  The marker that ended the run is closed in any case.
DeliverRun(w, outcome) ==
  LET run  == wk[w].run
      next == wk[w].next
      lost == IF outcome = "panic" /\ next # None THEN {next} ELSE {}
  IN  /\ wk[w].at = "deliver"
      /\ l2' \in Applied(run, outcome)
      /\ fate' = [id \in Ids |-> IF id \in Range(run) THEN FateAfter(outcome)
                                 ELSE IF id \in lost THEN "dropped" ELSE fate[id]]
      /\ released' = IF wk[w].marker = None THEN released
                     ELSE released \union {<<wk[w].marker, w>>}
      /\ wk' = [wk EXCEPT ![w] = IF next = None \/ outcome = "panic" THEN AtHome(wk[w].home)
                                 ELSE [AtHome(wk[w].home) EXCEPT !.at = "flush", !.first = next]]
      /\ UNCHANGED <<task, queue, call, wait, must, closing, racing>>
-----------------------------------------------------------------------------
(***************************************************************************)
(* Wait.                                                                   *)
(***************************************************************************)

Queued == {id \in Ids : fate[id] = "queued"}

WaitBegin(c) ==
  /\ wait[c].at = "idle"
  /\ wait' = [wait EXCEPT ![c].at = "put"]
  /\ must' = [must EXCEPT ![c] = Queued]
  /\ UNCHANGED <<task, fate, l2, queue, wk, call, released, closing, racing>>

\* The marker goes into the next queue; the send blocks while it is full.
WaitPut(c) ==
  LET w == wait[c].i
  IN  /\ wait[c].at = "put" /\ Len(queue[w]) < BufferSize
      /\ queue' = [queue EXCEPT ![w] = Append(@, c)]
      /\ wait' = [wait EXCEPT ![c] = IF w < NWorkers THEN [at |-> "put", i |-> w + 1]
                                     ELSE [at |-> "get", i |-> 1]]
      /\ UNCHANGED <<task, fate, l2, wk, call, released, must, closing, racing>>

\* The next marker has been closed.
WaitGet(c) ==
  LET w == wait[c].i
  IN  /\ wait[c].at = "get" /\ <<c, w>> \in released
      /\ wait' = [wait EXCEPT ![c] = IF w < NWorkers THEN [at |-> "get", i |-> w + 1]
                                     ELSE [at |-> "flushed", i |-> 1]]
      /\ UNCHANGED <<task, fate, l2, queue, wk, call, released, must, closing, racing>>

\* Wait returns early while the cache closes.
WaitStopped(c) ==
  /\ wait[c].at \in {"put", "get"} /\ Stopped
  /\ wait' = [wait EXCEPT ![c] = [at |-> "left", i |-> 1]]
  /\ UNCHANGED <<task, fate, l2, queue, wk, call, released, must, closing, racing>>
-----------------------------------------------------------------------------
(***************************************************************************)
(* Close.                                                                  *)
(***************************************************************************)

CloseBegin ==
  /\ CanClose /\ closing.at = "open"
  /\ closing' = [at |-> "wait", i |-> 1]
  /\ racing' = {call[c].id : c \in {c \in Caller : call[c] # Idle}}
  /\ UNCHANGED <<task, fate, l2, queue, wk, call, wait, released, must>>

\* Close has waited for every worker.
CloseWait ==
  /\ closing.at = "wait" /\ \A w \in Worker : wk[w].at = "gone"
  /\ closing' = [closing EXCEPT !.at = "drain"]
  /\ UNCHANGED <<task, fate, l2, queue, wk, call, wait, released, must, racing>>

\* The queue Close is at is empty: it goes to the next, or returns.
CloseNext ==
  LET w == closing.i
  IN  /\ closing.at = "drain" /\ wk[w].at = "gone" /\ queue[w] = <<>>
      /\ closing' = IF w < NWorkers THEN [at |-> "drain", i |-> w + 1]
                    ELSE [at |-> "closed", i |-> 1]
      /\ UNCHANGED <<task, fate, l2, queue, wk, call, wait, released, must, racing>>
-----------------------------------------------------------------------------
\* A caller's own steps.
CallStep(c) == CheckStop(c) \/ Send(c) \/ \E outcome \in Outcome : Sync(c, outcome)

\* The steps of whoever flushes queue w.
FlushStep(w) == \/ Receive(w) \/ StopWorker(w) \/ EndWorker(w) \/ FlushWrite(w) \/ FlushRun(w)
                \/ \E outcome \in Outcome : DeliverRun(w, outcome)

WaitStep(c) == WaitPut(c) \/ WaitGet(c) \/ WaitStopped(c)

Next ==
  \/ \E c \in Caller : CallStep(c) \/ \E k \in Key, kind \in Kind : Begin(c, k, kind)
  \/ \E w \in Worker : FlushStep(w)
  \/ \E c \in Waiter : WaitBegin(c) \/ WaitStep(c)
  \/ CloseBegin \/ CloseWait \/ CloseNext

Spec == Init /\ [][Next]_vars

\* The workers, Wait and Close are scheduled and their adapter calls return;
\* nobody has to call Set, Wait or Close, and a Set may stall.
FairSpec ==
  /\ Spec
  /\ \A w \in Worker : WF_vars(FlushStep(w))
  /\ \A c \in Waiter : WF_vars(WaitStep(c))
  /\ WF_vars(CloseWait \/ CloseNext)
-----------------------------------------------------------------------------
(***************************************************************************)
(* Properties.                                                             *)
(***************************************************************************)

\* What a goroutine r that flushes a queue has taken and not yet handed over.
InHand(r) == CASE r.at = "flush" -> <<r.first>>
               [] r.at \in {"collect", "deliver"} ->
                    r.run \o (IF r.next = None THEN <<>> ELSE <<r.next>>)
               [] OTHER -> <<>>

\* The tasks and markers of queue w that are still to be served, oldest first.
Pending(w) == InHand(wk[w]) \o queue[w]

\* The tasks of worker w that met fate f.
Met(w, f) == {id \in Ids : fate[id] = f /\ WorkerOf[task[id].key] = w}

\* A task that was accepted into a queue is in exactly one place, before its own
\* worker, once, until the adapter is called with it: batching loses and repeats
\* nothing.  The exception are the tasks that PanicCostsOnlyBatch is about: a
\* panic of the adapter takes at most one such task along with its batch, so a
\* worker has dropped no more tasks than were in batches that panicked.
NothingLost ==
  /\ \A w \in Worker : IsInjective(Pending(w))
  /\ \A id \in Ids : \A w \in Worker :
       (id \in Range(Pending(w))) <=> (fate[id] = "queued" /\ WorkerOf[task[id].key] = w)
  /\ \A w \in Worker : Cardinality(Met(w, "dropped")) <= Cardinality(Met(w, "panicked"))

\* Two tasks that one goroutine issued for one key.
SameKey(i, j) == i < j /\ task[i].by = task[j].by /\ task[i].key = task[j].key

\* The tasks of key k that are newer than what the second level holds.
Newer(k) == {i \in Ids : task[i].key = k /\ i > l2[k]}

\* Of the tasks of one goroutine that went through the queue, a key's later one is
\* never handed over while an earlier one still waits.  When all of a key's tasks
\* were handed over, the second level holds the last ("duplicate keys collapse to
\* the last value there, as FIFO order would", comment of writeBatch) if the
\* adapter keeps the order of a batch.  If it does not (BatchSetConcurrent of the
\* memcached adapters) it may hold an older write, but one of the last batch: no
\* delete is undone, no lifetime mixed up, and fewer than BatchMax writes are lost.
QueuedInOrder ==
  /\ \A i, j \in Ids : (SameKey(i, j) /\ fate[i] = "queued") => fate[j] # "handed"
  /\ \A j \in Ids :
       LET k == task[j].key
       IN  (\A i \in Ids : task[i].key = k => fate[i] = "handed" /\ task[i].by = task[j].by) =>
             /\ l2[k] \in Ids /\ task[l2[k]].key = k
             /\ InOrder => Newer(k) = {}
             /\ \A i \in Newer(k) : task[i].kind = task[l2[k]].kind /\ task[i].kind # "del"
             /\ Cardinality(Newer(k)) < BatchMax

\* "the L2 writes of one key keep their order" (comment of WriteBackWorkers in
\* config.go): no later write of a key reaches the second level before an
\* earlier one of the same goroutine.
KeyKeepsOrder ==
  \A i, j \in Ids : (SameKey(i, j) /\ fate[i] = "queued") => fate[j] \notin {"handed", "synced"}

\* "a panicking adapter costs this batch, not the worker" (comment of
\* flushWrite): a task that was not in the batch is not lost.  It would also have
\* to hold for Wait to block "until every asynchronous write-back write enqueued
\* before the call has been handed to L2" (comment of Wait).
PanicCostsOnlyBatch == \A id \in Ids : fate[id] # "dropped"

\* When Wait returns, unless because the cache closes, the adapter has been
\* called with every task that was queued before, but for those its worker lost to
\* a panic (see PanicCostsOnlyBatch).
WaitCovers ==
  \A c \in Waiter : wait[c].at = "flushed" => \A id \in must[c] :
    \/ fate[id] \in {"handed", "failed", "panicked"}
    \/ fate[id] = "dropped" /\ Met(WorkerOf[task[id].key], "panicked") # {}

\* When Close has returned, only a task whose call overlapped it can still be
\* in a queue; one issued after it runs synchronously.
CloseDrains == closing.at = "closed" => Queued \subseteq racing

\* Wait and Close return.  Wait never waits on a marker nobody will close, also
\* when a worker panics with the marker in hand or stops under Close; for Close,
\* every worker sees stop, drains its queue and ends.
WaitAndCloseReturn ==
  /\ \A c \in Waiter : (wait[c].at = "put") ~> (wait[c].at \in {"flushed", "left"})
  /\ Stopped ~> (closing.at = "closed")

=============================================================================
