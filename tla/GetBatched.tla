----------------------------- MODULE GetBatched -----------------------------
(***************************************************************************)
(* The pool of coalesced reads (getbatched.go): a GetBatched that misses   *)
(* memory queues its key with a slot for the answer, workers drain the     *)
(* queue into batches, ask the second level and settle the slots.  The     *)
(* first read starts the workers and Close ends them; a caller may leave   *)
(* on its context or on Close while a worker still holds its slot.         *)
(*                                                                         *)
(* An answer is known by the call it was settled for.  A batch is a set of *)
(* requests: the order within it is the adapter's, and any is allowed.     *)
(***************************************************************************)
EXTENDS Integers, Sequences, FiniteSetsExt

CONSTANTS Key, Caller, Worker,
          Wanted,    \* bound of the model: caller -> the keys it asks for
          Slot,      \* slots that can be in use at once
          QueueSize, \* GetBatchedBufferSize
          BatchMax,  \* GetBatchMax
          CanCancel, \* a caller's context may end
          MaxCalls   \* bound of the model: calls of all callers

ASSUME GetBatchedAssumption ==
  /\ QueueSize \in Nat \ {0} /\ BatchMax \in Nat \ {0} /\ MaxCalls \in Nat
  /\ CanCancel \in BOOLEAN /\ Wanted \in [Caller -> SUBSET Key]
  /\ "none" \notin Slot

VARIABLES state,   \* "idle", "running" or "closed"
          closing, \* where Close is
          queue,   \* queueCh
          slot,    \* slot[s]: references, whether done holds a signal, the answer
          mem,     \* the keys in the first level
          cl,      \* where each caller is
          wk       \* where each worker is

vars == <<state, closing, queue, slot, mem, cl, wk>>

Stopped == closing # "open"

NoCall == <<>>

\* A slot as acquire hands it out, new or from the sync.Pool.
CleanSlot == [refs |-> 0, done |-> FALSE, answer |-> NoCall]

AtLoop == [at |-> "loop", batch |-> {}, hits |-> {}, todo |-> {}, cur |-> <<>>, back |-> "loop"]

Init ==
  /\ state = "idle" /\ closing = "open" /\ queue = <<>> /\ mem = {}
  /\ slot = [s \in Slot |-> CleanSlot]
  /\ cl = [c \in Caller |-> [at |-> "idle", n |-> 0, key |-> "none", slot |-> "none"]]
  /\ wk = [w \in Worker |-> [AtLoop EXCEPT !.at = "off"]]

\* The call caller c is in, as a name of its own.
Call(c) == <<c, cl[c].n>>

\* Variant: a signal nobody took stays in the slot.
ReleasedUndrained(s, n) ==
  IF slot[s].refs = n THEN [slot EXCEPT ![s].refs = 0, ![s].answer = NoCall]
                      ELSE [slot EXCEPT ![s].refs = @ - n]

\* release: the last reference cleans the slot and recycles it.
Released(s, n) ==
  IF slot[s].refs = n THEN [slot EXCEPT ![s] = CleanSlot] ELSE [slot EXCEPT ![s].refs = @ - n]
-----------------------------------------------------------------------------
(***************************************************************************)
(* GetBatched                                                              *)
(***************************************************************************)

CallsMade == MapThenSumSet(LAMBDA d : cl[d].n, Caller)

\* A call that misses memory; one that hits returns at once.
Begin(c, k) ==
  /\ cl[c].at = "idle" /\ CallsMade < MaxCalls /\ k \notin mem
  /\ cl' = [cl EXCEPT ![c].at = "start", ![c].n = @ + 1, ![c].key = k]
  /\ UNCHANGED <<state, closing, queue, slot, mem, wk>>

\* acquire.  Slots in the pool are alike (RefsExact), so it does not matter which.
Acquired == CHOOSE s \in Slot : slot[s].refs = 0

\* Variant: a closed pool is started again.
StartRestarts(c) ==
  /\ cl[c].at = "start"
  /\ \E s \in Slot : slot[s].refs = 0
  /\ state' = "running"
  /\ wk' = IF state # "running" THEN [w \in Worker |-> AtLoop] ELSE wk
  /\ slot' = [slot EXCEPT ![Acquired].refs = 2]
  /\ cl' = [cl EXCEPT ![c].at = "send", ![c].slot = Acquired]
  /\ UNCHANGED <<closing, queue, mem>>

\* getQueueCh, which starts the workers if need be, and acquire.
Start(c) ==
  /\ cl[c].at = "start" /\ state # "closed"
  /\ \E s \in Slot : slot[s].refs = 0
  /\ state' = "running"
  /\ wk' = IF state = "idle" THEN [w \in Worker |-> AtLoop] ELSE wk
  /\ slot' = [slot EXCEPT ![Acquired].refs = 2]
  /\ cl' = [cl EXCEPT ![c].at = "send", ![c].slot = Acquired]
  /\ UNCHANGED <<closing, queue, mem>>

\* The pool is closed: read the second level here.
StartClosed(c) ==
  /\ cl[c].at = "start" /\ state = "closed"
  /\ cl' = [cl EXCEPT ![c].at = "direct"]
  /\ UNCHANGED <<state, closing, queue, slot, mem, wk>>

Send(c) ==
  /\ cl[c].at = "send" /\ Len(queue) < QueueSize
  /\ queue' = Append(queue, [call |-> Call(c), key |-> cl[c].key, slot |-> cl[c].slot])
  /\ cl' = [cl EXCEPT ![c].at = "wait"]
  /\ UNCHANGED <<state, closing, slot, mem, wk>>

\* Caller c drops n references of its slot and goes to at.
Leaves(c, n, at) ==
  /\ slot' = Released(cl[c].slot, n)
  /\ cl' = [cl EXCEPT ![c].at = at, ![c].slot = "none", ![c].key = IF at = "idle" THEN "none" ELSE @]
  /\ UNCHANGED <<state, closing, queue, mem, wk>>

\* Variant: only the caller's own reference is dropped.
SendCanceledOnce(c) == CanCancel /\ cl[c].at = "send" /\ Leaves(c, 1, "idle")

\* The request was never handed over, so both references are the caller's.
SendCanceled(c) == CanCancel /\ cl[c].at = "send" /\ Leaves(c, 2, "idle")
SendStopped(c)  == Stopped /\ cl[c].at = "send" /\ Leaves(c, 2, "direct")

\* The caller takes the signal out of done ...
Answered(c) ==
  /\ cl[c].at = "wait" /\ slot[cl[c].slot].done
  /\ slot' = [slot EXCEPT ![cl[c].slot].done = FALSE]
  /\ cl' = [cl EXCEPT ![c].at = "read"]
  /\ UNCHANGED <<state, closing, queue, mem, wk>>

\* ... and reads the answer.
Read(c) ==
  /\ cl[c].at = "read"
  /\ slot' = Released(cl[c].slot, 1)
  /\ cl' = [cl EXCEPT ![c].at = "idle", ![c].key = "none", ![c].slot = "none"]
  /\ UNCHANGED <<state, closing, queue, mem, wk>>

WaitCanceled(c) == CanCancel /\ cl[c].at = "wait" /\ Leaves(c, 1, "idle")
WaitStopped(c)  == Stopped /\ cl[c].at = "wait" /\ Leaves(c, 1, "direct")

\* getFromL2; a value that is found is promoted.
Direct(c, found) ==
  /\ cl[c].at = "direct"
  /\ mem' = IF found THEN mem \union {cl[c].key} ELSE mem
  /\ cl' = [cl EXCEPT ![c].at = "idle", ![c].key = "none"]
  /\ UNCHANGED <<state, closing, queue, slot, wk>>
-----------------------------------------------------------------------------
(***************************************************************************)
(* getBatchLoop                                                            *)
(***************************************************************************)

KeysOf(batch) == {r.key : r \in batch}

\* collect: a key that is in memory by now is settled at once.
Collect(w) ==
  LET r == Head(queue)
  IN  /\ queue' = Tail(queue)
      /\ wk' = IF r.key \in mem
               THEN [wk EXCEPT ![w].at = "settle", ![w].todo = {r}, ![w].back = "drain"]
               ELSE [wk EXCEPT ![w].at = "drain", ![w].batch = @ \union {r}]
      /\ UNCHANGED <<state, closing, slot, mem, cl>>

Receive(w) == wk[w].at = "loop" /\ queue # <<>> /\ Collect(w)

\* serveBatch takes what is already queued behind the first request.
DrainMore(w) ==
  /\ wk[w].at = "drain" /\ queue # <<>> /\ Cardinality(KeysOf(wk[w].batch)) < BatchMax
  /\ Collect(w)

DrainEnd(w) ==
  /\ wk[w].at = "drain"
  /\ queue = <<>> \/ Cardinality(KeysOf(wk[w].batch)) >= BatchMax
  /\ wk' = [wk EXCEPT ![w].at = IF wk[w].batch = {} THEN "loop" ELSE "ask"]
  /\ UNCHANGED <<state, closing, queue, slot, mem, cl>>

\* The second level answers: hits are the keys it has; an error has none.
Ask(w, hits) ==
  /\ wk[w].at = "ask" /\ hits \subseteq KeysOf(wk[w].batch)
  /\ wk' = [wk EXCEPT ![w].at = "hand", ![w].hits = hits]
  /\ UNCHANGED <<state, closing, queue, slot, mem, cl>>

\* Variant: the panic ends the worker.
PanicsEscapes(w) ==
  /\ wk[w].at \in {"ask", "hand"}
  /\ wk' = [wk EXCEPT ![w].at = "gone"]
  /\ UNCHANGED <<state, closing, queue, slot, mem, cl>>

\* The adapter panics, or setMemory does: recoverBatch settles the keys that are
\* left with the panic.
Panics(w) ==
  /\ wk[w].at \in {"ask", "hand"}
  /\ wk' = [wk EXCEPT ![w].at = "hand", ![w].hits = {}]
  /\ UNCHANGED <<state, closing, queue, slot, mem, cl>>

\* settleHit and settleRest: hits first, each stored in memory beforehand.
Hand(w, k) ==
  /\ wk[w].at = "hand" /\ k \in KeysOf(wk[w].batch)
  /\ KeysOf(wk[w].batch) \intersect wk[w].hits # {} => k \in wk[w].hits
  /\ mem' = mem \union ({k} \intersect wk[w].hits)
  /\ LET waiting == {r \in wk[w].batch : r.key = k}
     IN  wk' = [wk EXCEPT ![w].at = "settle", ![w].todo = waiting, ![w].back = "hand",
                          ![w].batch = @ \ waiting, ![w].hits = @ \ {k}]
  /\ UNCHANGED <<state, closing, queue, slot, cl>>

HandEnd(w) ==
  /\ wk[w].at = "hand" /\ wk[w].batch = {}
  /\ wk' = [wk EXCEPT ![w] = AtLoop]
  /\ UNCHANGED <<state, closing, queue, slot, mem, cl>>

\* settle, for each slot that waits for the key: the answer goes into the slot
\* and the signal into done ...
Settle(w, r) ==
  /\ wk[w].at = "settle" /\ r \in wk[w].todo
  /\ slot' = [slot EXCEPT ![r.slot].answer = r.call, ![r.slot].done = TRUE]
  /\ wk' = [wk EXCEPT ![w].at = "drop", ![w].cur = r, ![w].todo = @ \ {r}]
  /\ UNCHANGED <<state, closing, queue, mem, cl>>

\* ... and the worker's reference is dropped.
Drop(w) ==
  /\ wk[w].at = "drop"
  /\ slot' = Released(wk[w].cur.slot, 1)
  /\ wk' = [wk EXCEPT ![w].at = IF wk[w].todo = {} THEN wk[w].back ELSE "settle",
                      ![w].cur = <<>>, ![w].back = IF wk[w].todo = {} THEN "loop" ELSE @]
  /\ UNCHANGED <<state, closing, queue, mem, cl>>

\* On stop a worker leaves; what is queued stays there.
StopWorker(w) ==
  /\ wk[w].at = "loop" /\ Stopped
  /\ wk' = [wk EXCEPT ![w].at = "gone"]
  /\ UNCHANGED <<state, closing, queue, slot, mem, cl>>
-----------------------------------------------------------------------------
(***************************************************************************)
(* Close, and what else takes a key out of memory.                         *)
(***************************************************************************)

CloseBegin ==
  /\ closing = "open" /\ closing' = "stop"
  /\ UNCHANGED <<state, queue, slot, mem, cl, wk>>

ClosePool ==
  /\ closing = "stop" /\ closing' = "wait"
  /\ state' = "closed"
  /\ UNCHANGED <<queue, slot, mem, cl, wk>>

\* c.wg.Wait
CloseWait ==
  /\ closing = "wait" /\ \A w \in Worker : wk[w].at \in {"off", "gone"}
  /\ closing' = "closed"
  /\ UNCHANGED <<state, queue, slot, mem, cl, wk>>

Forget(k) ==
  /\ k \in mem /\ mem' = mem \ {k}
  /\ UNCHANGED <<state, closing, queue, slot, cl, wk>>

CallerStep(c) ==
  \/ Start(c) \/ StartClosed(c) \/ Send(c) \/ SendStopped(c) \/ Answered(c) \/ Read(c) \/ WaitStopped(c)
  \/ \E found \in BOOLEAN : Direct(c, found)

WorkerStep(w) ==
  \/ Receive(w) \/ DrainMore(w) \/ DrainEnd(w) \/ Panics(w) \/ HandEnd(w) \/ Drop(w)
  \/ StopWorker(w)
  \/ \E hits \in SUBSET Key : Ask(w, hits)
  \/ \E k \in Key : Hand(w, k)
  \/ \E r \in wk[w].todo : Settle(w, r)

Next ==
  \/ \E c \in Caller : \/ CallerStep(c) \/ SendCanceled(c) \/ WaitCanceled(c)
                       \/ \E k \in Wanted[c] : Begin(c, k)
  \/ \E w \in Worker : WorkerStep(w)
  \/ CloseBegin \/ ClosePool \/ CloseWait
  \/ \E k \in Key : Forget(k)

Spec == Init /\ [][Next]_vars

\* Goroutines are scheduled and the second level returns.  Nobody has to call
\* GetBatched or Close, and no context has to end.
FairSpec ==
  /\ Spec
  /\ \A c \in Caller : WF_vars(CallerStep(c))
  /\ \A w \in Worker : WF_vars(WorkerStep(w))
  /\ WF_vars(ClosePool \/ CloseWait)
-----------------------------------------------------------------------------
(***************************************************************************)
(* Properties.                                                             *)
(***************************************************************************)

\* The references a slot should have: its caller's, with the one meant for the
\* worker until the request is queued, and that of the request.
HeldBy(s) ==
  LET callers == {c \in Caller : cl[c].slot = s}
      senders == {c \in callers : cl[c].at = "send"}
      queued  == {i \in DOMAIN queue : queue[i].slot = s}
      taken   == {w \in Worker : \/ \E r \in wk[w].batch \union wk[w].todo : r.slot = s
                                 \/ wk[w].at = "drop" /\ wk[w].cur.slot = s}
  IN  Cardinality(callers) + Cardinality(senders) + Cardinality(queued) + Cardinality(taken)

\* refs counts exactly the goroutines that may still touch the slot, so it is
\* recycled neither under a worker about to settle it nor never, and a slot in
\* the pool holds neither an answer nor a signal.
RefsExact == \A s \in Slot : /\ slot[s].refs = HeldBy(s)
                             /\ slot[s].refs = 0 => slot[s] = CleanSlot

\* A caller takes the answer that was settled for its own call: never one for
\* a caller that used the slot before and left without it.
AnswerOwn == \A c \in Caller : cl[c].at = "read" => slot[cl[c].slot].answer = Call(c)

\* "Close stops the background goroutines" (comment of Close): when it has
\* returned no worker runs, and none is started by a read that comes later.
ClosedForGood == closing = "closed" => \A w \in Worker : wk[w].at \in {"off", "gone"}

\* Every call returns, "nothing is dropped" (comment of GetBatchedBufferSize):
\* not with a full queue, not when the adapter panics, and not when Close ends
\* the workers that hold or have queued its request.  Close returns too, whatever
\* the workers were doing.
CallsReturn ==
  /\ \A c \in Caller : cl[c].at # "idle" ~> cl[c].at = "idle"
  /\ closing # "open" ~> closing = "closed"

=============================================================================
