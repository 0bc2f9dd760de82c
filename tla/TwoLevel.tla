------------------------------ MODULE TwoLevel ------------------------------
(***************************************************************************)
(* The two levels together: reads that fall through memory to L2 and are   *)
(* promoted, loads, writes and deletes that follow the write policy, one   *)
(* write-back worker, eviction, and an L2 that fails (cache.go, batch.go,  *)
(* getandrefresh.go).  Memory is one map here (Shard is its detail), the   *)
(* drain of a queue is the choice of a run (WriteBack is its detail) and a *)
(* flight is the set of keys a load owns (Singleflight is its detail).     *)
(***************************************************************************)
EXTENDS L2Batch

CONSTANTS Client, Worker,
          Policies,   \* the write policies tried: WriteBack, WriteThrough, WriteDisabled
          Calls,      \* client -> the calls it makes: operation and key sequence
          Filled,     \* what L2 may hold at first
          HeavyStamps,\* the values heavier than a shard
          BufferSize, \* write-back queue
          BatchMax,   \* WriteBackBatchMax, and the longest batch
          Evictable,  \* bound of the model: the keys that memory may evict
          MaxCalls    \* bound on the calls made

VARIABLES policy, mem, queue,
          client, \* client -> the call it is in
          calls,  \* calls made so far
          stamp,  \* key -> values made for it so far
          truth,  \* key -> what was last written to memory for it
          spoilt  \* key -> the levels may disagree on it: see Spoil

memVars == <<mem, queue, client, calls, stamp, truth>>

vars == <<l2Vars, policy, memVars, spoilt>>

\* A value carries its key and a stamp.
Heavy(v) == v[2] \in HeavyStamps

Idle == [pc |-> "idle", op |-> "get", batch |-> FALSE, keys |-> {}, todo |-> <<>>,
         missing |-> <<>>, items |-> <<>>, found |-> {}, err |-> FALSE, l2err |-> FALSE, alone |-> {}]

\* What a call of L2 may look like to its store: one request for the single
\* methods, any adapter's plan for the batch ones.
PlanTable ==
  {<<op, keys, BatchPlans(op, keys)>> :
     op \in {"get", "set", "delete"}, keys \in UNION {[1..n -> Key] : n \in 1..BatchMax}}

Plans(op, keys, batch) ==
  IF batch THEN (CHOOSE row \in PlanTable : row[1] = op /\ row[2] = keys)[3] ELSE {SinglePlan}

KeysOf(items) == [i \in 1..Len(items) |-> items[i][1]]
ValsOf(items) == [i \in 1..Len(items) |-> items[i][2]]

Init ==
  /\ L2Init(Filled)
  /\ call = [a \in Client \union {Worker} |-> NoCall]
  /\ policy \in Policies
  /\ mem = [k \in Key |-> NoValue]
  /\ queue = <<>>
  /\ client = [c \in Client |-> Idle]
  /\ calls = 0
  /\ stamp = [k \in Key |-> 0]
  /\ truth = store
  /\ spoilt = [k \in Key |-> FALSE]
-----------------------------------------------------------------------------
(***************************************************************************)
(* Where the levels are allowed to part.  A key is spoilt by: a call that  *)
(* overlaps another one of the same key, when either may write; a read of  *)
(* L2 while a write of the key is still queued or under way; a write that  *)
(* goes around a full queue past an older one; a duplicate key in a batch  *)
(* whose requests run concurrently; a write that L2 failed.  A call that   *)
(* writes the key with none of these mends it.                             *)
(***************************************************************************)
Undelivered == ToSet(KeysOf(queue)) \union (IF call[Worker] = NoCall THEN {} ELSE ToSet(call[Worker].keys))

\* cl: the clients as the step leaves them.
Spoil(ks, cl) ==
  /\ spoilt' = [k \in Key |-> spoilt[k] \/ k \in ks]
  /\ client' = [c \in Client |-> [cl[c] EXCEPT !.alone = @ \ ks]]

Racing(op, keys, plan) ==
  IF op # "get" /\ plan.width > 1
  THEN {k \in Key : \E q, r \in 1..Len(plan.reqs) :
          /\ q # r
          /\ \E i \in ToSet(plan.reqs[q].at), j \in ToSet(plan.reqs[r].at) : keys[i] = k /\ keys[j] = k}
  ELSE {}

Others(c, k) == {d \in Client \ {c} : client[d].pc # "idle" /\ k \in client[d].keys}

Overlapped(c, op, keys) ==
  {k \in keys : \E d \in Others(c, k) : op # "get" \/ client[d].op # "get"}
-----------------------------------------------------------------------------
\* setMemory: a value that does not fit still removes the older one.
SetMemory(m, k, v) == [m EXCEPT ![k] = IF Heavy(v) THEN NoValue ELSE v]

\* The values the n-th call makes: a new one per position.
Fresh(keys) ==
  [i \in 1..Len(keys) |-> <<keys[i], stamp[keys[i]] + Cardinality({j \in 1..i : keys[j] = keys[i]})>>]

Stamped(keys) == [k \in Key |-> stamp[k] + Cardinality({i \in 1..Len(keys) : keys[i] = k})]

Moves(c, cl) == client' = [client EXCEPT ![c] = cl]

\* A call begins.  Get, GetOrLoad and their batches look in memory first, Set
\* and Delete write, GetAndRefresh claims the flights of its background load.
Begin(c, op, keys) ==
  LET batch == Len(keys) > 1
      items == IF op = "set" THEN [i \in 1..Len(keys) |-> <<keys[i], Fresh(keys)[i]>>]
               ELSE [i \in 1..Len(keys) |-> <<keys[i], NoValue>>]
      writes == op \in {"set", "delete"}
      begun == [Idle EXCEPT !.pc = CASE writes -> "write" [] op = "refresh" -> "claim" [] OTHER -> "look",
                            !.op = op, !.batch = batch, !.keys = ToSet(keys), !.alone = ToSet(keys),
                            !.items = IF writes THEN items ELSE <<>>,
                            !.todo = IF writes THEN items ELSE keys]
  IN  /\ client[c].pc = "idle" /\ calls < MaxCalls
      /\ calls' = calls + 1
      /\ stamp' = IF op = "set" THEN Stamped(keys) ELSE stamp
      /\ Spoil(Overlapped(c, op, ToSet(keys)), [client EXCEPT ![c] = begun])
      /\ UNCHANGED <<l2Vars, policy, mem, queue, truth>>

\* The missing keys go to L2 in one call.
AskL2(c, cl) ==
  /\ \E plan \in Plans("get", cl.missing, cl.batch) :
       call' = [call EXCEPT ![c] = NewCall("get", cl.missing, <<>>, plan)]
  /\ Moves(c, [cl EXCEPT !.pc = "l2"])

\* getMemory, batchGetMemory: one key.  After the last, Get and BatchGet ask L2
\* for the misses and a load claims them.
Look(c) ==
  LET cl == client[c]
      k == Head(cl.todo)
      hit == mem[k] # NoValue
      looked == [cl EXCEPT !.todo = Tail(@),
                           !.found = IF hit THEN @ \union {<<k, mem[k]>>} ELSE @,
                           !.missing = IF hit THEN @ ELSE Append(@, k)]
      next == CASE looked.todo # <<>>      -> "look"
                [] looked.missing = <<>>   -> "ret"
                [] OTHER -> IF cl.op = "get" THEN "ask" ELSE "claim"
  IN  /\ cl.pc = "look"
      /\ IF next = "ask" THEN AskL2(c, looked)
         ELSE Moves(c, [looked EXCEPT !.pc = next]) /\ UNCHANGED call
      /\ UNCHANGED <<store, adrift, faults, policy, mem, queue, calls, stamp, truth, spoilt>>

\* The keys of the loads under way elsewhere.
Loading(c) ==
  UNION {ToSet(client[d].missing) :
           d \in {d \in Client \ {c} : client[d].op \in {"load", "refresh"} /\ client[d].pc \notin {"idle", "look", "claim"}}}

\* A load owns the keys nobody else is loading; the others are answered by the
\* flight it joins.  doLoad looks in memory once more; GetAndRefresh goes
\* straight to the loader.
Claim(c) ==
  LET cl == client[c]
      free == ToSet(IF cl.op = "load" THEN cl.missing ELSE cl.todo) \ Loading(c)
      seen == {k \in free : cl.op = "load" /\ ~cl.batch /\ mem[k] # NoValue}
      claimed == [cl EXCEPT !.todo = <<>>, !.missing = SetToSeq(free \ seen),
                            !.found = @ \union {<<k, mem[k]>> : k \in seen}]
  IN  /\ cl.pc = "claim"
      /\ IF claimed.missing # <<>> /\ cl.op = "load" THEN AskL2(c, claimed)
         ELSE /\ Moves(c, [claimed EXCEPT !.pc = IF claimed.missing = <<>> THEN "ret" ELSE "load"])
              /\ UNCHANGED call
      /\ UNCHANGED <<store, adrift, faults, policy, mem, queue, calls, stamp, truth, spoilt>>

Answered(c) == client[c].pc = "l2" /\ call[c].op = "get" /\ Finished(call[c])

\* Get and BatchGet give up on an error of L2; a load keeps what was read.
GivesUp(c) == client[c].op = "get" /\ call[c].failed

\* setMemory on a value of L2: one item.
Promote(c) ==
  /\ Answered(c) /\ ~GivesUp(c)
  /\ \E item \in call[c].got :
       /\ mem' = SetMemory(mem, item[1], item[2])
       /\ client' = [client EXCEPT ![c].found = @ \union {item}]
       /\ call' = [call EXCEPT ![c].got = @ \ {item}]
  /\ UNCHANGED <<store, adrift, faults, policy, queue, calls, stamp, truth, spoilt>>

\* The keys L2 did not answer; keysFromL2.
ToLoad(cl) == SelectSeq(cl.missing, LAMBDA k : \A item \in cl.found : item[1] # k)

\* The loader answers for some of the keys it is asked for, or for none.
Load(c) ==
  LET cl == client[c]
      asked == Answered(c) /\ cl.op = "load" /\ call[c].got = {}
      keys == ToLoad(cl)
  IN  /\ (asked /\ keys # <<>>) \/ cl.pc = "load"
      /\ call' = [call EXCEPT ![c] = NoCall]
      /\ \E some \in SUBSET ToSet(keys) :
           LET loaded == SelectSeq(keys, LAMBDA k : k \in some)
               items == [i \in 1..Len(loaded) |-> <<loaded[i], Fresh(loaded)[i]>>]
           IN  /\ stamp' = Stamped(loaded)
               /\ Moves(c, [cl EXCEPT !.pc = IF some = {} THEN "ret" ELSE "write",
                                      !.err = some = {} /\ ~cl.batch,
                                      !.l2err = asked /\ call[c].failed,
                                      !.items = items, !.todo = items])
      /\ UNCHANGED <<store, adrift, faults, policy, mem, queue, calls, truth, spoilt>>

L2Op(cl) == IF cl.op = "delete" THEN "delete" ELSE "set"

\* The write policy: one synchronous call, a task per item, or nothing.
Forward(c, cl) ==
  \/ /\ policy = "WriteThrough"
     /\ \E plan \in Plans(L2Op(cl), KeysOf(cl.items), cl.batch) :
          /\ call' = [call EXCEPT ![c] = NewCall(L2Op(cl), KeysOf(cl.items), ValsOf(cl.items), plan)]
          /\ Spoil(Racing(L2Op(cl), KeysOf(cl.items), plan), [client EXCEPT ![c] = [cl EXCEPT !.pc = "l2"]])
  \/ /\ policy = "WriteBack"
     /\ Moves(c, [cl EXCEPT !.pc = "queue", !.todo = cl.items])
     /\ UNCHANGED <<call, spoilt>>
  \/ /\ policy = "WriteDisabled"
     /\ Moves(c, [cl EXCEPT !.pc = "ret"])
     /\ UNCHANGED <<call, spoilt>>

\* The memory half of Set, Delete and storeLoaded: one item.  The last one is
\* followed by the forwarding to L2, whether memory held the keys or not.
Write(c) ==
  LET cl == client[c]
      item == Head(cl.todo)
      written == [cl EXCEPT !.todo = Tail(@), !.found = IF cl.op = "load" THEN @ \union {item} ELSE @]
  IN  /\ cl.pc = "write"
      /\ mem' = IF cl.op = "delete" THEN [mem EXCEPT ![item[1]] = NoValue] ELSE SetMemory(mem, item[1], item[2])
      /\ truth' = [truth EXCEPT ![item[1]] = item[2]]
      /\ IF written.todo = <<>> THEN Forward(c, written)
         ELSE Moves(c, written) /\ UNCHANGED <<call, spoilt>>
      /\ UNCHANGED <<store, adrift, faults, policy, queue, calls, stamp>>

\* enqueueL2: one task, or its write done here when the queue is full.
Enqueue(c) ==
  LET cl == client[c]
      item == Head(cl.todo)
  IN  /\ cl.pc = "queue" /\ cl.todo # <<>>
      /\ \/ /\ Len(queue) < BufferSize
            /\ queue' = Append(queue, item)
            /\ Moves(c, [cl EXCEPT !.todo = Tail(@)])
            /\ UNCHANGED <<call, spoilt>>
         \/ /\ Len(queue) >= BufferSize
            /\ call' = [call EXCEPT ![c] = NewCall(L2Op(cl), <<item[1]>>, <<item[2]>>, SinglePlan)]
            /\ Spoil({item[1]} \intersect Undelivered, [client EXCEPT ![c] = [cl EXCEPT !.pc = "sync", !.todo = Tail(@)]])
            /\ UNCHANGED queue
      /\ UNCHANGED <<store, adrift, faults, policy, mem, calls, stamp, truth>>

\* The write around the queue is over; an error is only reported.
Synced(c) ==
  /\ client[c].pc = "sync" /\ Finished(call[c])
  /\ call' = [call EXCEPT ![c] = NoCall]
  /\ client' = [client EXCEPT ![c].pc = "queue"]
  /\ UNCHANGED <<store, adrift, faults, policy, mem, queue, calls, stamp, truth, spoilt>>

\* Nothing is left to do.
Returning(c) ==
  \/ client[c].pc = "ret"
  \/ client[c].pc = "queue" /\ client[c].todo = <<>>
  \/ client[c].pc = "l2" /\ call[c].op # "get" /\ Finished(call[c])
  \/ Answered(c) /\ (GivesUp(c) \/ (call[c].got = {} /\ (client[c].op = "get" \/ ToLoad(client[c]) = <<>>)))

\* A load, or a refresh, only reports the error of its write to L2.
Error(c) == client[c].err \/ (client[c].pc = "l2" /\ client[c].op \notin {"load", "refresh"} /\ call[c].failed)

Return(c) ==
  LET cl == client[c]
      mended == {k \in cl.alone : k \in ToSet(KeysOf(cl.items)) /\ \A w \in adrift : w[1] # k}
  IN  /\ Returning(c)
      /\ client' = [client EXCEPT ![c] = Idle]
      /\ call' = [call EXCEPT ![c] = NoCall]
      /\ spoilt' = [k \in Key |-> spoilt[k] /\ k \notin mended]
      /\ UNCHANGED <<store, adrift, faults, policy, mem, queue, calls, stamp, truth>>
-----------------------------------------------------------------------------
\* Eviction, or the end of a first-level lifetime.
Evict(k) ==
  /\ mem[k] # NoValue
  /\ mem' = [mem EXCEPT ![k] = NoValue]
  /\ UNCHANGED <<l2Vars, policy, queue, client, calls, stamp, truth, spoilt>>

\* The worker takes a run of tasks of one kind; writeBatch and deleteBatch.
Take(n) ==
  LET run == SubSeq(queue, 1, n)
      op == IF run[1][2] = NoValue THEN "delete" ELSE "set"
  IN  /\ call[Worker] = NoCall
      /\ \A i \in 1..n : (run[i][2] = NoValue) = (op = "delete")
      /\ queue' = SubSeq(queue, n + 1, Len(queue))
      /\ \E plan \in Plans(op, KeysOf(run), n > 1) :
           /\ call' = [call EXCEPT ![Worker] = NewCall(op, KeysOf(run), ValsOf(run), plan)]
           /\ Spoil(Racing(op, KeysOf(run), plan), client)
      /\ UNCHANGED <<store, adrift, faults, policy, mem, calls, stamp, truth>>

Delivered ==
  /\ call[Worker] # NoCall /\ Finished(call[Worker])
  /\ call' = [call EXCEPT ![Worker] = NoCall]
  /\ UNCHANGED <<store, adrift, faults, policy, memVars, spoilt>>
-----------------------------------------------------------------------------
\* The steps of L2, with what they spoil.
Serves(a) ==
  /\ call[a] # NoCall
  /\ \E r \in call[a].open : \E ps \in Servable(call[a], r) :
       /\ Serve(a, r, ps)
       /\ Spoil(IF call[a].op = "get" THEN {call[a].keys[p] : p \in ps} \intersect Undelivered
                ELSE IF call'[a].failed THEN ToSet(call[a].keys) ELSE {},
                client)
  /\ UNCHANGED <<policy, mem, queue, calls, stamp, truth>>

Fails(a) ==
  /\ call[a] # NoCall
  /\ \E r \in call[a].open : Fail(a, r)
  /\ Spoil(IF call[a].op = "get" THEN {} ELSE ToSet(call[a].keys), client)
  /\ UNCHANGED <<policy, mem, queue, calls, stamp, truth>>

Skips(a) ==
  /\ call[a] # NoCall
  /\ \E r \in call[a].open : Skip(a, r)
  /\ UNCHANGED <<policy, memVars, spoilt>>

Drifts ==
  /\ \E w \in adrift :
       /\ Drift(w)
       /\ Spoil({k \in Key : store'[k] # store[k]}, client)
  /\ UNCHANGED <<policy, mem, queue, calls, stamp, truth>>

Begins(c) == \E ask \in Calls[c] : Begin(c, ask[1], ask[2])

Steps(c) ==
  \/ Look(c) \/ Claim(c) \/ Promote(c) \/ Load(c)
  \/ Write(c) \/ Enqueue(c) \/ Synced(c) \/ Return(c)

Takes == \E n \in 1..Smaller(BatchMax, Len(queue)) : Take(n)

Next ==
  \/ \E c \in Client : Begins(c) \/ Steps(c)
  \/ \E k \in Evictable : Evict(k)
  \/ Takes \/ Delivered
  \/ \E a \in Client \union {Worker} : Serves(a) \/ Fails(a) \/ Skips(a)
  \/ Drifts

Progress ==
  \/ \E c \in Client : Steps(c)
  \/ \E a \in Client \union {Worker} : Serves(a)
  \/ Takes \/ Delivered

\* Some goroutine that can go on does; L2 answers what it is sent.  Nothing is
\* assumed of the order, nor that anyone makes a call, nor that L2 recovers.
Spec == Init /\ [][Next]_vars /\ WF_vars(Progress)
-----------------------------------------------------------------------------
\* What a read may find: with writes disabled L2 keeps what others put there.
Admissible(k) == IF policy = "WriteDisabled" THEN {truth[k], store[k]} ELSE {truth[k]}

AtRest(k) ==
  /\ \A c \in Client : client[c].pc = "idle" \/ k \notin client[c].keys
  /\ k \notin Undelivered
  /\ \A w \in adrift : w[1] # k

(***************************************************************************)
(* Once no call, task or late write of a key is left, and nothing has      *)
(* spoilt the key since a call last wrote it by itself, L2 holds what was  *)
(* last written and memory that or nothing: whatever batches, plans,       *)
(* retries, evictions and values too heavy for memory came before          *)
(* (setMemory, Set, Delete, storeLoaded, writeBatch, the adapters).        *)
(***************************************************************************)
LevelsAgree ==
  \A k \in Key : AtRest(k) /\ ~spoilt[k] =>
    /\ mem[k] \in {NoValue} \union Admissible(k)
    /\ policy # "WriteDisabled" => store[k] = truth[k]

(***************************************************************************)
(* A read that returns no error pairs every key with a value written for   *)
(* that key; and for a key that is not spoilt it finds exactly what was    *)
(* last written, in memory, in L2 or from the loader (Get, BatchGet,       *)
(* GetOrLoad, BatchGetOrLoad).                                             *)
(***************************************************************************)
ReadsTrue ==
  \A c \in Client : Returning(c) /\ ~Error(c) =>
    /\ \A item \in client[c].found : item[2][1] = item[1]
    /\ client[c].op \in {"get", "load"} =>
         \A k \in client[c].alone : ~spoilt[k] =>
           LET seen == {item[2] : item \in {item \in client[c].found : item[1] = k}}
           IN  \/ seen = {truth[k]} \ {NoValue}
               \/ client[c].l2err /\ seen = {}
               \/ policy = "WriteDisabled" /\ seen \subseteq Admissible(k)

(***************************************************************************)
(* Every call returns and every queued write is delivered, although L2     *)
(* may hand requests back or fail them: retries are bounded, a failed      *)
(* worker of a batch does not hold up the others, a full queue does not    *)
(* block (runConcurrent, batchSetChunk, enqueueL2).                        *)
(***************************************************************************)
CallsEnd ==
  []<>(/\ \A c \in Client : client[c].pc = "idle"
       /\ queue = <<>>
       /\ call[Worker] = NoCall)
=============================================================================
