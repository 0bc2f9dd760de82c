----------------------------- MODULE L2Adapters -----------------------------
(***************************************************************************)
(* How the adapters of the second level (l2/<name>_adapter) and the        *)
(* helpers they share (l2/l2.go) turn BatchGet, BatchSet and BatchDelete   *)
(* into requests.  A plan is the requests of one call and how many of them *)
(* may run at a time; a request names the positions of the batch it        *)
(* carries.  L2Batch runs plans.                                           *)
(*                                                                         *)
(* Keys stand for their storage keys: keyFunc is taken to be injective.    *)
(***************************************************************************)
EXTENDS Integers, Sequences, FiniteSets, SequencesExt

CONSTANTS BatchWorkers,       \* mc, gomemcache, rainycape
          MaxMsetItems,       \* the Redis family
          MaxStatementParams, \* sql
          BatchGetLimit, BatchWriteLimit \* dynamo

ASSUME L2AdaptersAssumption ==
  /\ BatchWorkers \in Nat \ {0} /\ MaxMsetItems \in Nat \ {0}
  /\ MaxStatementParams \in Nat /\ MaxStatementParams >= 3
  /\ BatchGetLimit \in Nat \ {0} /\ BatchWriteLimit \in Nat \ {0}

(***************************************************************************)
(* What else decides the plan: does the batch fit one multi-key command or *)
(* one transaction, has it a TTL, is the client on a single node, are MGET *)
(* replies ordered, does the SQL dialect take several rows, does the       *)
(* Aerospike server take batch writes.                                     *)
(***************************************************************************)
Setting == [fits : BOOLEAN, ttl : BOOLEAN, singleNode : BOOLEAN, orderedMget : BOOLEAN,
            multiRow : BOOLEAN, batchWrites : BOOLEAN]

Smaller(m, n) == IF m < n THEN m ELSE n
-----------------------------------------------------------------------------
\* The positions of a batch, and the positions left once duplicate keys are
\* collapsed to their last item, each where its key came first.
AllOf(keys) == [i \in 1..Len(keys) |-> i]

\* Variant: the first item of a key is kept.
CollapsedToFirst(keys) ==
  SelectSeq(AllOf(keys), LAMBDA i : \A j \in 1..(i - 1) : keys[j] # keys[i])

Collapsed(keys) ==
  LET firsts == SelectSeq(AllOf(keys), LAMBDA i : \A j \in 1..(i - 1) : keys[j] # keys[i])
  IN  [n \in 1..Len(firsts) |-> SelectLastInSeq(keys, LAMBDA k : k = keys[firsts[n]])]

\* The loop over start += size.
Chunks(s, size) ==
  [c \in 1..((Len(s) + size - 1) \div size) |->
     SubSeq(s, (c - 1) * size + 1, Smaller(c * size, Len(s)))]

(***************************************************************************)
(* A request is carried out as a whole, command by command (those of one   *)
(* key in order), or in part, with the rest handed back.  width: how many  *)
(* requests run at a time.  halts: none starts once one has failed.        *)
(***************************************************************************)
Requests(kind, parts) == [i \in 1..Len(parts) |-> [kind |-> kind, at |-> parts[i]]]

Plan(width, halts, reqs) == [width |-> width, halts |-> halts, reqs |-> reqs]

Whole(s)    == Plan(1, TRUE, Requests("whole", <<s>>))
Pipeline(s) == Plan(1, TRUE, Requests("each", <<s>>))

\* One statement after another.
Statements(s, size) == Plan(1, TRUE, Requests("whole", Chunks(s, size)))

\* A goroutine per chunk; all are waited for.
ParallelChunks(s, size) ==
  LET parts == Chunks(s, size)
  IN  Plan(Len(parts), FALSE, Requests("part", parts))

\* BatchGetSequential, BatchSetSequential, BatchDeleteSequential.
Sequential(s) == Statements(s, 1)

\* BatchGetConcurrent, BatchSetConcurrent, BatchDeleteConcurrent: runConcurrent
\* on at most as many goroutines as there are items.
Concurrent(s) ==
  IF Len(s) <= 1 \/ BatchWorkers <= 1 THEN Sequential(s)
  ELSE Plan(Smaller(BatchWorkers, Len(s)), TRUE, Requests("whole", Chunks(s, 1)))
-----------------------------------------------------------------------------
(***************************************************************************)
(* The adapters.  A single Get, Set or Delete is one request in all.       *)
(***************************************************************************)

Goredis(op, keys, e) ==
  LET one == CASE op = "get"    -> e.orderedMget
               [] op = "set"    -> e.singleNode /\ ~e.ttl /\ Len(keys) <= MaxMsetItems
               [] op = "delete" -> e.singleNode
  IN  IF one /\ e.fits THEN Whole(AllOf(keys)) ELSE Pipeline(AllOf(keys))

\* Always one node.
Redigo(op, keys, e) ==
  LET one == CASE op = "get"    -> e.orderedMget
               [] op = "set"    -> ~e.ttl /\ Len(keys) <= MaxMsetItems
               [] op = "delete" -> TRUE
  IN  IF one /\ e.fits THEN Whole(AllOf(keys)) ELSE Pipeline(AllOf(keys))

Redispipe(op, keys, e) ==
  LET one == CASE op = "get"    -> e.orderedMget
               [] op = "set"    -> e.singleNode /\ ~e.ttl /\ Len(keys) <= MaxMsetItems
               [] op = "delete" -> e.singleNode
  IN  IF one /\ e.fits THEN Whole(AllOf(keys)) ELSE Pipeline(AllOf(keys))

\* The library's MGet, MSet and MDel are one command on a single node only.
\* MSet takes a map, which collapses duplicates.
Rueidis(op, keys, e) ==
  LET s == IF op = "set" /\ ~e.ttl /\ Len(keys) <= MaxMsetItems THEN Collapsed(keys) ELSE AllOf(keys)
      one == CASE op = "get"    -> e.orderedMget \/ e.singleNode
               [] op = "set"    -> e.singleNode /\ ~e.ttl /\ Len(keys) <= MaxMsetItems
               [] op = "delete" -> e.singleNode
  IN  IF one /\ e.fits THEN Whole(s) ELSE Pipeline(s)

Valkey(op, keys, e) ==
  LET s == IF op = "set" /\ ~e.ttl /\ Len(keys) <= MaxMsetItems THEN Collapsed(keys) ELSE AllOf(keys)
      one == CASE op = "get"    -> e.orderedMget \/ e.singleNode
               [] op = "set"    -> e.singleNode /\ ~e.ttl /\ Len(keys) <= MaxMsetItems
               [] op = "delete" -> e.singleNode
  IN  IF one /\ e.fits THEN Whole(s) ELSE Pipeline(s)

\* GetMulti asks each server once; the protocol has no multi-set.
Gomemcache(op, keys, e) == IF op = "get" THEN Pipeline(AllOf(keys)) ELSE Concurrent(AllOf(keys))

Rainycape(op, keys, e) == IF op = "get" THEN Pipeline(AllOf(keys)) ELSE Concurrent(AllOf(keys))

Mc(op, keys, e) == Concurrent(AllOf(keys))

Sql(op, keys, e) ==
  CASE op = "get"    -> Statements(Collapsed(keys), MaxStatementParams - 1)
    [] op = "set"    -> IF e.multiRow THEN Statements(Collapsed(keys), MaxStatementParams \div 3)
                        ELSE Sequential(AllOf(keys))
    [] op = "delete" -> Statements(AllOf(keys), MaxStatementParams)

Pgx(op, keys, e) == Whole(IF op = "delete" THEN AllOf(keys) ELSE Collapsed(keys))

\* Find, DeleteMany and an unordered BulkWrite take the documents one by one.
Mongo(op, keys, e) == Pipeline(IF op = "set" THEN Collapsed(keys) ELSE AllOf(keys))

\* A read is one transaction; a WriteBatch that outgrows one is split.
Badger(op, keys, e) ==
  IF op = "get" \/ e.fits THEN Whole(AllOf(keys)) ELSE Pipeline(AllOf(keys))

Dynamo(op, keys, e) ==
  ParallelChunks(Collapsed(keys), IF op = "get" THEN BatchGetLimit ELSE BatchWriteLimit)

\* All futures are started, then resolved in order.
Tarantool(op, keys, e) == Pipeline(AllOf(keys))

Aerospike(op, keys, e) ==
  IF op = "get" \/ (Len(keys) > 1 /\ e.batchWrites) THEN Pipeline(AllOf(keys)) ELSE Sequential(AllOf(keys))

\* The plans a batch call may follow, whatever the adapter.
BatchPlans(op, keys) ==
  UNION {{Goredis(op, keys, e), Redigo(op, keys, e), Redispipe(op, keys, e),
          Rueidis(op, keys, e), Valkey(op, keys, e), Gomemcache(op, keys, e),
          Rainycape(op, keys, e), Mc(op, keys, e), Sql(op, keys, e), Pgx(op, keys, e),
          Mongo(op, keys, e), Badger(op, keys, e), Dynamo(op, keys, e),
          Tarantool(op, keys, e), Aerospike(op, keys, e)} : e \in Setting}

\* Get, Set and Delete.
SinglePlan == Sequential(<<1>>)
=============================================================================
