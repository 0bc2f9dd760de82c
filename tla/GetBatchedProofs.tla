-------------------------- MODULE GetBatchedProofs --------------------------
(***************************************************************************)
(* The slots of GetBatched's read pool, for any number of callers, workers *)
(* and slots, any queue and batch size and any answers of the second       *)
(* level: they are counted exactly, recycled only when nobody can touch    *)
(* them, and never carry one call's answer into another.                   *)
(***************************************************************************)
EXTENDS GetBatched, FiniteSetTheorems, TLAPS

Request == [call : Caller \X Nat, key : Key \cup {"none"}, slot : Slot]

SlotStates == [refs : Nat, done : BOOLEAN, answer : (Caller \X Nat) \cup {NoCall}]

CallerStates == [at : {"idle", "start", "send", "wait", "read", "direct"}, n : Nat,
                 key : Key \cup {"none"}, slot : Slot \cup {"none"}]

WorkerStates == [at : {"off", "loop", "drain", "ask", "hand", "settle", "drop", "gone"},
                 batch : SUBSET Request, hits : SUBSET Key, todo : SUBSET Request,
                 cur : Request \cup {<<>>}, back : {"loop", "drain", "hand"}]

TypeOK ==
  /\ state \in {"idle", "running", "closed"} /\ closing \in {"open", "stop", "wait", "closed"}
  /\ queue \in Seq(Request)
  /\ slot \in [Slot -> SlotStates] /\ cl \in [Caller -> CallerStates] /\ wk \in [Worker -> WorkerStates]

\* The requests that a worker in state x still has to settle or to release.
Cur(x) == IF x.at = "drop" THEN {x.cur} ELSE {}
InHand(x) == x.batch \cup x.todo \cup Cur(x)

Queued == {queue[i] : i \in DOMAIN queue}

\* The requests that were handed over and not yet released.
Requests == Queued \cup UNION {InHand(wk[w]) : w \in Worker}

\* A request is in one place only.
PlacesInv ==
  /\ \A i, j \in DOMAIN queue : queue[i] = queue[j] => i = j
  /\ \A w \in Worker : Queued \cap InHand(wk[w]) = {}
  /\ \A w, v \in Worker : w # v => InHand(wk[w]) \cap InHand(wk[v]) = {}

\* What worker state x says of the places a request can have in a worker.
WorkerOK(x) ==
  /\ x.batch \cap x.todo = {} /\ Cur(x) \cap (x.batch \cup x.todo) = {}
  /\ x.at \notin {"settle", "drop"} => x.todo = {}
  /\ x.at \in {"off", "loop", "gone"} => x.batch = {}
  /\ x.at = "drop" => x.cur \in Request
  /\ x.at \in {"settle", "drop"} => x.back \in {"drain", "hand"}

\* Workers run from the first read to Close, and only then.
PoolInv ==
  /\ state = "idle" => \A w \in Worker : wk[w].at = "off"
  /\ state = "closed" <=> closing \in {"wait", "closed"}
  /\ ClosedForGood

Owns(c, s) == cl[c].slot = s

One(P) == IF P THEN 1 ELSE 0

\* The references of slot s: its caller's, twice until the request is handed
\* over, and the request's.
Refs(s) ==
  One(\E c \in Caller : Owns(c, s)) + One(\E c \in Caller : Owns(c, s) /\ cl[c].at = "send")
    + One(\E r \in Requests : r.slot = s)

\* A slot serves one call at a time.
OwnersInv ==
  /\ \A c \in Caller : cl[c].slot # "none" <=> cl[c].at \in {"send", "wait", "read"}
  /\ \A c, d \in Caller : cl[c].slot = cl[d].slot /\ cl[c].slot # "none" => c = d
  /\ \A r, q \in Requests : r.slot = q.slot => r = q
  /\ \A c \in Caller, r \in Requests : Owns(c, r.slot) => cl[c].at # "send" /\ r.call = Call(c)

CountInv ==
  \A s \in Slot : slot[s].refs = Refs(s) /\ (slot[s].refs = 0 => slot[s] = CleanSlot)

\* A signal that a caller can take comes with the answer to its call.
AnswerInv ==
  \A c \in Caller : 
    \/ cl[c].at = "read"
    \/ cl[c].at \in {"send", "wait"} /\ slot[cl[c].slot].done
    => slot[cl[c].slot].answer = Call(c)

IInv ==
  /\ TypeOK /\ PlacesInv /\ PoolInv /\ OwnersInv /\ CountInv /\ AnswerInv
  /\ \A w \in Worker : WorkerOK(wk[w])
-----------------------------------------------------------------------------
(***************************************************************************)
(* Places.                                                                 *)
(***************************************************************************)

\* A set with at most one element has as many as its non-emptiness says.
LEMMA AtMostOne ==
  ASSUME NEW S, \A x, y \in S : x = y
  PROVE  Cardinality(S) = One(S # {})
<1>1. CASE S = {}
  BY Zenon, <1>1, FS_EmptySet DEF One
<1>2. CASE S # {}
  <2>1. PICK x \in S : S = {x}
    BY Zenon, <1>2
  <2>. QED
    BY Zenon, <1>2, <2>1, FS_Singleton DEF One
<1>. QED
  BY Zenon, <1>1, <1>2

\* A request that is sent to queueCh joins the queued ones.
LEMMA QueueAppend ==
  ASSUME queue \in Seq(Request), NEW r \in Request, queue' = Append(queue, r)
  PROVE  /\ queue' \in Seq(Request) /\ Queued' = Queued \cup {r}
         /\ (\A i, j \in DOMAIN queue : queue[i] = queue[j] => i = j) /\ r \notin Queued
              => \A i, j \in DOMAIN queue' : queue'[i] = queue'[j] => i = j
<1>1. /\ queue' \in Seq(Request) /\ DOMAIN queue' = 1..Len(queue) + 1 /\ DOMAIN queue = 1..Len(queue)
      /\ Len(queue) \in Nat /\ queue'[Len(queue) + 1] = r
      /\ \A i \in 1..Len(queue) : queue'[i] = queue[i]
  OBVIOUS
<1>2. Queued' = Queued \cup {r}
  BY <1>1 DEF Queued
<1>3. ASSUME \A i, j \in DOMAIN queue : queue[i] = queue[j] => i = j, r \notin Queued,
             NEW i \in DOMAIN queue', NEW j \in DOMAIN queue', queue'[i] = queue'[j]
      PROVE  i = j
  BY <1>1, <1>3 DEF Queued
<1>. QED
  BY Zenon, <1>1, <1>2, <1>3

\* A request that is received from queueCh leaves it.
LEMMA QueueTail ==
  ASSUME queue \in Seq(Request), queue # <<>>, queue' = Tail(queue),
         \A i, j \in DOMAIN queue : queue[i] = queue[j] => i = j
  PROVE  /\ queue' \in Seq(Request) /\ Head(queue) \in Queued
         /\ Queued' = Queued \ {Head(queue)}
         /\ \A i, j \in DOMAIN queue' : queue'[i] = queue'[j] => i = j
<1>1. /\ queue' \in Seq(Request) /\ DOMAIN queue' = 1..Len(queue) - 1 /\ DOMAIN queue = 1..Len(queue)
      /\ Len(queue) \in Nat /\ Len(queue) >= 1 /\ Head(queue) = queue[1]
      /\ \A i \in 1..Len(queue) - 1 : queue'[i] = queue[i + 1]
  OBVIOUS
<1>2. Head(queue) \in Queued
  BY <1>1 DEF Queued
<1>3. ASSUME NEW x PROVE x \in Queued' <=> x \in Queued \ {Head(queue)}
  <2>1. ASSUME x \in Queued' PROVE x \in Queued \ {Head(queue)}
    <3>1. PICK i \in 1..Len(queue) - 1 : x = queue[i + 1]
      BY <1>1, <2>1 DEF Queued
    <3>2. i + 1 \in DOMAIN queue /\ 1 \in DOMAIN queue /\ i + 1 # 1
      BY <1>1
    <3>. QED
      BY Zenon, <1>1, <3>1, <3>2 DEF Queued
  <2>2. ASSUME x \in Queued \ {Head(queue)} PROVE x \in Queued'
    <3>1. PICK i \in 1..Len(queue) : x = queue[i] /\ i # 1
      BY <1>1, <2>2 DEF Queued
    <3>2. i - 1 \in 1..Len(queue) - 1 /\ queue'[i - 1] = queue[i]
      BY <1>1, <3>1
    <3>. QED
      BY Zenon, <1>1, <3>1, <3>2 DEF Queued
  <2>. QED
    BY Zenon, <2>1, <2>2
<1>4. \A i, j \in DOMAIN queue' : queue'[i] = queue'[j] => i = j
  BY <1>1
<1>. QED
  BY Zenon, <1>1, <1>2, <1>3, <1>4

OthersKeep(w) == \A v \in Worker \ {w} : wk'[v] = wk[v]

\* A step in which worker w only moves its own requests about.
LEMMA OwnPlaces ==
  ASSUME PlacesInv, NEW w \in Worker, OthersKeep(w), UNCHANGED queue,
         InHand(wk'[w]) = InHand(wk[w])
  PROVE  PlacesInv' /\ Requests' = Requests
<1>1. Queued' = Queued /\ \A v \in Worker : InHand(wk'[v]) = InHand(wk[v])
  BY Zenon DEF OthersKeep, Queued
<1>2. Requests' = Requests
  BY Zenon, <1>1 DEF Requests
<1>. QED
  BY Zenon, <1>1, <1>2 DEF PlacesInv

\* A step in which worker w is done with request r.
LEMMA LastPlace ==
  ASSUME PlacesInv, NEW w \in Worker, OthersKeep(w), UNCHANGED queue,
         NEW r \in InHand(wk[w]), InHand(wk'[w]) = InHand(wk[w]) \ {r}
  PROVE  PlacesInv' /\ Requests' = Requests \ {r} /\ r \in Requests
<1>1. Queued' = Queued /\ \A v \in Worker \ {w} : InHand(wk'[v]) = InHand(wk[v])
  BY Zenon DEF OthersKeep, Queued
<1>2. r \notin Queued /\ \A v \in Worker \ {w} : r \notin InHand(wk[v])
  BY Zenon DEF PlacesInv
<1>3. Requests' = Requests \ {r} /\ r \in Requests
  BY <1>1, <1>2 DEF Requests
<1>4. \A v \in Worker : InHand(wk'[v]) \subseteq InHand(wk[v])
  BY Zenon, <1>1
<1>. QED
  BY Zenon, <1>1, <1>3, <1>4 DEF PlacesInv

\* A step in which worker w receives the first request of the queue.
LEMMA TakenPlace ==
  ASSUME PlacesInv, queue \in Seq(Request), NEW w \in Worker, OthersKeep(w),
         queue # <<>>, queue' = Tail(queue), InHand(wk'[w]) = InHand(wk[w]) \cup {Head(queue)}
  PROVE  PlacesInv' /\ Requests' = Requests /\ queue' \in Seq(Request)
<1>1. PICK r : r = Head(queue)
  BY Zenon
<1>2. /\ queue' \in Seq(Request) /\ r \in Queued /\ Queued' = Queued \ {r}
      /\ \A i, j \in DOMAIN queue' : queue'[i] = queue'[j] => i = j
  BY Zenon, <1>1, QueueTail DEF PlacesInv
<1>3. InHand(wk'[w]) = InHand(wk[w]) \cup {r} /\ \A v \in Worker \ {w} : InHand(wk'[v]) = InHand(wk[v])
  BY Zenon, <1>1 DEF OthersKeep
<1>4. \A v \in Worker : r \notin InHand(wk[v]) /\ Queued \cap InHand(wk[v]) = {}
  BY Zenon, <1>2 DEF PlacesInv
<1>5. Requests' = Requests
  BY ONLY <1>2, <1>3, w \in Worker DEF Requests
<1>6. \A v \in Worker : Queued' \cap InHand(wk'[v]) = {}
  BY ONLY Zenon, <1>2, <1>3, <1>4
<1>7. \A v, u \in Worker : v # u => InHand(wk[v]) \cap InHand(wk[u]) = {}
  BY Zenon DEF PlacesInv
<1>8. \A v, u \in Worker : v # u => InHand(wk'[v]) \cap InHand(wk'[u]) = {}
  BY ONLY <1>3, <1>4, <1>7
<1>. QED
  BY Zenon, <1>2, <1>5, <1>6, <1>8 DEF PlacesInv
-----------------------------------------------------------------------------
(***************************************************************************)
(* The steps of a worker.                                                  *)
(***************************************************************************)

\* Steps that touch neither requests nor slots nor callers.
LEMMA SlotsStill ==
  ASSUME OwnersInv, CountInv, AnswerInv, Requests' = Requests, UNCHANGED <<cl, slot>>
  PROVE  OwnersInv' /\ CountInv' /\ AnswerInv'
<1>1. \A s \in Slot : Refs(s)' = Refs(s)
  BY Zenon DEF Refs, Owns
<1>2. OwnersInv'
  BY Zenon DEF OwnersInv, Owns, Call
<1>3. CountInv'
  BY Zenon, <1>1 DEF CountInv
<1>4. AnswerInv'
  BY Zenon DEF AnswerInv, Call
<1>. QED
  BY Zenon, <1>2, <1>3, <1>4

\* Worker w, which runs, goes on to state x.
LEMMA WorkerGoes ==
  ASSUME IInv, NEW w \in Worker, NEW x \in WorkerStates, wk[w].at \notin {"off", "gone"}, WorkerOK(x),
         wk' = [wk EXCEPT ![w] = x], UNCHANGED <<state, closing>>
  PROVE  /\ wk' \in [Worker -> WorkerStates] /\ wk'[w] = x /\ OthersKeep(w) /\ PoolInv'
         /\ \A v \in Worker : WorkerOK(wk'[v])
<1>1. wk \in [Worker -> WorkerStates]
  BY Zenon DEF IInv, TypeOK
<1>2. wk' \in [Worker -> WorkerStates] /\ wk'[w] = x /\ OthersKeep(w)
  BY Zenon, <1>1 DEF OthersKeep
<1>3. PoolInv'
  BY Zenon DEF IInv, PoolInv, ClosedForGood
<1>4. ASSUME NEW v \in Worker PROVE WorkerOK(wk'[v])
  <2>1. CASE v = w
    BY Zenon, <1>2, <2>1
  <2>2. CASE v # w
    BY Zenon, <1>2, <2>2 DEF IInv, OthersKeep
  <2>. QED
    BY Zenon, <2>1, <2>2
<1>. QED
  BY Zenon, <1>2, <1>3, <1>4

\* A worker that keeps its requests and leaves the slots alone.
LEMMA WorkerMoves ==
  ASSUME IInv, NEW w \in Worker, NEW x \in WorkerStates, wk[w].at \notin {"off", "gone"}, WorkerOK(x),
         InHand(x) = InHand(wk[w]), wk' = [wk EXCEPT ![w] = x], UNCHANGED <<state, closing, queue, slot, cl>>
  PROVE  IInv'
<1>1. /\ wk' \in [Worker -> WorkerStates] /\ wk'[w] = x /\ OthersKeep(w) /\ PoolInv'
      /\ \A v \in Worker : WorkerOK(wk'[v])
  BY Zenon, WorkerGoes
<1>2. PlacesInv' /\ Requests' = Requests
  BY Zenon, <1>1, OwnPlaces DEF IInv
<1>3. OwnersInv' /\ CountInv' /\ AnswerInv'
  BY Zenon, <1>2, SlotsStill DEF IInv
<1>4. TypeOK'
  BY Zenon, <1>1 DEF IInv, TypeOK
<1>. QED
  BY Zenon, <1>1, <1>2, <1>3, <1>4 DEF IInv

\* collect moves the first queued request to the worker.
LEMMA CollectStep ==
  ASSUME IInv, NEW w \in Worker, wk[w].at \in {"loop", "drain"}, queue # <<>>, Collect(w)
  PROVE  IInv'
<1>1. PICK r, x : r = Head(queue) /\ x = wk'[w]
  BY Zenon
<1>2. wk[w] \in WorkerStates /\ WorkerOK(wk[w]) /\ queue \in Seq(Request) /\ wk \in [Worker -> WorkerStates]
  BY Zenon DEF IInv, TypeOK
<1>3. r \in Request /\ r \in Queued
  BY <1>1, <1>2, QueueTail DEF IInv, PlacesInv, Queued
<1>4. r \notin InHand(wk[w])
  BY Zenon, <1>3 DEF IInv, PlacesInv
<1>5. /\ wk[w].at # "drop" /\ wk[w].todo = {} /\ wk[w].at \notin {"off", "gone"}
      /\ r \notin wk[w].batch
  BY Zenon, <1>2, <1>4 DEF WorkerOK, InHand
<1>6. x \in WorkerStates
  <2>1. CASE r.key \in mem
    BY Zenon, <1>1, <1>2, <1>3, <2>1 DEF Collect, WorkerStates
  <2>2. CASE r.key \notin mem
    BY Zenon, <1>1, <1>2, <1>3, <2>2 DEF Collect, WorkerStates
  <2>. QED
    BY Zenon, <2>1, <2>2
<1>7. WorkerOK(x) /\ InHand(x) = InHand(wk[w]) \cup {r}
  <2>1. CASE r.key \in mem
    <3>1. x.at = "settle" /\ x.todo = {r} /\ x.back = "drain" /\ x.batch = wk[w].batch
      BY Zenon, <1>1, <1>2, <2>1 DEF Collect, WorkerStates
    <3>. QED
      BY Zenon, <1>2, <1>5, <3>1 DEF WorkerOK, InHand, Cur
  <2>2. CASE r.key \notin mem
    <3>1. x.at = "drain" /\ x.todo = {} /\ x.batch = wk[w].batch \cup {r}
      BY Zenon, <1>1, <1>2, <1>5, <2>2 DEF Collect, WorkerStates
    <3>. QED
      BY Zenon, <1>2, <1>5, <3>1 DEF WorkerOK, InHand, Cur
  <2>. QED
    BY Zenon, <2>1, <2>2
<1>8. wk' = [wk EXCEPT ![w] = x] /\ UNCHANGED <<state, closing, slot, cl>> /\ queue' = Tail(queue)
  BY Zenon, <1>1, <1>2 DEF Collect
<1>9. /\ wk' \in [Worker -> WorkerStates] /\ wk'[w] = x /\ OthersKeep(w) /\ PoolInv'
      /\ \A v \in Worker : WorkerOK(wk'[v])
  BY Zenon, <1>5, <1>6, <1>7, <1>8, WorkerGoes
<1>10. PlacesInv' /\ Requests' = Requests /\ queue' \in Seq(Request)
  BY Zenon, <1>1, <1>2, <1>7, <1>8, <1>9, TakenPlace DEF IInv
<1>11. OwnersInv' /\ CountInv' /\ AnswerInv'
  BY Zenon, <1>8, <1>10, SlotsStill DEF IInv
<1>12. TypeOK'
  BY Zenon, <1>8, <1>9, <1>10 DEF IInv, TypeOK
<1>. QED
  BY Zenon, <1>9, <1>10, <1>11, <1>12 DEF IInv
\* serveBatch stops draining the queue.
LEMMA DrainEndStep ==
  ASSUME IInv, NEW w \in Worker, DrainEnd(w)
  PROVE  IInv'
<1>1. PICK x : x = wk'[w]
  BY Zenon
<1>2. wk[w] \in WorkerStates /\ WorkerOK(wk[w]) /\ wk \in [Worker -> WorkerStates]
  BY Zenon DEF IInv, TypeOK
<1>3. /\ wk[w].at = "drain" /\ wk' = [wk EXCEPT ![w] = x] /\ UNCHANGED <<state, closing, queue, slot, cl>>
      /\ x \in WorkerStates /\ x.at = (IF wk[w].batch = {} THEN "loop" ELSE "ask")
      /\ x.batch = wk[w].batch /\ x.todo = wk[w].todo
  BY Zenon, <1>1, <1>2 DEF DrainEnd, WorkerStates
<1>4. WorkerOK(x) /\ InHand(x) = InHand(wk[w])
  BY Zenon, <1>2, <1>3 DEF WorkerOK, InHand, Cur
<1>. QED
  BY Zenon, <1>3, <1>4, WorkerMoves

\* The second level answers, or the adapter panics: the batch stays in hand.
LEMMA AskStep ==
  ASSUME IInv, NEW w \in Worker, (\E hits \in SUBSET Key : Ask(w, hits)) \/ Panics(w)
  PROVE  IInv'
<1>1. PICK x : x = wk'[w]
  BY Zenon
<1>2. wk[w] \in WorkerStates /\ WorkerOK(wk[w]) /\ wk \in [Worker -> WorkerStates]
  BY Zenon DEF IInv, TypeOK
<1>3. /\ wk[w].at \in {"ask", "hand"} /\ wk' = [wk EXCEPT ![w] = x] /\ UNCHANGED <<state, closing, queue, slot, cl>>
      /\ x \in WorkerStates /\ x.at = "hand"
      /\ x.batch = wk[w].batch /\ x.todo = wk[w].todo
  BY <1>1, <1>2 DEF Ask, Panics, WorkerStates
<1>4. WorkerOK(x) /\ InHand(x) = InHand(wk[w])
  BY Zenon, <1>2, <1>3 DEF WorkerOK, InHand, Cur
<1>. QED
  BY Zenon, <1>3, <1>4, WorkerMoves

\* settleHit and settleRest take up the requests of one key.
LEMMA HandStep ==
  ASSUME IInv, NEW w \in Worker, NEW k \in Key, Hand(w, k)
  PROVE  IInv'
<1>1. PICK x, W : x = wk'[w] /\ W = {r \in wk[w].batch : r.key = k}
  BY Zenon
<1>2. wk[w] \in WorkerStates /\ WorkerOK(wk[w]) /\ wk \in [Worker -> WorkerStates]
  BY Zenon DEF IInv, TypeOK
<1>3. W \subseteq wk[w].batch /\ wk[w].batch \subseteq Request /\ wk[w].hits \subseteq Key
  BY Zenon, <1>1, <1>2 DEF WorkerStates
<1>4. /\ wk[w].at = "hand" /\ UNCHANGED <<state, closing, queue, slot, cl>>
      /\ wk' = [wk EXCEPT ![w].at = "settle", ![w].todo = W, ![w].back = "hand",
                          ![w].batch = @ \ W, ![w].hits = @ \ {k}]
  BY ZenonT(30), <1>1 DEF Hand
<1>5. /\ wk' = [wk EXCEPT ![w] = x]
      /\ x \in WorkerStates /\ x.at = "settle" /\ x.back = "hand" /\ x.batch = wk[w].batch \ W /\ x.todo = W
  BY Zenon, <1>1, <1>2, <1>3, <1>4 DEF WorkerStates
<1>6. WorkerOK(x) /\ InHand(x) = InHand(wk[w])
  BY Zenon, <1>2, <1>3, <1>4, <1>5 DEF WorkerOK, InHand, Cur
<1>. QED
  BY Zenon, <1>4, <1>5, <1>6, WorkerMoves

\* The batch is settled.
LEMMA HandEndStep ==
  ASSUME IInv, NEW w \in Worker, HandEnd(w)
  PROVE  IInv'
<1>1. wk[w] \in WorkerStates /\ WorkerOK(wk[w])
  BY Zenon DEF IInv, TypeOK
<1>2. /\ AtLoop \in WorkerStates /\ AtLoop.at = "loop" /\ AtLoop.batch = {} /\ AtLoop.todo = {}
      /\ wk[w].at = "hand" /\ wk[w].batch = {}
      /\ wk' = [wk EXCEPT ![w] = AtLoop] /\ UNCHANGED <<state, closing, queue, slot, cl>>
  BY Zenon DEF HandEnd, AtLoop, WorkerStates
<1>3. WorkerOK(AtLoop) /\ InHand(AtLoop) = InHand(wk[w])
  BY Zenon, <1>1, <1>2 DEF WorkerOK, InHand, Cur
<1>. QED
  BY Zenon, <1>2, <1>3, WorkerMoves

\* A worker leaves on stop, with nothing in hand.
LEMMA StopWorkerStep ==
  ASSUME IInv, NEW w \in Worker, StopWorker(w)
  PROVE  IInv'
<1>1. PICK x : x = wk'[w]
  BY Zenon
<1>2. wk[w] \in WorkerStates /\ WorkerOK(wk[w]) /\ wk \in [Worker -> WorkerStates]
  BY Zenon DEF IInv, TypeOK
<1>3. /\ wk[w].at = "loop" /\ wk' = [wk EXCEPT ![w] = x] /\ UNCHANGED <<state, closing, queue, slot, cl>>
      /\ x \in WorkerStates /\ x.at = "gone" /\ x.batch = wk[w].batch /\ x.todo = wk[w].todo
  BY Zenon, <1>1, <1>2 DEF StopWorker, WorkerStates
<1>4. WorkerOK(x) /\ InHand(x) = InHand(wk[w])
  BY Zenon, <1>2, <1>3 DEF WorkerOK, InHand, Cur
<1>. QED
  BY Zenon, <1>3, <1>4, WorkerMoves
\* Requests are well-typed and their slots are in use.
LEMMA RequestsType ==
  ASSUME IInv
  PROVE  /\ Requests \subseteq Request
         /\ \A r \in Requests : r.slot \in Slot /\ r.call \in Caller \X Nat /\ slot[r.slot].refs \in Nat \ {0}
<1>1. Queued \subseteq Request
  BY DEF IInv, TypeOK, Queued
<1>2. ASSUME NEW w \in Worker PROVE InHand(wk[w]) \subseteq Request
  BY Zenon DEF IInv, TypeOK, WorkerStates, WorkerOK, InHand, Cur
<1>3. Requests \subseteq Request
  BY Zenon, <1>1, <1>2 DEF Requests
<1>4. ASSUME NEW r \in Requests PROVE r.slot \in Slot /\ r.call \in Caller \X Nat /\ slot[r.slot].refs \in Nat \ {0}
  <2>1. r.slot \in Slot /\ r.call \in Caller \X Nat
    BY Zenon, <1>3 DEF Request
  <2>2. Refs(r.slot) \in Nat \ {0}
    BY DEF Refs, One
  <2>. QED
    BY Zenon, <2>1, <2>2 DEF IInv, CountInv
<1>. QED
  BY Zenon, <1>3, <1>4

\* settle: the answer and the signal go into a slot that its request holds.
LEMMA SettleStep ==
  ASSUME IInv, NEW w \in Worker, NEW r \in wk[w].todo, Settle(w, r)
  PROVE  IInv'
<1>1. PICK x : x = wk'[w]
  BY Zenon
<1>2. wk[w] \in WorkerStates /\ WorkerOK(wk[w]) /\ wk \in [Worker -> WorkerStates] /\ slot \in [Slot -> SlotStates]
  BY Zenon DEF IInv, TypeOK
<1>3. r \in Request /\ r \in InHand(wk[w]) /\ r \in Requests
  BY <1>2 DEF WorkerStates, InHand, Requests
<1>4. r.slot \in Slot /\ r.call \in Caller \X Nat /\ slot[r.slot].refs \in Nat \ {0}
  BY Zenon, <1>3, RequestsType
<1>5. /\ wk[w].at = "settle" /\ wk' = [wk EXCEPT ![w] = x] /\ UNCHANGED <<state, closing, queue, cl>>
      /\ x \in WorkerStates /\ x.at = "drop" /\ x.cur = r /\ x.batch = wk[w].batch
      /\ x.todo = wk[w].todo \ {r} /\ x.back = wk[w].back
  BY Zenon, <1>1, <1>2, <1>3 DEF Settle, WorkerStates
<1>6. WorkerOK(x) /\ InHand(x) = InHand(wk[w])
  BY <1>2, <1>3, <1>5 DEF WorkerOK, InHand, Cur
<1>7. /\ wk' \in [Worker -> WorkerStates] /\ wk'[w] = x /\ OthersKeep(w) /\ PoolInv'
      /\ \A v \in Worker : WorkerOK(wk'[v])
  BY Zenon, <1>5, <1>6, WorkerGoes
<1>8. PlacesInv' /\ Requests' = Requests
  BY Zenon, <1>5, <1>6, <1>7, OwnPlaces DEF IInv
<1>9. /\ slot' \in [Slot -> SlotStates]
      /\ slot'[r.slot].refs = slot[r.slot].refs /\ slot'[r.slot].answer = r.call
      /\ \A s \in Slot \ {r.slot} : slot'[s] = slot[s]
  BY <1>2, <1>4 DEF Settle, SlotStates
<1>10. TypeOK'
  BY Zenon, <1>5, <1>7, <1>9 DEF IInv, TypeOK
<1>11. OwnersInv'
  BY Zenon, <1>5, <1>8 DEF IInv, OwnersInv, Owns, Call
<1>12. CountInv'
  <2>1. \A s \in Slot : Refs(s)' = Refs(s)
    BY Zenon, <1>5, <1>8 DEF Refs, Owns
  <2>2. \A s \in Slot : slot[s].refs = Refs(s) /\ (slot[s].refs = 0 => slot[s] = CleanSlot)
    BY Zenon DEF IInv, CountInv
  <2>. QED
    BY Zenon, <1>4, <1>9, <2>1, <2>2 DEF CountInv
<1>13. AnswerInv'
  <2>1. ASSUME NEW c \in Caller, cl[c].at = "read" \/ (cl[c].at \in {"send", "wait"} /\ slot'[cl[c].slot].done)
        PROVE  slot'[cl[c].slot].answer = Call(c)
    <3>1. CASE cl[c].slot = r.slot
      BY Zenon, <1>3, <1>9, <3>1 DEF IInv, OwnersInv, Owns
    <3>2. CASE cl[c].slot # r.slot
      <4>1. cl[c].slot \in Slot
        BY Zenon, <2>1 DEF IInv, OwnersInv, TypeOK, CallerStates
      <4>2. slot'[cl[c].slot] = slot[cl[c].slot]
        BY Zenon, <1>9, <3>2, <4>1
      <4>. QED
        BY Zenon, <2>1, <4>2 DEF IInv, AnswerInv
    <3>. QED
      BY Zenon, <3>1, <3>2
  <2>. QED
    BY Zenon, <1>5, <2>1 DEF AnswerInv, Call
<1>. QED
  BY Zenon, <1>7, <1>8, <1>10, <1>11, <1>12, <1>13 DEF IInv

\* Who holds a slot after a step that changes neither callers nor other requests.
LEMMA DropRefs ==
  ASSUME IInv, NEW r \in Requests, Requests' = Requests \ {r}, UNCHANGED cl
  PROVE  /\ OwnersInv'
         /\ \A s \in Slot : Refs(s)' = IF s = r.slot THEN Refs(s) - 1 ELSE Refs(s)
         /\ Refs(r.slot) = 1 => \A c \in Caller : ~Owns(c, r.slot)
<1>1. OwnersInv'
  BY Zenon DEF IInv, OwnersInv, Owns, Call
<1>2. \A q \in Requests : q.slot = r.slot => q = r
  BY Zenon DEF IInv, OwnersInv
<1>3. \A s \in Slot : (\E q \in Requests' : q.slot = s) <=> (s # r.slot /\ \E q \in Requests : q.slot = s)
  BY Zenon, <1>2
<1>4. \E q \in Requests : q.slot = r.slot
  BY Zenon
<1>5. ASSUME NEW s \in Slot PROVE Refs(s)' = IF s = r.slot THEN Refs(s) - 1 ELSE Refs(s)
  BY <1>3, <1>4 DEF Refs, One, Owns
<1>6. Refs(r.slot) = 1 => \A c \in Caller : ~Owns(c, r.slot)
  BY <1>4 DEF Refs, One
<1>. QED
  BY Zenon, <1>1, <1>5, <1>6

\* release of n references of slot s.
LEMMA Releases ==
  ASSUME slot \in [Slot -> SlotStates], NEW s \in Slot, NEW n \in {1, 2}, slot[s].refs >= n,
         slot' = Released(s, n)
  PROVE  /\ slot' \in [Slot -> SlotStates]
         /\ slot'[s].refs = slot[s].refs - n /\ (slot'[s].refs = 0 => slot'[s] = CleanSlot)
         /\ slot[s].refs # n => slot'[s].done = slot[s].done /\ slot'[s].answer = slot[s].answer
         /\ \A t \in Slot \ {s} : slot'[t] = slot[t]
<1>1. slot[s] \in SlotStates /\ slot[s].refs \in Nat /\ CleanSlot \in SlotStates /\ CleanSlot.refs = 0
  <2>1. slot[s] \in SlotStates
    BY Zenon
  <2>2. slot[s].refs \in Nat
    BY Zenon, <2>1 DEF SlotStates
  <2>3. CleanSlot \in SlotStates
    BY Zenon DEF SlotStates, CleanSlot
  <2>4. CleanSlot.refs = 0
    BY Zenon DEF CleanSlot
  <2>. QED
    BY Zenon, <2>1, <2>2, <2>3, <2>4
<1>2. CASE slot[s].refs = n
  <2>1. slot' = [slot EXCEPT ![s] = CleanSlot]
    BY Zenon, <1>2 DEF Released
  <2>. QED
    BY <1>1, <1>2, <2>1
<1>3. CASE slot[s].refs # n
  <2>1. slot' = [slot EXCEPT ![s].refs = slot[s].refs - n]
    BY Zenon, <1>3 DEF Released
  <2>2. slot[s].refs - n \in Nat \ {0}
    BY <1>1, <1>3
  <2>. QED
    BY <1>1, <1>3, <2>1, <2>2 DEF SlotStates
<1>. QED
  BY Zenon, <1>2, <1>3

\* Slots after n references of slot s were released.
LEMMA ReleasedCounts ==
  ASSUME CountInv, slot \in [Slot -> SlotStates], NEW s \in Slot, NEW n \in {1, 2}, slot[s].refs >= n,
         slot' = Released(s, n), \A t \in Slot : Refs(t)' = IF t = s THEN Refs(t) - n ELSE Refs(t)
  PROVE  CountInv'
<1>1. /\ slot'[s].refs = slot[s].refs - n /\ (slot'[s].refs = 0 => slot'[s] = CleanSlot)
      /\ \A t \in Slot \ {s} : slot'[t] = slot[t]
  BY Zenon, Releases
<1>2. \A t \in Slot : slot[t].refs = Refs(t) /\ (slot[t].refs = 0 => slot[t] = CleanSlot)
  BY Zenon DEF CountInv
<1>. QED
  BY Zenon, <1>1, <1>2 DEF CountInv

\* The worker's reference is dropped after the slot is settled.
LEMMA DropStep ==
  ASSUME IInv, NEW w \in Worker, Drop(w)
  PROVE  IInv'
<1>1. PICK x, r : x = wk'[w] /\ r = wk[w].cur
  BY Zenon
<1>2. wk[w] \in WorkerStates /\ WorkerOK(wk[w]) /\ wk \in [Worker -> WorkerStates] /\ slot \in [Slot -> SlotStates]
  BY Zenon DEF IInv, TypeOK
<1>3. wk[w].at = "drop" /\ r \in Request /\ r \in InHand(wk[w]) /\ r \in Requests
  <2>1. wk[w].at = "drop"
    BY Zenon DEF Drop
  <2>2. r \in Request /\ r \in InHand(wk[w])
    BY Zenon, <1>1, <1>2, <2>1 DEF WorkerOK, InHand, Cur
  <2>. QED
    BY Zenon, <2>1, <2>2 DEF Requests
<1>4. r.slot \in Slot /\ slot[r.slot].refs \in Nat \ {0} /\ slot[r.slot].refs >= 1
  <2>1. r.slot \in Slot /\ slot[r.slot].refs \in Nat \ {0}
    BY Zenon, <1>3, RequestsType
  <2>2. slot[r.slot].refs >= 1
    BY <2>1
  <2>. QED
    BY Zenon, <2>1, <2>2
<1>5. /\ wk' = [wk EXCEPT ![w] = x] /\ UNCHANGED <<state, closing, queue, cl>>
      /\ slot' = Released(r.slot, 1)
      /\ x \in WorkerStates /\ x.at = (IF wk[w].todo = {} THEN wk[w].back ELSE "settle")
      /\ x.batch = wk[w].batch /\ x.todo = wk[w].todo /\ (wk[w].todo # {} => x.back = wk[w].back)
  BY Zenon, <1>1, <1>2 DEF Drop, WorkerStates
<1>6. WorkerOK(x) /\ InHand(x) = InHand(wk[w]) \ {r}
  <2>1. wk[w].back \in {"drain", "hand"}
    BY Zenon, <1>2, <1>3 DEF WorkerOK
  <2>2. x.at \in {"drain", "hand", "settle"} /\ Cur(x) = {} /\ Cur(wk[w]) = {r}
    BY Zenon, <1>1, <1>3, <1>5, <2>1 DEF Cur
  <2>. QED
    BY Zenon, <1>2, <1>5, <2>1, <2>2 DEF WorkerOK, InHand
<1>7. /\ wk' \in [Worker -> WorkerStates] /\ wk'[w] = x /\ OthersKeep(w) /\ PoolInv'
      /\ \A v \in Worker : WorkerOK(wk'[v])
  BY Zenon, <1>3, <1>5, <1>6, WorkerGoes
<1>8. PlacesInv' /\ Requests' = Requests \ {r}
  BY Zenon, <1>3, <1>5, <1>6, <1>7, LastPlace DEF IInv
<1>9. /\ OwnersInv' /\ \A s \in Slot : Refs(s)' = IF s = r.slot THEN Refs(s) - 1 ELSE Refs(s)
      /\ Refs(r.slot) = 1 => \A c \in Caller : ~Owns(c, r.slot)
  BY Zenon, <1>3, <1>5, <1>8, DropRefs
<1>10. CountInv'
  BY Zenon, <1>2, <1>4, <1>5, <1>9, ReleasedCounts DEF IInv
<1>11. /\ slot' \in [Slot -> SlotStates] /\ \A s \in Slot \ {r.slot} : slot'[s] = slot[s]
       /\ slot[r.slot].refs # 1 =>
            slot'[r.slot].done = slot[r.slot].done /\ slot'[r.slot].answer = slot[r.slot].answer
  BY Zenon, <1>2, <1>4, <1>5, Releases
<1>12. TypeOK'
  BY Zenon, <1>5, <1>7, <1>11 DEF IInv, TypeOK
<1>13. AnswerInv'
  <2>1. ASSUME NEW c \in Caller, cl[c].at = "read" \/ (cl[c].at \in {"send", "wait"} /\ slot'[cl[c].slot].done)
        PROVE  slot'[cl[c].slot].answer = Call(c)
    <3>1. cl[c].slot \in Slot
      BY Zenon, <2>1 DEF IInv, OwnersInv, TypeOK, CallerStates
    <3>2. slot'[cl[c].slot].done = slot[cl[c].slot].done /\ slot'[cl[c].slot].answer = slot[cl[c].slot].answer
      <4>1. CASE cl[c].slot = r.slot
        <5>1. slot[r.slot].refs # 1
          BY Zenon, <1>4, <1>9, <4>1 DEF IInv, CountInv, Owns
        <5>. QED
          BY Zenon, <1>11, <4>1, <5>1
      <4>2. CASE cl[c].slot # r.slot
        BY Zenon, <1>11, <3>1, <4>2
      <4>. QED
        BY Zenon, <4>1, <4>2
    <3>. QED
      BY Zenon, <2>1, <3>2 DEF IInv, AnswerInv
  <2>. QED
    BY Zenon, <1>5, <2>1 DEF AnswerInv, Call
<1>. QED
  BY Zenon, <1>7, <1>8, <1>9, <1>10, <1>12, <1>13 DEF IInv
-----------------------------------------------------------------------------
(***************************************************************************)
(* The steps of a caller, and Close.                                       *)
(***************************************************************************)

\* Steps that leave the queue and the workers alone.
LEMMA PlacesStill ==
  ASSUME IInv, UNCHANGED <<state, closing, queue, wk>>
  PROVE  /\ PlacesInv' /\ PoolInv' /\ Requests' = Requests /\ \A w \in Worker : WorkerOK(wk[w])'
         /\ queue' \in Seq(Request) /\ wk' \in [Worker -> WorkerStates]
         /\ state' \in {"idle", "running", "closed"} /\ closing' \in {"open", "stop", "wait", "closed"}
<1>1. Queued' = Queued /\ Requests' = Requests
  BY Zenon DEF Queued, Requests
<1>2. PlacesInv' /\ PoolInv' /\ \A w \in Worker : WorkerOK(wk[w])'
  BY Zenon, <1>1 DEF IInv, PlacesInv, PoolInv, ClosedForGood
<1>. QED
  BY Zenon, <1>1, <1>2 DEF IInv, TypeOK

\* A caller that holds no slot before the step and none after it.
LEMMA CallerMoves ==
  ASSUME IInv, NEW c \in Caller, NEW y \in CallerStates, cl' = [cl EXCEPT ![c] = y],
         UNCHANGED <<state, closing, queue, slot, wk>>,
         cl[c].at \notin {"send", "wait", "read"}, y.at \notin {"send", "wait", "read"}, y.slot = "none"
  PROVE  IInv'
<1>1. /\ PlacesInv' /\ PoolInv' /\ Requests' = Requests /\ \A w \in Worker : WorkerOK(wk[w])'
      /\ queue' \in Seq(Request) /\ wk' \in [Worker -> WorkerStates]
      /\ state' \in {"idle", "running", "closed"} /\ closing' \in {"open", "stop", "wait", "closed"}
  BY Zenon, PlacesStill
<1>2. /\ cl \in [Caller -> CallerStates] /\ cl' \in [Caller -> CallerStates] /\ cl'[c] = y
      /\ \A d \in Caller \ {c} : cl'[d] = cl[d]
  BY Zenon DEF IInv, TypeOK
<1>3. cl[c].slot = "none"
  BY Zenon DEF IInv, OwnersInv
<1>4. \A d \in Caller : cl'[d].slot = cl[d].slot /\ (cl[d].slot # "none" => cl'[d] = cl[d])
  BY Zenon, <1>2, <1>3
<1>5. \A r \in Requests : r.slot \in Slot
  BY Zenon, RequestsType
<1>7. OwnersInv'
  <2>1. \A d \in Caller : cl'[d].slot # "none" <=> cl'[d].at \in {"send", "wait", "read"}
    BY Zenon, <1>2, <1>3, <1>4 DEF IInv, OwnersInv
  <2>2. \A d, e \in Caller : cl'[d].slot = cl'[e].slot /\ cl'[d].slot # "none" => d = e
    BY <1>4 DEF IInv, OwnersInv
  <2>3. \A r, q \in Requests : r.slot = q.slot => r = q
    BY Zenon DEF IInv, OwnersInv
  <2>4. ASSUME NEW d \in Caller, NEW r \in Requests, cl'[d].slot = r.slot
        PROVE  cl'[d].at # "send" /\ r.call = <<d, cl'[d].n>>
    <3>1. r.slot \in Slot /\ cl[d].slot = r.slot
      BY Zenon, <1>4, <1>5, <2>4
    <3>2. cl[d].at # "send" /\ r.call = Call(d)
      BY Zenon, <3>1 DEF IInv, OwnersInv, Owns
    <3>3. cl'[d] = cl[d]
      BY Zenon, <1>4, <3>1, GetBatchedAssumption
    <3>. QED
      BY Zenon, <3>2, <3>3 DEF Call
  <2>. QED
    BY Zenon, <1>1, <2>1, <2>2, <2>3, <2>4 DEF OwnersInv, Owns, Call
<1>8. CountInv'
  <2>1. ASSUME NEW s \in Slot PROVE Refs(s)' = Refs(s)
    <3>1. \A d \in Caller : cl'[d].slot = s <=> cl[d].slot = s
      BY Zenon, <1>4
    <3>2. \A d \in Caller : cl'[d].slot = s /\ cl'[d].at = "send" <=> cl[d].slot = s /\ cl[d].at = "send"
      BY Zenon, <1>4, GetBatchedAssumption
    <3>. QED
      BY Zenon, <1>1, <3>1, <3>2 DEF Refs, One, Owns
  <2>. QED
    BY Zenon, <2>1 DEF IInv, CountInv
<1>9. AnswerInv'
  BY Zenon, <1>2, <1>4 DEF IInv, OwnersInv, AnswerInv, Call
<1>10. TypeOK'
  BY Zenon, <1>1, <1>2 DEF IInv, TypeOK
<1>. QED
  BY Zenon, <1>1, <1>7, <1>8, <1>9, <1>10 DEF IInv

\* A call begins, finds the pool closed, or reads the second level by itself.
LEMMA CallerQuietStep ==
  ASSUME IInv, NEW c \in Caller,
         \/ \E k \in Key : Begin(c, k)
         \/ StartClosed(c)
         \/ \E found \in BOOLEAN : Direct(c, found)
  PROVE  IInv'
<1>1. PICK y : y = cl'[c]
  BY Zenon
<1>2. cl[c] \in CallerStates /\ cl \in [Caller -> CallerStates]
  BY Zenon DEF IInv, TypeOK
<1>3. cl[c].at \in {"idle", "start", "direct"}
  BY Zenon DEF Begin, StartClosed, Direct
<1>4. cl[c].slot = "none"
  BY Zenon, <1>3 DEF IInv, OwnersInv
<1>5. /\ UNCHANGED <<state, closing, queue, slot, wk>> /\ cl' = [cl EXCEPT ![c] = y]
      /\ y \in CallerStates /\ y.at \in {"start", "direct", "idle"} /\ y.slot = cl[c].slot
  <2>1. ASSUME NEW k \in Key, Begin(c, k) PROVE <1>5!:
    <3>1. cl' = [cl EXCEPT ![c].at = "start", ![c].n = @ + 1, ![c].key = k]
      BY Zenon, <2>1 DEF Begin
    <3>2. PICK m \in Nat : m = cl[c].n + 1
      BY <1>2 DEF CallerStates
    <3>3. y = [cl[c] EXCEPT !.at = "start", !.n = m, !.key = k] /\ cl' = [cl EXCEPT ![c] = y]
      BY Zenon, <1>1, <1>2, <3>1, <3>2
    <3>4. y \in CallerStates /\ y.at = "start" /\ y.slot = cl[c].slot
      BY Zenon, <1>2, <3>3 DEF CallerStates
    <3>. QED
      BY Zenon, <2>1, <3>3, <3>4 DEF Begin
  <2>2. CASE StartClosed(c)
    BY Zenon, <1>1, <1>2, <2>2 DEF StartClosed, CallerStates
  <2>3. CASE \E found \in BOOLEAN : Direct(c, found)
    <3>1. cl' = [cl EXCEPT ![c].at = "idle", ![c].key = "none"] /\ UNCHANGED <<state, closing, queue, slot, wk>>
      BY Zenon, <2>3 DEF Direct
    <3>. QED
      BY Zenon, <1>1, <1>2, <3>1 DEF CallerStates
  <2>. QED
    BY Zenon, <2>1, <2>2, <2>3
<1>. QED
  BY Zenon, <1>3, <1>4, <1>5, CallerMoves

\* getQueueCh and acquire: the workers are started if need be, and a slot that
\* nobody holds becomes the caller's, with both references.
LEMMA StartStep ==
  ASSUME IInv, NEW c \in Caller, Start(c)
  PROVE  IInv'
<1>1. PICK s, y : s = Acquired /\ y = cl'[c]
  BY Zenon
<1>2. /\ cl[c] \in CallerStates /\ cl \in [Caller -> CallerStates] /\ slot \in [Slot -> SlotStates]
      /\ wk \in [Worker -> WorkerStates]
  BY Zenon DEF IInv, TypeOK
<1>3. s \in Slot /\ slot[s].refs = 0
  BY Zenon, <1>1 DEF Start, Acquired
<1>4. slot[s] = CleanSlot /\ Refs(s) = 0
  BY Zenon, <1>3 DEF IInv, CountInv
<1>5. /\ \A d \in Caller : cl[d].slot # s
      /\ \A r \in Requests : r.slot # s
  BY <1>4 DEF Refs, One, Owns
<1>6. cl[c].at = "start" /\ cl[c].slot = "none"
  BY Zenon DEF Start, IInv, OwnersInv
<1>7. /\ slot' = [slot EXCEPT ![s].refs = 2] /\ cl' = [cl EXCEPT ![c] = y]
      /\ y \in CallerStates /\ y.at = "send" /\ y.slot = s /\ UNCHANGED <<closing, queue>>
      /\ state # "closed" /\ state' = "running"
  BY Zenon, <1>1, <1>2, <1>3 DEF Start, CallerStates
<1>8. /\ cl' \in [Caller -> CallerStates] /\ cl'[c] = y /\ \A d \in Caller \ {c} : cl'[d] = cl[d]
      /\ slot' \in [Slot -> SlotStates] /\ slot'[s].refs = 2 /\ slot'[s].done = slot[s].done
      /\ \A t \in Slot \ {s} : slot'[t] = slot[t]
  BY <1>2, <1>3, <1>7 DEF SlotStates
<1>9. /\ wk' \in [Worker -> WorkerStates] /\ PoolInv'
      /\ \A w \in Worker : InHand(wk'[w]) = InHand(wk[w]) /\ WorkerOK(wk'[w])
  <2>1. CASE state = "idle"
    <3>1. /\ wk' = [w \in Worker |-> AtLoop] /\ AtLoop \in WorkerStates /\ AtLoop.at = "loop"
          /\ AtLoop.batch = {} /\ AtLoop.todo = {}
      BY Zenon, <2>1 DEF Start, AtLoop, WorkerStates
    <3>2. InHand(AtLoop) = {} /\ WorkerOK(AtLoop)
      BY Zenon, <3>1 DEF InHand, WorkerOK, Cur
    <3>3. ASSUME NEW w \in Worker PROVE InHand(wk[w]) = {}
      BY Zenon, <2>1 DEF IInv, PoolInv, WorkerOK, InHand, Cur
    <3>4. PoolInv'
      BY Zenon, <1>7, <2>1 DEF IInv, TypeOK, PoolInv, ClosedForGood
    <3>. QED
      BY Zenon, <3>1, <3>2, <3>3, <3>4
  <2>2. CASE state # "idle"
    <3>1. wk' = wk
      BY Zenon, <2>2 DEF Start
    <3>2. PoolInv'
      BY Zenon, <1>7, <3>1 DEF IInv, PoolInv, ClosedForGood
    <3>. QED
      BY Zenon, <1>2, <3>1, <3>2 DEF IInv
  <2>. QED
    BY Zenon, <2>1, <2>2
<1>10. Requests' = Requests /\ PlacesInv'
  <2>1. Queued' = Queued
    BY Zenon, <1>7 DEF Queued
  <2>2. Requests' = Requests
    BY Zenon, <1>9, <2>1 DEF Requests
  <2>. QED
    BY Zenon, <1>7, <1>9, <2>1, <2>2 DEF IInv, PlacesInv
<1>11. OwnersInv'
  <2>1. \A d \in Caller : cl'[d].slot # "none" <=> cl'[d].at \in {"send", "wait", "read"}
    BY <1>3, <1>7, <1>8, GetBatchedAssumption DEF IInv, OwnersInv
  <2>2. \A d, e \in Caller : cl'[d].slot = cl'[e].slot /\ cl'[d].slot # "none" => d = e
    BY <1>5, <1>7, <1>8 DEF IInv, OwnersInv
  <2>3. \A r, q \in Requests : r.slot = q.slot => r = q
    BY Zenon DEF IInv, OwnersInv
  <2>4. ASSUME NEW d \in Caller, NEW r \in Requests, cl'[d].slot = r.slot
        PROVE  cl'[d].at # "send" /\ r.call = <<d, cl'[d].n>>
    <3>1. d # c
      BY Zenon, <1>5, <1>7, <1>8, <2>4
    <3>2. cl'[d] = cl[d]
      BY Zenon, <1>8, <3>1
    <3>. QED
      BY Zenon, <2>4, <3>2 DEF IInv, OwnersInv, Owns, Call
  <2>. QED
    BY Zenon, <1>10, <2>1, <2>2, <2>3, <2>4 DEF OwnersInv, Owns, Call
<1>12. CountInv'
  <2>1. Refs(s)' = 2
    <3>1. cl'[c].slot = s /\ cl'[c].at = "send"
      BY Zenon, <1>7, <1>8
    <3>. QED
      BY <1>5, <1>10, <3>1 DEF Refs, One, Owns
  <2>2. ASSUME NEW t \in Slot, t # s PROVE Refs(t)' = Refs(t)
    <3>1. \A d \in Caller : cl'[d].slot = t <=> cl[d].slot = t
      BY <1>6, <1>7, <1>8, <2>2, GetBatchedAssumption
    <3>2. \A d \in Caller : cl'[d].slot = t /\ cl'[d].at = "send" <=> cl[d].slot = t /\ cl[d].at = "send"
      BY Zenon, <1>6, <1>7, <1>8, <2>2, GetBatchedAssumption
    <3>. QED
      BY Zenon, <1>10, <3>1, <3>2 DEF Refs, One, Owns
  <2>3. \A t \in Slot : slot[t].refs = Refs(t) /\ (slot[t].refs = 0 => slot[t] = CleanSlot)
    BY Zenon DEF IInv, CountInv
  <2>. QED
    BY <1>8, <2>1, <2>2, <2>3 DEF CountInv
<1>13. AnswerInv'
  <2>1. ASSUME NEW d \in Caller, cl'[d].at = "read" \/ (cl'[d].at \in {"send", "wait"} /\ slot'[cl'[d].slot].done)
        PROVE  slot'[cl'[d].slot].answer = <<d, cl'[d].n>>
    <3>1. slot'[s].done = FALSE
      BY <1>4, <1>8 DEF CleanSlot
    <3>2. d # c
      BY Zenon, <1>7, <1>8, <2>1, <3>1
    <3>3. cl'[d] = cl[d]
      BY Zenon, <1>8, <3>2
    <3>4. cl[d].slot \in Slot \ {s}
      BY Zenon, <1>5, <2>1, <3>3 DEF IInv, OwnersInv, TypeOK, CallerStates
    <3>5. slot'[cl[d].slot] = slot[cl[d].slot]
      BY Zenon, <1>8, <3>4
    <3>. QED
      BY Zenon, <2>1, <3>3, <3>5 DEF IInv, AnswerInv, Call
  <2>. QED
    BY Zenon, <2>1 DEF AnswerInv, Call
<1>14. TypeOK'
  BY Zenon, <1>7, <1>8, <1>9 DEF IInv, TypeOK
<1>. QED
  BY Zenon, <1>9, <1>10, <1>11, <1>12, <1>13, <1>14 DEF IInv
\* The request is handed over, and one of the caller's references with it.
LEMMA SendStep ==
  ASSUME IInv, NEW c \in Caller, Send(c)
  PROVE  IInv'
<1>1. PICK s, y, r : s = cl[c].slot /\ y = cl'[c] /\ r = [call |-> Call(c), key |-> cl[c].key, slot |-> cl[c].slot]
  BY Zenon
<1>2. /\ cl[c] \in CallerStates /\ cl \in [Caller -> CallerStates] /\ slot \in [Slot -> SlotStates]
      /\ wk \in [Worker -> WorkerStates] /\ queue \in Seq(Request)
  BY Zenon DEF IInv, TypeOK
<1>3. cl[c].at = "send" /\ s \in Slot /\ s # "none"
  BY Zenon, <1>1, <1>2, GetBatchedAssumption DEF Send, IInv, OwnersInv, CallerStates
<1>4. r \in Request
  BY Zenon, <1>1, <1>2, <1>3 DEF Call, Request, CallerStates
<1>5. /\ queue' = Append(queue, r) /\ cl' = [cl EXCEPT ![c] = y] /\ y \in CallerStates
      /\ y.at = "wait" /\ y.slot = s /\ y.n = cl[c].n /\ y.key = cl[c].key
      /\ UNCHANGED <<state, closing, slot, wk>>
  BY Zenon, <1>1, <1>2 DEF Send, CallerStates
<1>6. cl' \in [Caller -> CallerStates] /\ cl'[c] = y /\ \A d \in Caller \ {c} : cl'[d] = cl[d]
  BY Zenon, <1>2, <1>5
<1>7. r.slot = s /\ r.call = <<c, cl[c].n>>
  BY Zenon, <1>1 DEF Call
<1>8. \A q \in Requests : q.slot # s
  BY Zenon, <1>1, <1>3 DEF IInv, OwnersInv, Owns
<1>9. r \notin Requests
  BY Zenon, <1>7, <1>8
<1>10. /\ queue' \in Seq(Request) /\ Queued' = Queued \cup {r}
       /\ \A i, j \in DOMAIN queue' : queue'[i] = queue'[j] => i = j
  BY <1>2, <1>4, <1>5, <1>9, QueueAppend DEF IInv, PlacesInv, Requests
<1>11. Requests' = Requests \cup {r}
  BY <1>5, <1>10 DEF Requests
<1>12. PlacesInv'
  <2>1. \A w \in Worker : r \notin InHand(wk[w])
    BY Zenon, <1>9 DEF Requests
  <2>2. wk' = wk
    BY Zenon, <1>5
  <2>3. \A w \in Worker : Queued' \cap InHand(wk[w]) = {}
    <3>1. \A w \in Worker : Queued \cap InHand(wk[w]) = {}
      BY Zenon DEF IInv, PlacesInv
    <3>. QED
      BY Zenon, <1>10, <2>1, <3>1
  <2>4. \A w, v \in Worker : w # v => InHand(wk[w]) \cap InHand(wk[v]) = {}
    BY Zenon DEF IInv, PlacesInv
  <2>. QED
    BY <1>10, <2>2, <2>3, <2>4 DEF PlacesInv, InHand, Cur
<1>13. PoolInv' /\ \A w \in Worker : WorkerOK(wk[w])'
  BY Zenon, <1>5 DEF IInv, PoolInv, ClosedForGood
<1>14. OwnersInv'
  <2>1. \A d \in Caller : cl'[d].slot # "none" <=> cl'[d].at \in {"send", "wait", "read"}
    BY Zenon, <1>3, <1>5, <1>6 DEF IInv, OwnersInv
  <2>2. \A d \in Caller : cl'[d].slot = cl[d].slot /\ cl'[d].n = cl[d].n
    BY Zenon, <1>1, <1>5, <1>6
  <2>3. \A d, e \in Caller : cl'[d].slot = cl'[e].slot /\ cl'[d].slot # "none" => d = e
    BY <2>2 DEF IInv, OwnersInv
  <2>4. \A q, p \in Requests' : q.slot = p.slot => q = p
    BY Zenon, <1>7, <1>8, <1>11 DEF IInv, OwnersInv
  <2>5. ASSUME NEW d \in Caller, NEW q \in Requests', cl'[d].slot = q.slot
        PROVE  cl'[d].at # "send" /\ q.call = <<d, cl'[d].n>>
    <3>1. CASE q = r
      <4>1. d = c
        BY <1>1, <1>3, <1>7, <2>2, <2>5, <3>1 DEF IInv, OwnersInv
      <4>. QED
        BY Zenon, <1>5, <1>6, <1>7, <2>2, <3>1, <4>1
    <3>2. CASE q # r
      <4>1. q \in Requests /\ d # c
        BY Zenon, <1>1, <1>8, <1>11, <2>2, <2>5, <3>2
      <4>2. cl'[d] = cl[d]
        BY Zenon, <1>6, <4>1
      <4>. QED
        BY <2>5, <4>1, <4>2 DEF IInv, OwnersInv, Owns, Call
    <3>. QED
      BY Zenon, <3>1, <3>2
  <2>. QED
    BY Zenon, <2>1, <2>3, <2>4, <2>5 DEF OwnersInv, Owns, Call
<1>15. CountInv'
  <2>1. Refs(s) = 2 /\ Refs(s)' = 2
    <3>1. \A d \in Caller : cl[d].slot = s => d = c
      BY Zenon, <1>1, <1>3 DEF IInv, OwnersInv
    <3>2. \A d \in Caller : cl'[d].slot = s => cl'[d].at # "send"
      BY Zenon, <1>5, <1>6, <3>1
    <3>3. Refs(s) = 2
      BY <1>1, <1>3, <1>8 DEF Refs, One, Owns
    <3>4. cl'[c].slot = s /\ r \in Requests'
      BY Zenon, <1>5, <1>6, <1>11
    <3>5. Refs(s)' = 2
      BY <1>7, <3>2, <3>4 DEF Refs, One, Owns
    <3>. QED
      BY Zenon, <3>3, <3>5
  <2>2. ASSUME NEW t \in Slot, t # s PROVE Refs(t)' = Refs(t)
    <3>1. \A d \in Caller : cl'[d].slot = t <=> cl[d].slot = t
      BY Zenon, <1>1, <1>5, <1>6, <2>2
    <3>2. \A d \in Caller : cl'[d].slot = t /\ cl'[d].at = "send" <=> cl[d].slot = t /\ cl[d].at = "send"
      BY Zenon, <1>1, <1>5, <1>6, <2>2
    <3>3. (\E q \in Requests' : q.slot = t) <=> \E q \in Requests : q.slot = t
      BY Zenon, <1>7, <1>11, <2>2
    <3>. QED
      BY Zenon, <3>1, <3>2, <3>3 DEF Refs, One, Owns
  <2>. QED
    BY Zenon, <1>5, <2>1, <2>2 DEF IInv, CountInv
<1>16. AnswerInv'
  <2>1. ASSUME NEW d \in Caller, cl'[d].at = "read" \/ (cl'[d].at \in {"send", "wait"} /\ slot[cl'[d].slot].done)
        PROVE  slot[cl'[d].slot].answer = <<d, cl'[d].n>>
    <3>1. CASE d = c
      <4>1. cl'[d].slot = s /\ cl'[d].n = cl[c].n /\ slot[s].done
        BY Zenon, <1>5, <1>6, <2>1, <3>1
      <4>2. slot[s].answer = Call(c)
        BY Zenon, <1>1, <1>3, <4>1 DEF IInv, AnswerInv
      <4>. QED
        BY Zenon, <3>1, <4>1, <4>2 DEF Call
    <3>2. CASE d # c
      <4>1. cl'[d] = cl[d]
        BY Zenon, <1>6, <3>2
      <4>2. slot[cl[d].slot].answer = Call(d)
        BY Zenon, <2>1, <4>1 DEF IInv, AnswerInv
      <4>. QED
        BY Zenon, <4>1, <4>2 DEF Call
    <3>. QED
      BY Zenon, <3>1, <3>2
  <2>. QED
    BY Zenon, <1>5, <2>1 DEF AnswerInv, Call
<1>17. TypeOK'
  BY Zenon, <1>5, <1>6, <1>10 DEF IInv, TypeOK
<1>. QED
  BY Zenon, <1>12, <1>13, <1>14, <1>15, <1>16, <1>17 DEF IInv
\* Caller c leaves with the references it has: two until the request is handed
\* over, and one from then on.
LEMMA LeaveStep ==
  ASSUME IInv, NEW c \in Caller, NEW n \in {1, 2}, NEW y \in CallerStates,
         n = 2 => cl[c].at = "send", n = 1 => cl[c].at \in {"wait", "read"},
         slot' = Released(cl[c].slot, n), cl' = [cl EXCEPT ![c] = y], UNCHANGED <<state, closing, queue, wk>>,
         y.at \in {"idle", "direct"}, y.slot = "none"
  PROVE  IInv'
<1>1. PICK s : s = cl[c].slot
  BY Zenon
<1>2. cl[c] \in CallerStates /\ cl \in [Caller -> CallerStates] /\ slot \in [Slot -> SlotStates]
  BY Zenon DEF IInv, TypeOK
<1>3. s \in Slot /\ s # "none"
  BY Zenon, <1>1, <1>2, GetBatchedAssumption DEF IInv, OwnersInv, CallerStates
<1>4. /\ PlacesInv' /\ PoolInv' /\ Requests' = Requests /\ \A w \in Worker : WorkerOK(wk[w])'
      /\ queue' \in Seq(Request) /\ wk' \in [Worker -> WorkerStates]
      /\ state' \in {"idle", "running", "closed"} /\ closing' \in {"open", "stop", "wait", "closed"}
  BY Zenon, PlacesStill
<1>5. cl' \in [Caller -> CallerStates] /\ cl'[c] = y /\ \A d \in Caller \ {c} : cl'[d] = cl[d]
  BY Zenon, <1>2
<1>6. \A d \in Caller : cl[d].slot = s => d = c
  BY Zenon, <1>1, <1>3 DEF IInv, OwnersInv
<1>7. \A d \in Caller : cl'[d].slot # s
  BY Zenon, <1>3, <1>5, <1>6
<1>8. Refs(s) >= n /\ Refs(s)' = Refs(s) - n
  <2>1. CASE n = 2
    <3>1. \A r \in Requests : r.slot # s
      BY Zenon, <1>1, <2>1 DEF IInv, OwnersInv, Owns
    <3>2. Refs(s) = 2
      BY <1>1, <2>1, <3>1 DEF Refs, One, Owns
    <3>3. Refs(s)' = 0
      BY <1>4, <1>7, <3>1 DEF Refs, One, Owns
    <3>. QED
      BY <2>1, <3>2, <3>3
  <2>2. CASE n = 1
    <3>1. \A d \in Caller : cl[d].slot = s => cl[d].at # "send"
      BY Zenon, <1>6, <2>2
    <3>2. Refs(s) = 1 + One(\E r \in Requests : r.slot = s)
      BY <1>1, <3>1 DEF Refs, One, Owns
    <3>3. Refs(s)' = One(\E r \in Requests : r.slot = s)
      BY <1>4, <1>7 DEF Refs, One, Owns
    <3>. QED
      BY <2>2, <3>2, <3>3 DEF One
  <2>. QED
    BY Zenon, <2>1, <2>2
<1>9. ASSUME NEW t \in Slot, t # s PROVE Refs(t)' = Refs(t)
  <2>1. \A d \in Caller : cl'[d].slot = t <=> cl[d].slot = t
    BY Zenon, <1>1, <1>5, <1>9, GetBatchedAssumption
  <2>2. \A d \in Caller : cl'[d].slot = t /\ cl'[d].at = "send" <=> cl[d].slot = t /\ cl[d].at = "send"
    BY Zenon, <1>1, <1>5, <1>9, GetBatchedAssumption
  <2>. QED
    BY Zenon, <1>4, <2>1, <2>2 DEF Refs, One, Owns
<1>10. slot[s].refs >= n
  BY Zenon, <1>3, <1>8 DEF IInv, CountInv
<1>11. slot' = Released(s, n)
  BY Zenon, <1>1
<1>12. slot' \in [Slot -> SlotStates] /\ \A t \in Slot \ {s} : slot'[t] = slot[t]
  BY Zenon, <1>2, <1>3, <1>10, <1>11, Releases
<1>13. CountInv'
  BY Zenon, <1>2, <1>3, <1>8, <1>9, <1>10, <1>11, ReleasedCounts DEF IInv
<1>14. OwnersInv'
  <2>1. \A d \in Caller : cl'[d].slot # "none" <=> cl'[d].at \in {"send", "wait", "read"}
    BY Zenon, <1>5 DEF IInv, OwnersInv
  <2>2. \A d, e \in Caller : cl'[d].slot = cl'[e].slot /\ cl'[d].slot # "none" => d = e
    BY <1>5 DEF IInv, OwnersInv
  <2>3. \A r, q \in Requests : r.slot = q.slot => r = q
    BY Zenon DEF IInv, OwnersInv
  <2>4. ASSUME NEW d \in Caller, NEW r \in Requests, cl'[d].slot = r.slot
        PROVE  cl'[d].at # "send" /\ r.call = <<d, cl'[d].n>>
    <3>1. r.slot \in Slot
      BY Zenon, RequestsType
    <3>2. d # c
      BY Zenon, <1>5, <2>4, <3>1, GetBatchedAssumption
    <3>3. cl'[d] = cl[d]
      BY Zenon, <1>5, <3>2
    <3>. QED
      BY <2>4, <3>3 DEF IInv, OwnersInv, Owns, Call
  <2>. QED
    BY Zenon, <1>4, <2>1, <2>2, <2>3, <2>4 DEF OwnersInv, Owns, Call
<1>15. AnswerInv'
  <2>1. ASSUME NEW d \in Caller, cl'[d].at = "read" \/ (cl'[d].at \in {"send", "wait"} /\ slot'[cl'[d].slot].done)
        PROVE  slot'[cl'[d].slot].answer = <<d, cl'[d].n>>
    <3>1. d # c
      BY Zenon, <1>5, <2>1
    <3>2. cl'[d] = cl[d] /\ cl[d].slot # s
      BY Zenon, <1>5, <1>6, <3>1
    <3>3. cl[d].slot \in Slot \ {s}
      BY Zenon, <1>2, <2>1, <3>2 DEF IInv, OwnersInv, CallerStates
    <3>4. slot'[cl[d].slot] = slot[cl[d].slot]
      BY Zenon, <1>12, <3>3
    <3>5. slot[cl[d].slot].answer = Call(d)
      BY Zenon, <2>1, <3>2, <3>4 DEF IInv, AnswerInv
    <3>. QED
      BY Zenon, <3>2, <3>4, <3>5 DEF Call
  <2>. QED
    BY Zenon, <2>1 DEF AnswerInv, Call
<1>16. TypeOK'
  BY Zenon, <1>4, <1>5, <1>12 DEF IInv, TypeOK
<1>. QED
  BY Zenon, <1>4, <1>13, <1>14, <1>15, <1>16 DEF IInv

\* The call ends on its context, on Close or with the answer.
LEMMA LeavesStep ==
  ASSUME IInv, NEW c \in Caller,
         SendCanceled(c) \/ SendStopped(c) \/ WaitCanceled(c) \/ WaitStopped(c) \/ Read(c)
  PROVE  IInv'
<1>1. PICK y : y = cl'[c]
  BY Zenon
<1>2. cl[c] \in CallerStates /\ cl \in [Caller -> CallerStates]
  BY Zenon DEF IInv, TypeOK
<1>3. ASSUME NEW n \in {1, 2}, NEW at \in {"idle", "direct"}, Leaves(c, n, at),
             n = 2 => cl[c].at = "send", n = 1 => cl[c].at \in {"wait", "read"}
      PROVE  IInv'
  <2>1. PICK k : k = IF at = "idle" THEN "none" ELSE cl[c].key
    BY Zenon
  <2>2. k \in Key \cup {"none"}
    BY Zenon, <1>2, <2>1 DEF CallerStates
  <2>3. cl' = [cl EXCEPT ![c].at = at, ![c].slot = "none", ![c].key = k]
    BY Zenon, <1>2, <1>3, <2>1 DEF Leaves, CallerStates
  <2>4. cl' = [cl EXCEPT ![c] = y] /\ y \in CallerStates /\ y.at = at /\ y.slot = "none"
    BY Zenon, <1>1, <1>2, <2>2, <2>3 DEF CallerStates
  <2>5. slot' = Released(cl[c].slot, n) /\ UNCHANGED <<state, closing, queue, wk>>
    BY Zenon, <1>3 DEF Leaves
  <2>. QED
    BY Zenon, <1>3, <2>4, <2>5, LeaveStep
<1>4. CASE SendCanceled(c) \/ SendStopped(c)
  BY <1>3, <1>4 DEF SendCanceled, SendStopped
<1>5. CASE WaitCanceled(c) \/ WaitStopped(c)
  BY <1>3, <1>5 DEF WaitCanceled, WaitStopped
<1>6. CASE Read(c)
  <2>1. cl' = [cl EXCEPT ![c] = y] /\ y \in CallerStates /\ y.at = "idle" /\ y.slot = "none"
    BY Zenon, <1>1, <1>2, <1>6 DEF Read, CallerStates
  <2>2. slot' = Released(cl[c].slot, 1) /\ UNCHANGED <<state, closing, queue, wk>> /\ cl[c].at = "read"
    BY Zenon, <1>6 DEF Read
  <2>3. PICK n \in {1, 2} : n = 1
    BY Zenon
  <2>4. (n = 2 => cl[c].at = "send") /\ (n = 1 => cl[c].at \in {"wait", "read"}) /\ slot' = Released(cl[c].slot, n)
    BY <2>2, <2>3
  <2>. QED
    BY Zenon, <2>1, <2>2, <2>4, LeaveStep
<1>. QED
  BY Zenon, <1>4, <1>5, <1>6
\* The signal is taken out of done; the answer stays until the caller has read it.
LEMMA AnsweredStep ==
  ASSUME IInv, NEW c \in Caller, Answered(c)
  PROVE  IInv'
<1>1. PICK s, y : s = cl[c].slot /\ y = cl'[c]
  BY Zenon
<1>2. cl[c] \in CallerStates /\ cl \in [Caller -> CallerStates] /\ slot \in [Slot -> SlotStates]
  BY Zenon DEF IInv, TypeOK
<1>3. cl[c].at = "wait" /\ s \in Slot /\ s # "none" /\ slot[s].done
  BY Zenon, <1>1, <1>2, GetBatchedAssumption DEF Answered, IInv, OwnersInv, CallerStates
<1>4. UNCHANGED <<state, closing, queue, wk>>
  BY Zenon DEF Answered
<1>5. /\ PlacesInv' /\ PoolInv' /\ Requests' = Requests /\ \A w \in Worker : WorkerOK(wk[w])'
      /\ queue' \in Seq(Request) /\ wk' \in [Worker -> WorkerStates]
      /\ state' \in {"idle", "running", "closed"} /\ closing' \in {"open", "stop", "wait", "closed"}
  BY Zenon, <1>4, PlacesStill
<1>6. /\ cl' = [cl EXCEPT ![c] = y] /\ y \in CallerStates /\ y.at = "read" /\ y.slot = s /\ y.n = cl[c].n
  BY Zenon, <1>1, <1>2 DEF Answered, CallerStates
<1>7. cl' \in [Caller -> CallerStates] /\ cl'[c] = y /\ \A d \in Caller \ {c} : cl'[d] = cl[d]
  BY Zenon, <1>2, <1>6
<1>8. slot' = [slot EXCEPT ![s].done = FALSE]
  BY Zenon, <1>1 DEF Answered
<1>9. /\ slot' \in [Slot -> SlotStates]
      /\ \A t \in Slot : slot'[t].refs = slot[t].refs /\ slot'[t].answer = slot[t].answer
      /\ \A t \in Slot \ {s} : slot'[t] = slot[t]
  BY Zenon, <1>2, <1>3, <1>8 DEF SlotStates
<1>10. \A d \in Caller : /\ cl'[d].slot = cl[d].slot /\ cl'[d].n = cl[d].n
                         /\ cl'[d].at = "send" <=> cl[d].at = "send"
  BY Zenon, <1>1, <1>3, <1>6, <1>7
<1>11. OwnersInv'
  <2>1. \A d \in Caller : cl'[d].slot # "none" <=> cl'[d].at \in {"send", "wait", "read"}
    BY Zenon, <1>3, <1>6, <1>7 DEF IInv, OwnersInv
  <2>2. \A d, e \in Caller : cl'[d].slot = cl'[e].slot /\ cl'[d].slot # "none" => d = e
    BY <1>10 DEF IInv, OwnersInv
  <2>3. \A r, q \in Requests : r.slot = q.slot => r = q
    BY Zenon DEF IInv, OwnersInv
  <2>4. \A d \in Caller, r \in Requests : cl'[d].slot = r.slot => cl'[d].at # "send" /\ r.call = <<d, cl'[d].n>>
    BY <1>10 DEF IInv, OwnersInv, Owns, Call
  <2>. QED
    BY Zenon, <1>5, <2>1, <2>2, <2>3, <2>4 DEF OwnersInv, Owns, Call
<1>12. CountInv'
  <2>1. ASSUME NEW t \in Slot PROVE Refs(t)' = Refs(t)
    BY <1>5, <1>10 DEF Refs, One, Owns
  <2>2. slot[s].refs # 0
    BY <1>3 DEF IInv, CountInv, CleanSlot
  <2>3. \A t \in Slot : slot[t].refs = Refs(t) /\ (slot[t].refs = 0 => slot[t] = CleanSlot)
    BY Zenon DEF IInv, CountInv
  <2>. QED
    BY Zenon, <1>9, <2>1, <2>2, <2>3 DEF CountInv
<1>13. AnswerInv'
  <2>1. ASSUME NEW d \in Caller, cl'[d].at = "read" \/ (cl'[d].at \in {"send", "wait"} /\ slot'[cl'[d].slot].done)
        PROVE  slot'[cl'[d].slot].answer = <<d, cl'[d].n>>
    <3>1. CASE d = c
      BY <1>1, <1>3, <1>9, <1>10, <3>1 DEF IInv, AnswerInv, Call
    <3>2. CASE d # c
      <4>1. cl'[d] = cl[d] /\ cl[d].slot # s
        BY Zenon, <1>1, <1>3, <1>7, <3>2 DEF IInv, OwnersInv
      <4>2. cl[d].slot \in Slot \ {s}
        BY Zenon, <1>2, <2>1, <4>1 DEF IInv, OwnersInv, CallerStates
      <4>3. slot'[cl[d].slot] = slot[cl[d].slot]
        BY Zenon, <1>9, <4>2
      <4>. QED
        BY Zenon, <2>1, <4>1, <4>3 DEF IInv, AnswerInv, Call
    <3>. QED
      BY Zenon, <3>1, <3>2
  <2>. QED
    BY Zenon, <2>1 DEF AnswerInv, Call
<1>14. TypeOK'
  BY Zenon, <1>5, <1>7, <1>9 DEF IInv, TypeOK
<1>. QED
  BY Zenon, <1>5, <1>11, <1>12, <1>13, <1>14 DEF IInv

\* Close goes on, or a key leaves memory.
LEMMA CloseStep ==
  ASSUME IInv, CloseBegin \/ ClosePool \/ CloseWait \/ (\E k \in Key : Forget(k)) \/ UNCHANGED vars
  PROVE  IInv'
<1>1. UNCHANGED <<queue, slot, cl, wk>>
  BY Zenon DEF CloseBegin, ClosePool, CloseWait, Forget, vars
<1>2. Queued' = Queued /\ Requests' = Requests
  BY Zenon, <1>1 DEF Queued, Requests
<1>3. PlacesInv' /\ OwnersInv' /\ CountInv' /\ AnswerInv' /\ \A w \in Worker : WorkerOK(wk[w])'
  <2>1. PlacesInv' /\ \A w \in Worker : WorkerOK(wk[w])'
    BY Zenon, <1>1, <1>2 DEF IInv, PlacesInv
  <2>2. OwnersInv'
    BY Zenon, <1>1, <1>2 DEF IInv, OwnersInv, Owns, Call
  <2>3. CountInv'
    <3>1. ASSUME NEW s \in Slot PROVE Refs(s)' = Refs(s)
      BY Zenon, <1>1, <1>2 DEF Refs, One, Owns
    <3>. QED
      BY Zenon, <1>1, <3>1 DEF IInv, CountInv
  <2>4. AnswerInv'
    BY Zenon, <1>1 DEF IInv, AnswerInv, Call
  <2>. QED
    BY Zenon, <2>1, <2>2, <2>3, <2>4
<1>4. /\ state' \in {"idle", "running", "closed"} /\ closing' \in {"open", "stop", "wait", "closed"} /\ PoolInv'
  <2>1. CASE CloseBegin
    BY Zenon, <1>1, <2>1 DEF IInv, TypeOK, PoolInv, ClosedForGood, CloseBegin
  <2>2. CASE ClosePool
    BY Zenon, <1>1, <2>2 DEF IInv, TypeOK, PoolInv, ClosedForGood, ClosePool
  <2>3. CASE CloseWait
    BY Zenon, <1>1, <2>3 DEF IInv, TypeOK, PoolInv, ClosedForGood, CloseWait
  <2>4. CASE (\E k \in Key : Forget(k)) \/ UNCHANGED vars
    BY Zenon, <1>1, <2>4 DEF IInv, TypeOK, PoolInv, ClosedForGood, Forget, vars
  <2>. QED
    BY Zenon, <2>1, <2>2, <2>3, <2>4
<1>. QED
  BY Zenon, <1>1, <1>3, <1>4 DEF IInv, TypeOK

\* A cache just built, with no call made and no pool worker started, satisfies the
\* invariant.
LEMMA InitInv ==
  ASSUME Init
  PROVE  IInv
<1>1. PICK y, x : /\ y = [at |-> "idle", n |-> 0, key |-> "none", slot |-> "none"]
                  /\ x = [AtLoop EXCEPT !.at = "off"]
  BY Zenon
<1>2. /\ y \in CallerStates /\ y.at = "idle" /\ y.slot = "none"
      /\ x \in WorkerStates /\ x.at = "off" /\ x.batch = {} /\ x.todo = {}
      /\ CleanSlot \in SlotStates
  BY Zenon, <1>1 DEF CallerStates, WorkerStates, SlotStates, AtLoop, CleanSlot
<1>3. /\ cl \in [Caller -> CallerStates] /\ wk \in [Worker -> WorkerStates] /\ slot \in [Slot -> SlotStates]
      /\ \A c \in Caller : cl[c].at = "idle" /\ cl[c].slot = "none"
      /\ \A w \in Worker : wk[w] = x
      /\ \A s \in Slot : slot[s] = CleanSlot
  BY Zenon, <1>1, <1>2 DEF Init
<1>4. InHand(x) = {} /\ WorkerOK(x) /\ CleanSlot.refs = 0
  BY Zenon, <1>2 DEF InHand, WorkerOK, Cur, CleanSlot
<1>5. queue = <<>> /\ Queued = {} /\ Requests = {}
  <2>1. queue = <<>> /\ Queued = {}
    BY DEF Init, Queued
  <2>. QED
    BY Zenon, <1>3, <1>4, <2>1 DEF Requests
<1>6. PlacesInv
  BY <1>3, <1>4, <1>5 DEF PlacesInv
<1>7. OwnersInv /\ AnswerInv
  BY Zenon, <1>3, <1>5 DEF OwnersInv, AnswerInv
<1>8. CountInv
  BY <1>3, <1>4, <1>5, GetBatchedAssumption DEF CountInv, Refs, One, Owns
<1>9. TypeOK /\ PoolInv
  BY <1>2, <1>3, <1>5 DEF Init, TypeOK, PoolInv, ClosedForGood
<1>. QED
  BY Zenon, <1>3, <1>4, <1>6, <1>7, <1>8, <1>9 DEF IInv

\* Every step of a caller, of a pool worker and of Close preserves the invariant.
LEMMA NextInv ==
  ASSUME IInv, [Next]_vars
  PROVE  IInv'
<1>1. ASSUME NEW c \in Caller, CallerStep(c) \/ SendCanceled(c) \/ WaitCanceled(c) \/ \E k \in Wanted[c] : Begin(c, k)
      PROVE  IInv'
  <2>1. CASE CallerStep(c)
    BY Zenon, <2>1, StartStep, CallerQuietStep, SendStep, LeavesStep, AnsweredStep DEF CallerStep
  <2>2. CASE SendCanceled(c) \/ WaitCanceled(c)
    BY Zenon, <2>2, LeavesStep
  <2>3. CASE \E k \in Wanted[c] : Begin(c, k)
    <3>1. \E k \in Key : Begin(c, k)
      BY Zenon, <2>3, GetBatchedAssumption
    <3>. QED
      BY Zenon, <3>1, CallerQuietStep
  <2>. QED
    BY Zenon, <1>1, <2>1, <2>2, <2>3
<1>2. ASSUME NEW w \in Worker, WorkerStep(w)
      PROVE  IInv'
  <2>1. CASE Receive(w) \/ DrainMore(w)
    BY Zenon, <2>1, CollectStep DEF Receive, DrainMore
  <2>2. CASE (\E hits \in SUBSET Key : Ask(w, hits)) \/ Panics(w)
    BY Zenon, <2>2, AskStep
  <2>3. CASE \E k \in Key : Hand(w, k)
    BY Zenon, <2>3, HandStep
  <2>4. CASE \E r \in wk[w].todo : Settle(w, r)
    BY Zenon, <2>4, SettleStep
  <2>5. CASE DrainEnd(w) \/ HandEnd(w) \/ Drop(w) \/ StopWorker(w)
    BY Zenon, <2>5, DrainEndStep, HandEndStep, DropStep, StopWorkerStep
  <2>. QED
    BY Zenon, <1>2, <2>1, <2>2, <2>3, <2>4, <2>5 DEF WorkerStep
<1>. QED
  BY Zenon, <1>1, <1>2, CloseStep DEF Next
-----------------------------------------------------------------------------
(***************************************************************************)
(* What the pool promises.                                                 *)
(***************************************************************************)

\* The invariant holds in every state of the pool.
THEOREM Inductive == Spec => []IInv
<1>1. Init => IInv
  BY Zenon, InitInv
<1>2. IInv /\ [Next]_vars => IInv'
  BY Zenon, NextInv
<1>. QED
  BY <1>1, <1>2, PTL DEF Spec

\* The references of a slot, counted one by one.
LEMMA HeldByIsRefs ==
  ASSUME IInv, NEW s \in Slot
  PROVE  HeldBy(s) = Refs(s)
<1> DEFINE callers == {c \in Caller : cl[c].slot = s}
           senders == {c \in callers : cl[c].at = "send"}
           queued  == {i \in DOMAIN queue : queue[i].slot = s}
           taken   == {w \in Worker : \/ \E r \in wk[w].batch \union wk[w].todo : r.slot = s
                                      \/ wk[w].at = "drop" /\ wk[w].cur.slot = s}
<1>1. s # "none"
  BY Zenon, GetBatchedAssumption
<1>2. \A w \in Worker : w \in taken <=> \E r \in InHand(wk[w]) : r.slot = s
  BY Zenon DEF InHand, Cur
<1>3. Cardinality(callers) = One(callers # {}) /\ Cardinality(senders) = One(senders # {})
  <2>1. \A c, d \in callers : c = d
    BY Zenon, <1>1 DEF IInv, OwnersInv
  <2>2. \A c, d \in senders : c = d
    BY Zenon, <2>1
  <2>. QED
    BY Zenon, <2>1, <2>2, AtMostOne
<1>4. Cardinality(queued) = One(queued # {})
  <2>1. ASSUME NEW i \in queued, NEW j \in queued PROVE i = j
    <3>1. queue[i] \in Requests /\ queue[j] \in Requests /\ i \in DOMAIN queue /\ j \in DOMAIN queue
      BY Zenon DEF Requests, Queued
    <3>2. queue[i] = queue[j]
      BY Zenon, <3>1 DEF IInv, OwnersInv
    <3>. QED
      BY Zenon, <3>1, <3>2 DEF IInv, PlacesInv
  <2>. QED
    BY Zenon, <2>1, AtMostOne
<1>5. Cardinality(taken) = One(taken # {})
  <2>1. ASSUME NEW w \in taken, NEW v \in taken, w # v PROVE FALSE
    <3>1. PICK r \in InHand(wk[w]) : r.slot = s
      BY Zenon, <1>2
    <3>2. PICK q \in InHand(wk[v]) : q.slot = s
      BY Zenon, <1>2
    <3>3. r \in Requests /\ q \in Requests
      BY Zenon DEF Requests
    <3>4. r = q
      BY <3>1, <3>2, <3>3 DEF IInv, OwnersInv
    <3>. QED
      BY Zenon, <2>1, <3>4 DEF IInv, PlacesInv
  <2>. QED
    BY Zenon, <2>1, AtMostOne
<1>6. One(queued # {}) + One(taken # {}) = One(\E r \in Requests : r.slot = s)
  <2>1. ASSUME NEW i \in queued, NEW w \in taken PROVE FALSE
    <3>1. PICK r \in InHand(wk[w]) : r.slot = s
      BY Zenon, <1>2
    <3>2. r \in Requests /\ queue[i] \in Requests /\ queue[i] \in Queued /\ queue[i].slot = s
      BY Zenon DEF Requests, Queued
    <3>3. queue[i] = r
      BY Zenon, <3>1, <3>2 DEF IInv, OwnersInv
    <3>. QED
      BY Zenon, <3>2, <3>3 DEF IInv, PlacesInv
  <2>2. (\E r \in Requests : r.slot = s) <=> queued # {} \/ taken # {}
    <3>1. (\E r \in Queued : r.slot = s) <=> queued # {}
      BY Zenon DEF Queued
    <3>2. (\E w \in Worker : \E r \in InHand(wk[w]) : r.slot = s) <=> taken # {}
      BY Zenon, <1>2
    <3>. QED
      BY Zenon, <3>1, <3>2 DEF Requests
  <2>. QED
    BY <2>1, <2>2 DEF One
<1>7. One(callers # {}) = One(\E c \in Caller : Owns(c, s))
  BY Zenon DEF One, Owns
<1>8. One(senders # {}) = One(\E c \in Caller : Owns(c, s) /\ cl[c].at = "send")
  BY Zenon DEF One, Owns
<1>9. HeldBy(s) = Cardinality(callers) + Cardinality(senders) + Cardinality(queued) + Cardinality(taken)
  BY Zenon DEF HeldBy
<1>10. PICK a, b, q, t : /\ a = One(callers # {}) /\ b = One(senders # {})
                         /\ q = One(queued # {}) /\ t = One(taken # {})
  BY Zenon
<1>11. a \in Nat /\ b \in Nat /\ q \in Nat /\ t \in Nat
  BY Zenon, <1>10 DEF One
<1> HIDE DEF callers, senders, queued, taken
<1>12. HeldBy(s) = a + b + q + t
  BY Zenon, <1>3, <1>4, <1>5, <1>9, <1>10
<1>13. Refs(s) = a + b + (q + t)
  BY Zenon, <1>6, <1>7, <1>8, <1>10 DEF Refs
<1>. QED
  BY <1>11, <1>12, <1>13

\* release recycles a slot exactly when the last goroutine that may touch it
\* has left, and a slot in the pool is clean (acquire, settle, release).
THEOREM SlotsCountedExactly == Spec => []RefsExact
<1>1. ASSUME IInv PROVE RefsExact
  <2>1. \A s \in Slot : HeldBy(s) = Refs(s)
    BY Zenon, <1>1, HeldByIsRefs
  <2>. QED
    BY Zenon, <1>1, <2>1 DEF IInv, CountInv, RefsExact
<1>. QED
  BY <1>1, Inductive, PTL

\* A caller that takes the signal of its slot reads the answer to its own call,
\* however often the slot was recycled (GetBatched, settle, release).
THEOREM AnswersAreOnesOwn == Spec => []AnswerOwn
<1>1. IInv => AnswerOwn
  BY Zenon DEF IInv, AnswerInv, AnswerOwn
<1>. QED
  BY <1>1, Inductive, PTL

\* When Close has returned no worker runs, and no later read starts one
\* (getQueueCh, Close).
THEOREM CloseEndsThePool == Spec => []ClosedForGood
<1>1. IInv => ClosedForGood
  BY Zenon DEF IInv, PoolInv
<1>. QED
  BY <1>1, Inductive, PTL
=============================================================================
