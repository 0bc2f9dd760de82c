------------------------ MODULE WriteBackStepProofs ------------------------
(***************************************************************************)
(* The inductive invariant IInv of WriteBack, for any number of callers,   *)
(* waiters, keys and workers, any queue and batch size and any behaviour of *)
(* the adapter; lemmas about the lines of tasks and markers before the     *)
(* workers, which it is mostly about; and the steps of Wait, of Close and  *)
(* of a worker, the delivery of a run among them, which preserve it.       *)
(***************************************************************************)
EXTENDS WriteBack, TLAPS, WellFoundedInduction

Fates == {"calling", "queued", "handed", "synced", "failed", "panicked", "dropped"}

Tasks == [key : Key, kind : Kind, by : Caller]

Places == {"loop", "drain", "gone"}

Items == Nat \cup Waiter

Flushers ==
  [at : Places \cup {"flush", "collect", "deliver"}, home : Places, first : Items,
   run : Seq(Nat), next : Nat, marker : Waiter \cup {None}]

TypeOK ==
  /\ task \in Seq(Tasks) /\ fate \in Seq(Fates) /\ Len(fate) = Len(task)
  /\ l2 \in [Key -> Nat]
  /\ queue \in [Worker -> Seq(Items)]
  /\ wk \in [Worker -> Flushers]
  /\ call \in [Caller -> [at : {"idle", "check", "send", "sync"}, id : Nat]]
  /\ wait \in [Waiter -> [at : {"idle", "put", "get", "flushed", "left"}, i : Worker]]
  /\ released \in SUBSET (Waiter \X Worker)
  /\ must \in [Waiter -> SUBSET Nat]
  /\ closing \in [at : {"open", "wait", "drain", "closed"}, i : Worker]
  /\ racing \in SUBSET Nat

\* What a worker has in hand, where it is.
FlusherOK(r) ==
  /\ r.at \in Places => r = AtHome(r.at)
  /\ r.at = "flush" => r.run = <<>> /\ r.next = None /\ r.marker = None
  /\ r.at = "collect" => r.next = None /\ r.marker = None
  /\ r.at \in {"collect", "deliver"} => r.run # <<>>

\* A caller's task is its newest, and is not queued yet.
CallInv(c) ==
  /\ call[c].at = "idle" => call[c].id = None
  /\ call[c].at # "idle" =>
       /\ call[c].id \in Ids /\ fate[call[c].id] = "calling" /\ task[call[c].id].by = c
       /\ \A j \in Ids : task[j].by = c => j <= call[c].id

CallingInv == \A j \in Ids : fate[j] = "calling" => call[task[j].by].id = j

\* The tasks of queue w that wait for their delivery.
QueuedIn(w) == {id \in Queued : WorkerOf[task[id].key] = w}

\* The items of P are markers and the tasks Q, each once, and the tasks of one
\* caller and key in the order they were issued in.
Lined(P, Q) ==
  /\ \A n \in 1..Len(P) : P[n] \in Waiter \cup Q
  /\ \A id \in Q : \E n \in 1..Len(P) : P[n] = id
  /\ \A m, n \in 1..Len(P) : P[m] = P[n] => m = n
  /\ \A m, n \in 1..Len(P) : m < n /\ P[m] \in Q /\ P[n] \in Q => ~SameKey(P[n], P[m])

PendingInv(w) == Lined(Pending(w), QueuedIn(w))

\* Whatever is marked by c in P comes after all of O.
Behind(P, c, O) ==
  \A n \in 1..Len(P) : P[n] = c => \A id \in O : \E m \in 1..(n - 1) : P[m] = id

Absent(P, c) == \A n \in 1..Len(P) : P[n] # c

\* The tasks that Wait still owes to c in queue w.
Owes(c, w) == must[c] \intersect QueuedIn(w)

Unsent(c, w) == wait[c].at = "idle" \/ (wait[c].at = "put" /\ wait[c].i <= w)

\* A marker in hand is closed after the tasks it covers, and a closed marker
\* covers nothing any more.
MarkedInv(c, w) ==
  /\ wk[w].marker = c => \A id \in Owes(c, w) : \E m \in 1..Len(wk[w].run) : wk[w].run[m] = id
  /\ <<c, w>> \in released => Owes(c, w) = {}
  /\ Unsent(c, w) => <<c, w>> \notin released /\ wk[w].marker # c

\* A marker in the queue is behind the tasks it covers.
MarkerInv(c, w) ==
  /\ MarkedInv(c, w)
  /\ Behind(Pending(w), c, Owes(c, w))
  /\ Unsent(c, w) => Absent(Pending(w), c)

WaitInv(c) ==
  /\ \A id \in must[c] : id \in Ids /\ fate[id] # "calling"
  /\ wait[c].at = "get" => \A w \in Worker : w < wait[c].i => <<c, w>> \in released
  /\ wait[c].at = "flushed" => \A w \in Worker : <<c, w>> \in released

OrderInv == \A i, j \in Ids : (SameKey(i, j) /\ fate[i] = "queued") => fate[j] # "handed"

\* A worker ends only after stop, with nothing queued but by calls that race it.
HomeInv(w) ==
  /\ wk[w].home # "loop" => Stopped
  /\ wk[w].home = "gone" => QueuedIn(w) \subseteq racing

CloseInv ==
  /\ Stopped => \A c \in Caller : call[c].at = "send" => call[c].id \in racing
  /\ closing.at \in {"drain", "closed"} => \A w \in Worker : wk[w].home = "gone"

IInv ==
  /\ TypeOK /\ (\A w \in Worker : FlusherOK(wk[w]) /\ PendingInv(w) /\ HomeInv(w))
  /\ (\A c \in Caller : CallInv(c)) /\ CallingInv
  /\ (\A c \in Waiter : WaitInv(c) /\ \A w \in Worker : MarkerInv(c, w))
  /\ OrderInv /\ CloseInv

-----------------------------------------------------------------------------
(***************************************************************************)
(* Sequences.                                                              *)
(***************************************************************************)

\* A set of positions that is not empty has a greatest one: the last write of a
\* key in a run (Applied).
LEMMA Largest ==
  ASSUME NEW n \in Nat, NEW S \in SUBSET (1..n), S # {}
  PROVE  Max(S) \in S /\ \A x \in S : x <= Max(S)
<1>. DEFINE R == {ss \in Nat \X Nat : ss[1] < ss[2]}
            T == {n - x : x \in S}
<1>1. IsWellFoundedOn(R, Nat)
  BY Zenon, NatLessThanWellFounded DEF OpToRel
<1>2. \A x, y \in Nat : <<y, x>> \in R <=> y < x
  BY Zenon
<1>3. T \subseteq Nat
  OBVIOUS
<1>4. T # {}
  BY Zenon
<1>. HIDE DEF R
<1>5. \E t \in T : \A y \in T : ~(<<y, t>> \in R)
  <2>. HIDE DEF T
  <2>. QED BY Zenon, <1>1, <1>3, <1>4, WFMin
<1>6. PICK t \in T : \A y \in T : ~(<<y, t>> \in R)
  BY Zenon, <1>5
<1>7. PICK x \in S : t = n - x
  BY Zenon
<1>8. ASSUME NEW y \in S PROVE x >= y
  <2>1. n - y \in T
    BY Zenon
  <2>2. ~(<<n - y, t>> \in R)
    BY Zenon, <1>6, <2>1
  <2>a. x \in 1..n /\ y \in 1..n
    BY Zenon
  <2>3. n - y \in Nat /\ n - x \in Nat
    BY <2>a
  <2>4. ~(n - y < n - x)
    BY Zenon, <1>2, <1>7, <2>2, <2>3
  <2>. QED BY <2>4, <2>a
<1>9. \E z \in S : \A y \in S : z >= y
  BY Zenon, <1>8
<1>10. Max(S) \in S /\ \A y \in S : Max(S) >= y
  BY Zenon, <1>9 DEF Max
<1>. QED
  BY Zenon, <1>10

\* t is s without the items in R.
Shrinks(s, t, R) ==
  \E g \in [1..Len(t) -> 1..Len(s)] :
    /\ \A m, n \in 1..Len(t) : m < n => g[m] < g[n]
    /\ \A n \in 1..Len(t) : t[n] = s[g[n]] /\ t[n] \notin R
    /\ \A m \in 1..Len(s) : s[m] \in R \/ \E n \in 1..Len(t) : g[n] = m

Elements(b) == {b[i] : i \in 1..Len(b)}

\* Taking out a stretch b of a sequence without repetitions.
LEMMA ShrinkStretch ==
  ASSUME NEW a \in Seq(Items), NEW b \in Seq(Items), NEW t \in Seq(Items),
         NEW s \in Seq(Items), NEW u \in Seq(Items),
         s = (a \o b) \o t, u = a \o t,
         \A m, n \in 1..Len(s) : s[m] = s[n] => m = n
  PROVE  Shrinks(s, u, Elements(b))
<1>. DEFINE R == {b[i] : i \in 1..Len(b)}
            g == [n \in 1..Len(u) |-> IF n <= Len(a) THEN n ELSE n + Len(b)]
<1>1. Len(s) = Len(a) + Len(b) + Len(t) /\ Len(u) = Len(a) + Len(t)
  OBVIOUS
<1>2. g \in [1..Len(u) -> 1..Len(s)]
  BY <1>1
<1>3. \A m, n \in 1..Len(u) : m < n => g[m] < g[n]
  BY <1>1
<1>4. ASSUME NEW n \in 1..Len(u) PROVE u[n] = s[g[n]]
  BY <1>1
<1>5. ASSUME NEW i \in 1..Len(b) PROVE Len(a) + i \in 1..Len(s) /\ s[Len(a) + i] = b[i]
  BY <1>1
<1>6. ASSUME NEW n \in 1..Len(u) PROVE u[n] \notin R
  <2>1. SUFFICES ASSUME NEW i \in 1..Len(b), u[n] = b[i] PROVE FALSE
    BY Zenon
  <2>2. s[g[n]] = s[Len(a) + i] /\ g[n] \in 1..Len(s) /\ Len(a) + i \in 1..Len(s)
    BY Zenon, <1>2, <1>4, <1>5, <2>1
  <2>3. g[n] = Len(a) + i
    BY Zenon, <2>2
  <2>. QED
    BY <2>3, <1>1
<1>7. ASSUME NEW m \in 1..Len(s) PROVE s[m] \in R \/ \E n \in 1..Len(u) : g[n] = m
  <2>1. CASE m <= Len(a)
    <3>1. m \in 1..Len(u) /\ g[m] = m
      BY <1>1, <2>1
    <3>. QED
      BY Zenon, <3>1
  <2>2. CASE m > Len(a) /\ m <= Len(a) + Len(b)
    <3>1. m - Len(a) \in 1..Len(b) /\ Len(a) + (m - Len(a)) = m
      BY <1>1, <2>2
    <3>2. s[m] = b[m - Len(a)]
      BY Zenon, <1>5, <3>1
    <3>. QED
      BY Zenon, <3>1, <3>2
  <2>3. CASE m > Len(a) + Len(b)
    <3>1. m - Len(b) \in 1..Len(u) /\ g[m - Len(b)] = m
      BY <1>1, <2>3
    <3>. QED
      BY Zenon, <3>1
  <2>. QED
    BY <1>1, <2>1, <2>2, <2>3
<1>. HIDE DEF g, R
<1>8. /\ \A n \in 1..Len(u) : u[n] = s[g[n]] /\ u[n] \notin R
      /\ \A m \in 1..Len(s) : s[m] \in R \/ \E n \in 1..Len(u) : g[n] = m
  BY Zenon, <1>4, <1>6, <1>7
<1>9. Shrinks(s, u, R)
  BY ONLY Zenon, <1>2, <1>3, <1>8 DEF Shrinks
<1>. QED
  BY Zenon, <1>9 DEF R, Elements

\* Where an item between two sequences is.
LEMMA MiddleItem ==
  ASSUME NEW a \in Seq(Items), NEW x \in Items, NEW t \in Seq(Items), NEW s, s = (a \o <<x>>) \o t
  PROVE  Len(a) + 1 \in 1..Len(s) /\ s[Len(a) + 1] = x /\ \A m \in 1..Len(a) : s[m] = a[m]
<1>. DEFINE b == a \o <<x>>
<1>1. b \in Seq(Items) /\ Len(b) = Len(a) + 1 /\ b[Len(a) + 1] = x /\ Len(a) \in Nat
  OBVIOUS
<1>2. \A m \in 1..Len(a) : b[m] = a[m]
  OBVIOUS
<1>3. s = b \o t
  BY Zenon
<1>. HIDE DEF b
<1>4. Len(s) = Len(b) + Len(t)
  BY <1>1, <1>3
<1>a. \A m \in 1..Len(b) : s[m] = b[m]
  BY <1>1, <1>3
<1>5. Len(t) \in Nat
  OBVIOUS
<1>. QED
  BY ONLY <1>1, <1>2, <1>4, <1>5, <1>a

\* What is left of a line of tasks and markers is one, of the tasks that are left.
LEMMA ShrunkLined ==
  ASSUME NEW P, NEW O, NEW Q, NEW R, Len(P) \in Nat, Len(O) \in Nat,
         Lined(P, Q), Shrinks(P, O, R)
  PROVE  Lined(O, Q \ R)
<1>1. PICK g \in [1..Len(O) -> 1..Len(P)] :
        /\ \A m, n \in 1..Len(O) : m < n => g[m] < g[n]
        /\ \A n \in 1..Len(O) : O[n] = P[g[n]] /\ O[n] \notin R
        /\ \A m \in 1..Len(P) : P[m] \in R \/ \E n \in 1..Len(O) : g[n] = m
  BY Zenon DEF Shrinks
<1>2. ASSUME NEW n \in 1..Len(O) PROVE O[n] \in Waiter \cup (Q \ R)
  BY Zenon, <1>1 DEF Lined
<1>3. ASSUME NEW id \in Q \ R PROVE \E n \in 1..Len(O) : O[n] = id
  BY <1>1, SMTT(60) DEF Lined
<1>4. ASSUME NEW m \in 1..Len(O), NEW n \in 1..Len(O), O[m] = O[n] PROVE m = n
  <2>a. g[m] \in 1..Len(P) /\ g[n] \in 1..Len(P) /\ P[g[m]] = P[g[n]]
    BY Zenon, <1>1, <1>4
  <2>b. \A i, j \in 1..Len(P) : P[i] = P[j] => i = j
    BY Zenon DEF Lined
  <2>1. g[m] = g[n]
    BY ONLY Zenon, <2>a, <2>b
  <2>2. ~(m < n) /\ ~(n < m)
    BY <1>1, <2>1
  <2>. QED
    BY <2>2
<1>5. ASSUME NEW m \in 1..Len(O), NEW n \in 1..Len(O), m < n, O[m] \in Q \ R, O[n] \in Q \ R
      PROVE  ~SameKey(O[n], O[m])
  <2>1. g[m] \in 1..Len(P) /\ g[n] \in 1..Len(P) /\ g[m] < g[n]
    BY Zenon, <1>1, <1>5
  <2>2. P[g[m]] = O[m] /\ P[g[n]] = O[n]
    BY Zenon, <1>1
  <2>3. ~SameKey(P[g[n]], P[g[m]])
    BY Zenon, <1>5, <2>1, <2>2 DEF Lined
  <2>. QED
    BY Zenon, <2>2, <2>3
<1>. QED
  BY Zenon, <1>2, <1>3, <1>4, <1>5 DEF Lined

\* A marker stays behind what is left of the tasks it covers.
LEMMA ShrunkBehind ==
  ASSUME NEW P, NEW O, NEW c, NEW D, NEW R, Len(P) \in Nat, Len(O) \in Nat,
         Behind(P, c, D), Shrinks(P, O, R)
  PROVE  Behind(O, c, D \ R)
<1>1. PICK g \in [1..Len(O) -> 1..Len(P)] :
        /\ \A m, n \in 1..Len(O) : m < n => g[m] < g[n]
        /\ \A n \in 1..Len(O) : O[n] = P[g[n]] /\ O[n] \notin R
        /\ \A m \in 1..Len(P) : P[m] \in R \/ \E n \in 1..Len(O) : g[n] = m
  BY Zenon DEF Shrinks
<1>2. SUFFICES ASSUME NEW n \in 1..Len(O), O[n] = c, NEW id \in D \ R
               PROVE  \E m \in 1..(n - 1) : O[m] = id
  BY Zenon DEF Behind
<1>3. PICK p \in 1..(g[n] - 1) : P[p] = id
  BY <1>1, <1>2 DEF Behind
<1>4. PICK m \in 1..Len(O) : g[m] = p
  BY <1>1, <1>3
<1>5. ~(n < m) /\ n # m
  BY <1>1, <1>3, <1>4, SMTT(60)
<1>6. m \in 1..(n - 1) /\ O[m] = id
  BY <1>1, <1>3, <1>4, <1>5
<1>. QED
  BY Zenon, <1>6

\* A marker that is not in the line does not get there as others leave.
LEMMA ShrunkAbsent ==
  ASSUME NEW P, NEW O, NEW c, NEW R, Absent(P, c), Shrinks(P, O, R)
  PROVE  Absent(O, c)
BY Zenon DEF Shrinks, Absent

\* Nothing is taken out.
LEMMA ShrinkNothing ==
  ASSUME NEW P, Len(P) \in Nat
  PROVE  Shrinks(P, P, {})
<1>. DEFINE g == [n \in 1..Len(P) |-> n]
<1>1. /\ g \in [1..Len(P) -> 1..Len(P)]
      /\ \A m, n \in 1..Len(P) : m < n => g[m] < g[n]
      /\ \A n \in 1..Len(P) : P[n] = P[g[n]] /\ P[n] \notin {}
      /\ \A m \in 1..Len(P) : P[m] \in {} \/ \E n \in 1..Len(P) : g[n] = m
  BY Zenon
<1>. HIDE DEF g
<1>. QED
  BY Zenon, <1>1 DEF Shrinks

\* A marker at the end of a line (WaitPut).
LEMMA AppendMarker ==
  ASSUME NEW P \in Seq(Items), NEW Q, NEW x \in Items, x \in Waiter, x \notin Q, Lined(P, Q), Absent(P, x)
  PROVE  Lined(Append(P, x), Q)
<1>. DEFINE O == Append(P, x)
<1>1. Len(O) = Len(P) + 1 /\ O[Len(P) + 1] = x /\ \A n \in 1..Len(P) : O[n] = P[n]
  OBVIOUS
<1>2. \A n \in 1..Len(O) : n \in 1..Len(P) \/ n = Len(P) + 1
  BY <1>1
<1>3. Len(P) \in Nat
  OBVIOUS
<1>. HIDE DEF O
<1>4. ASSUME NEW n \in 1..Len(O) PROVE O[n] \in Waiter \cup Q
  BY Zenon, <1>1, <1>2 DEF Lined
<1>5. ASSUME NEW id \in Q PROVE \E n \in 1..Len(O) : O[n] = id
  <2>1. PICK n \in 1..Len(P) : P[n] = id
    BY Zenon DEF Lined
  <2>2. n \in 1..Len(O) /\ O[n] = id
    BY <1>1, <1>3, <2>1
  <2>. QED
    BY Zenon, <2>2
<1>6. ASSUME NEW m \in 1..Len(O), NEW n \in 1..Len(O), O[m] = O[n] PROVE m = n
  <2>1. \A i, j \in 1..Len(P) : P[i] = P[j] => i = j
    BY Zenon DEF Lined
  <2>2. \A i \in 1..Len(P) : P[i] # x
    BY Zenon DEF Absent
  <2>. QED
    BY Zenon, <1>1, <1>2, <1>6, <2>1, <2>2
<1>7. ASSUME NEW m \in 1..Len(O), NEW n \in 1..Len(O), m < n, O[m] \in Q, O[n] \in Q
      PROVE  ~SameKey(O[n], O[m])
  <2>1. m \in 1..Len(P) /\ n \in 1..Len(P)
    BY Zenon, <1>1, <1>2, <1>7
  <2>2. O[m] = P[m] /\ O[n] = P[n]
    BY Zenon, <1>1, <2>1
  <2>3. ~SameKey(P[n], P[m])
    BY Zenon, <1>7, <2>1, <2>2 DEF Lined
  <2>. QED
    BY Zenon, <2>2, <2>3
<1>8. Lined(O, Q)
  BY Zenon, <1>4, <1>5, <1>6, <1>7 DEF Lined
<1>. QED
  BY Zenon, <1>8 DEF O

\* A task at the end of a line (Send): it is newer than those of its caller.
LEMMA AppendTask ==
  ASSUME NEW P \in Seq(Items), NEW Q, NEW x \in Items, x \notin Waiter, x \notin Q, Lined(P, Q),
         \A j \in Q : ~SameKey(x, j)
  PROVE  Lined(Append(P, x), Q \cup {x})
<1>. DEFINE O == Append(P, x)
<1>1. Len(O) = Len(P) + 1 /\ O[Len(P) + 1] = x /\ \A n \in 1..Len(P) : O[n] = P[n]
  OBVIOUS
<1>2. \A n \in 1..Len(O) : n \in 1..Len(P) \/ n = Len(P) + 1
  BY <1>1
<1>3. Len(P) \in Nat
  OBVIOUS
<1>. HIDE DEF O
<1>a. \A i \in 1..Len(P) : P[i] # x /\ P[i] \in Waiter \cup Q
  BY ZenonT(60) DEF Lined
<1>4. ASSUME NEW n \in 1..Len(O) PROVE O[n] \in Waiter \cup (Q \cup {x})
  BY Zenon, <1>1, <1>2, <1>a
<1>5. ASSUME NEW id \in Q \cup {x} PROVE \E n \in 1..Len(O) : O[n] = id
  <2>1. CASE id = x
    <3>1. Len(P) + 1 \in 1..Len(O) /\ O[Len(P) + 1] = id
      BY <1>1, <1>3, <2>1
    <3>. QED
      BY Zenon, <3>1
  <2>2. CASE id \in Q
    <3>1. PICK n \in 1..Len(P) : P[n] = id
      BY Zenon, <2>2 DEF Lined
    <3>2. n \in 1..Len(O) /\ O[n] = id
      BY <1>1, <1>3, <3>1
    <3>. QED
      BY Zenon, <3>2
  <2>. QED
    BY Zenon, <2>1, <2>2
<1>6. ASSUME NEW m \in 1..Len(O), NEW n \in 1..Len(O), O[m] = O[n] PROVE m = n
  <2>1. \A i, j \in 1..Len(P) : P[i] = P[j] => i = j
    BY Zenon DEF Lined
  <2>. QED
    BY Zenon, <1>1, <1>2, <1>6, <1>a, <2>1
<1>7. ASSUME NEW m \in 1..Len(O), NEW n \in 1..Len(O), m < n, O[m] \in Q \cup {x}, O[n] \in Q \cup {x}
      PROVE  ~SameKey(O[n], O[m])
  <2>1. m \in 1..Len(P) /\ O[m] = P[m]
    BY <1>1, <1>2, <1>3, <1>7
  <2>2. P[m] \in Q
    BY Zenon, <1>7, <1>a, <2>1
  <2>3. CASE n = Len(P) + 1
    <3>1. O[n] = x
      BY Zenon, <1>1, <2>3
    <3>. QED
      BY Zenon, <2>1, <2>2, <3>1
  <2>4. CASE n \in 1..Len(P)
    <3>1. O[n] = P[n] /\ P[n] \in Q
      BY Zenon, <1>1, <1>7, <1>a, <2>4
    <3>2. ~SameKey(P[n], P[m])
      BY Zenon, <1>7, <2>1, <2>2, <2>4, <3>1 DEF Lined
    <3>. QED
      BY Zenon, <2>1, <3>1, <3>2
  <2>. QED
    BY Zenon, <1>2, <2>3, <2>4
<1>8. Lined(O, Q \cup {x})
  BY Zenon, <1>4, <1>5, <1>6, <1>7 DEF Lined
<1>. QED
  BY Zenon, <1>8 DEF O

\* Something else at the end of the line leaves a marker where it is.
LEMMA AppendBehind ==
  ASSUME NEW P \in Seq(Items), NEW x \in Items, NEW c, NEW D, x # c, Behind(P, c, D)
  PROVE  Behind(Append(P, x), c, D)
<1>. DEFINE O == Append(P, x)
<1>1. /\ Len(O) = Len(P) + 1 /\ O[Len(P) + 1] = x /\ Len(P) \in Nat
      /\ \A n \in 1..Len(P) : O[n] = P[n]
  OBVIOUS
<1>. HIDE DEF O
<1>2. ASSUME NEW n \in 1..Len(O), O[n] = c, NEW id \in D PROVE \E m \in 1..(n - 1) : O[m] = id
  <2>1. n \in 1..Len(P) /\ P[n] = c
    BY <1>1, <1>2
  <2>2. PICK m \in 1..(n - 1) : P[m] = id
    BY Zenon, <2>1 DEF Behind
  <2>3. O[m] = id
    BY <1>1, <2>1, <2>2
  <2>. QED
    BY Zenon, <2>3
<1>3. Behind(O, c, D)
  BY Zenon, <1>2 DEF Behind
<1>. QED
  BY Zenon, <1>3 DEF O

\* A new marker is behind all that is in the line (WaitPut).
LEMMA AppendOwn ==
  ASSUME NEW P \in Seq(Items), NEW c \in Items, NEW D, Absent(P, c),
         \A id \in D : \E n \in 1..Len(P) : P[n] = id
  PROVE  Behind(Append(P, c), c, D)
<1>. DEFINE O == Append(P, c)
<1>1. /\ Len(O) = Len(P) + 1 /\ O[Len(P) + 1] = c /\ Len(P) \in Nat
      /\ \A n \in 1..Len(P) : O[n] = P[n]
  OBVIOUS
<1>. HIDE DEF O
<1>2. ASSUME NEW n \in 1..Len(O), O[n] = c, NEW id \in D PROVE \E m \in 1..(n - 1) : O[m] = id
  <2>1. \A i \in 1..Len(P) : P[i] # c
    BY Zenon DEF Absent
  <2>2. n = Len(P) + 1
    BY <1>1, <1>2, <2>1
  <2>3. PICK m \in 1..Len(P) : P[m] = id
    BY Zenon
  <2>4. m \in 1..(n - 1) /\ O[m] = id
    BY <1>1, <2>2, <2>3
  <2>. QED
    BY Zenon, <2>4
<1>3. Behind(O, c, D)
  BY Zenon, <1>2 DEF Behind
<1>. QED
  BY Zenon, <1>3 DEF O

\* Nor does it as something else is put at the end.
LEMMA AppendAbsent ==
  ASSUME NEW P \in Seq(Items), NEW x \in Items, NEW c, x # c, Absent(P, c)
  PROVE  Absent(Append(P, x), c)
BY DEF Absent

-----------------------------------------------------------------------------
(***************************************************************************)
(* What a worker has in hand.                                              *)
(***************************************************************************)

\* What a worker has in hand: nothing in its loop, a task or marker in flushWrite,
\* a run and perhaps the task behind it in flushRun and deliverRun.
LEMMA InHandIs ==
  ASSUME NEW r
  PROVE  /\ r.at \in Places => InHand(r) = <<>>
         /\ r.at = "flush" => InHand(r) = <<r.first>>
         /\ r.at \in {"collect", "deliver"} /\ r.next = None => InHand(r) = r.run \o <<>>
         /\ r.at \in {"collect", "deliver"} /\ r.next # None => InHand(r) = r.run \o <<r.next>>
BY Zenon DEF InHand, Places

\* A run of tasks is part of a line.
LEMMA RunIsItems ==
  ASSUME NEW s \in Seq(Nat)
  PROVE  s \in Seq(Items)
BY DEF Items

\* What a worker has in hand consists of tasks and markers.
LEMMA InHandType ==
  ASSUME NEW r \in Flushers
  PROVE  InHand(r) \in Seq(Items)
<1>1. CASE r.at \in Places
  <2>1. InHand(r) = <<>>
    BY Zenon, <1>1, InHandIs
  <2>. QED
    BY <2>1
<1>2. CASE r.at = "flush"
  <2>1. InHand(r) = <<r.first>>
    BY Zenon, <1>2, InHandIs
  <2>2. r.first \in Items
    BY Zenon DEF Flushers
  <2>. QED
    BY <2>1, <2>2
<1>3. CASE r.at \in {"collect", "deliver"}
  <2>1. r.run \in Seq(Items)
    <3>1. r.run \in Seq(Nat)
      BY Zenon DEF Flushers
    <3>. QED
      BY Zenon, <3>1, RunIsItems
  <2>2. r.next \in Items
    BY Zenon DEF Flushers, Items
  <2>3. CASE r.next = None
    <3>1. InHand(r) = r.run \o <<>>
      BY Zenon, <1>3, <2>3, InHandIs
    <3>. QED
      BY <2>1, <3>1
  <2>4. CASE r.next # None
    <3>1. InHand(r) = r.run \o <<r.next>>
      BY Zenon, <1>3, <2>4, InHandIs
    <3>. QED
      BY <2>1, <2>2, <3>1
  <2>. QED
    BY Zenon, <2>3, <2>4
<1>. QED
  BY Zenon, <1>1, <1>2, <1>3 DEF Flushers

\* So does a line, which is that and the queue behind it.
LEMMA PendingType ==
  ASSUME NEW r \in Flushers, NEW q \in Seq(Items)
  PROVE  InHand(r) \o q \in Seq(Items) /\ Len(InHand(r) \o q) \in Nat
BY InHandType

\* The line of worker w in a state of the model ...
LEMMA PendingIsSeq ==
  ASSUME TypeOK, NEW w \in Worker
  PROVE  Pending(w) \in Seq(Items) /\ Len(Pending(w)) \in Nat
<1>1. wk[w] \in Flushers /\ queue[w] \in Seq(Items)
  BY Zenon DEF TypeOK
<1>. QED
  BY Zenon, <1>1, PendingType DEF Pending

\* ... and in the next one.
LEMMA PendingIsSeqNext ==
  ASSUME TypeOK', NEW w \in Worker
  PROVE  Pending(w)' \in Seq(Items) /\ Len(Pending(w)') \in Nat
<1>1. wk'[w] \in Flushers /\ queue'[w] \in Seq(Items)
  BY Zenon DEF TypeOK
<1>. QED
  BY Zenon, <1>1, PendingType DEF Pending

-----------------------------------------------------------------------------
(***************************************************************************)
(* What a step does to the lines of tasks.                                 *)
(***************************************************************************)

Unmoved(w) == Pending(w)' = Pending(w) /\ QueuedIn(w)' = QueuedIn(w)

\* Worker w takes R out of its line.
Serves(w, R) ==
  /\ Shrinks(Pending(w), Pending(w)', R) /\ QueuedIn(w)' = QueuedIn(w) \ R
  /\ \A v \in Worker \ {w} : Unmoved(v)

\* The queued tasks change only with the tasks and their fates.
LEMMA QueuedSame ==
  ASSUME task' = task, fate' = fate
  PROVE  Ids' = Ids /\ Queued' = Queued /\ \A w : QueuedIn(w)' = QueuedIn(w)
BY Zenon DEF QueuedIn, Queued, Ids

\* The line of a worker changes only with what it does and its queue.
LEMMA PendingSame ==
  ASSUME NEW w, wk'[w] = wk[w], queue'[w] = queue[w]
  PROVE  Pending(w)' = Pending(w)
BY Zenon DEF Pending

\* Which tasks have one caller and key changes only with new tasks.
LEMMA SameKeySame ==
  ASSUME task' = task
  PROVE  \A i, j : SameKey(i, j)' <=> SameKey(i, j)
BY Zenon DEF SameKey

\* A line under the tasks of the next state.
LEMMA LinedNext ==
  ASSUME NEW w, Lined(Pending(w)', QueuedIn(w)'),
         \A i, j \in QueuedIn(w)' : SameKey(i, j)' <=> SameKey(i, j)
  PROVE  PendingInv(w)'
<1>. DEFINE P == Pending(w)'
            Q == QueuedIn(w)'
            K(i, j) == i < j /\ task'[i].by = task'[j].by /\ task'[i].key = task'[j].key
<1>1. /\ \A n \in 1..Len(P) : P[n] \in Waiter \cup Q
      /\ \A id \in Q : \E n \in 1..Len(P) : P[n] = id
      /\ \A m, n \in 1..Len(P) : P[m] = P[n] => m = n
  BY Zenon DEF Lined
<1>2. \A m, n \in 1..Len(P) : m < n /\ P[m] \in Q /\ P[n] \in Q => ~K(P[n], P[m])
  BY ZenonT(60) DEF Lined, SameKey
<1>. QED
  BY Zenon, <1>1, <1>2 DEF PendingInv, Lined, SameKey

\* The lines stay in order when one worker takes something out of its own.
LEMMA LinesServed ==
  ASSUME TypeOK, TypeOK', task' = task, NEW w \in Worker, NEW R, Serves(w, R),
         NEW v \in Worker, PendingInv(v)
  PROVE  PendingInv(v)'
<1>1. \A i, j \in QueuedIn(v)' : SameKey(i, j)' <=> SameKey(i, j)
  BY Zenon, SameKeySame
<1>2. Lined(Pending(v)', QueuedIn(v)')
  <2>1. CASE v = w
    <3>1. Len(Pending(w)) \in Nat /\ Len(Pending(w)') \in Nat
      BY Zenon, PendingIsSeq, PendingIsSeqNext
    <3>2. Lined(Pending(w), QueuedIn(w)) /\ Shrinks(Pending(w), Pending(w)', R)
      BY Zenon, <2>1 DEF PendingInv, Serves
    <3>3. Lined(Pending(w)', QueuedIn(w) \ R)
      BY ONLY Zenon, <3>1, <3>2, ShrunkLined
    <3>. QED
      BY Zenon, <2>1, <3>3 DEF Serves
  <2>2. CASE v # w
    BY Zenon, <2>2 DEF Serves, Unmoved, PendingInv
  <2>. QED
    BY Zenon, <2>1, <2>2
<1>. QED
  BY Zenon, <1>1, <1>2, LinedNext

\* The markers in them stay behind what they cover.
LEMMA MarkersServed ==
  ASSUME TypeOK, TypeOK', must' = must, wait' = wait, NEW w \in Worker, NEW R, Serves(w, R),
         NEW v \in Worker, NEW c \in Waiter, MarkerInv(c, v)
  PROVE  Behind(Pending(v), c, Owes(c, v))' /\ (Unsent(c, v) => Absent(Pending(v), c))'
<1>1. Unsent(c, v)' <=> Unsent(c, v)
  BY Zenon DEF Unsent
<1>2. CASE v = w
  <2>1. Len(Pending(w)) \in Nat /\ Len(Pending(w)') \in Nat
    BY Zenon, PendingIsSeq, PendingIsSeqNext
  <2>2. Behind(Pending(w), c, Owes(c, w)) /\ Shrinks(Pending(w), Pending(w)', R)
    BY Zenon, <1>2 DEF MarkerInv, Serves
  <2>3. Behind(Pending(w)', c, Owes(c, w) \ R)
    BY ONLY Zenon, <2>1, <2>2, ShrunkBehind
  <2>4. Owes(c, w)' = Owes(c, w) \ R
    BY Zenon DEF Owes, Serves
  <2>5. Unsent(c, w) => Absent(Pending(w)', c)
    BY Zenon, <1>2, <2>2, ShrunkAbsent DEF MarkerInv
  <2>. QED
    BY <1>1, <1>2, <2>3, <2>4, <2>5, ZenonT(60) DEF Behind, Absent
<1>3. CASE v # w
  <2>1. Owes(c, v)' = Owes(c, v) /\ Pending(v)' = Pending(v)
    BY Zenon, <1>3 DEF Owes, Serves, Unmoved
  <2>. QED
    BY Zenon, <1>1, <2>1 DEF MarkerInv, Behind, Absent
<1>. QED
  BY Zenon, <1>2, <1>3

\* A waiter stands for its marker, which is no task and not the absent marker.
LEMMA MarkersAreNoTasks ==
  ASSUME NEW c \in Waiter
  PROVE  c \notin Nat /\ c # None
BY Zenon, WriteBackAssumption DEF None

(***************************************************************************)
(* The steps of Wait and Close.                                            *)
(***************************************************************************)

\* Nothing that concerns the marker of c in queue w has changed, except that c
\* may have gone on.
LEMMA MarkerStill ==
  ASSUME NEW c \in Waiter, NEW w \in Worker, Unmoved(w), wk'[w] = wk[w],
         released' = released, must'[c] = must[c], Unsent(c, w)' => Unsent(c, w), MarkerInv(c, w)
  PROVE  MarkerInv(c, w)'
<1>1. Owes(c, w)' = Owes(c, w) /\ Pending(w)' = Pending(w)
  BY Zenon DEF Owes, Unmoved
<1>2. MarkedInv(c, w)'
  <2>1. MarkedInv(c, w)
    BY Zenon DEF MarkerInv
  <2>. QED
    BY Zenon, <1>1, <2>1 DEF MarkedInv
<1>3. Behind(Pending(w), c, Owes(c, w)) /\ (Unsent(c, w) => Absent(Pending(w), c))
  BY Zenon DEF MarkerInv
<1>4. Behind(Pending(w)', c, Owes(c, w)')
  BY Zenon, <1>1, <1>3
<1>5. Unsent(c, w)' => Absent(Pending(w)', c)
  BY Zenon, <1>1, <1>3
<1>. QED
  BY Zenon, <1>2, <1>4, <1>5 DEF MarkerInv, Behind, Absent

\* A step that touches no queue, no worker and no task: of Wait, of Close, or of
\* a call before its write.
LEMMA Still ==
  ASSUME IInv, UNCHANGED <<task, fate, l2, queue, wk, released>>
  PROVE  /\ Ids' = Ids /\ Queued' = Queued /\ OrderInv'
         /\ \A w \in Worker : Unmoved(w) /\ FlusherOK(wk[w])' /\ PendingInv(w)'
         /\ UNCHANGED <<wait, must>> =>
              \A c \in Waiter : WaitInv(c)' /\ \A w \in Worker : MarkerInv(c, w)'
         /\ UNCHANGED call => (\A c \in Caller : CallInv(c)') /\ CallingInv'
         /\ UNCHANGED <<closing, racing>> => \A w \in Worker : HomeInv(w)'
<1>1. Ids' = Ids /\ Queued' = Queued /\ \A w : QueuedIn(w)' = QueuedIn(w)
  BY Zenon, QueuedSame
<1>2. ASSUME NEW w \in Worker PROVE Unmoved(w) /\ FlusherOK(wk[w])' /\ PendingInv(w)'
  <2>1. Unmoved(w)
    BY Zenon, <1>1, PendingSame DEF Unmoved
  <2>2. PendingInv(w) /\ FlusherOK(wk[w])
    BY Zenon DEF IInv
  <2>3. Lined(Pending(w)', QueuedIn(w)')
    BY Zenon, <2>1, <2>2 DEF PendingInv, Unmoved
  <2>4. PendingInv(w)'
    BY Zenon, <2>3, LinedNext, SameKeySame
  <2>. QED
    BY Zenon, <2>1, <2>2, <2>4
<1>4. OrderInv'
  BY <1>1, ZenonT(60) DEF IInv, OrderInv, SameKey
<1>5. ASSUME UNCHANGED <<wait, must>>, NEW c \in Waiter
      PROVE  WaitInv(c)' /\ \A w \in Worker : MarkerInv(c, w)'
  <2>1. WaitInv(c) /\ \A w \in Worker : MarkerInv(c, w)
    BY Zenon DEF IInv
  <2>2. WaitInv(c)'
    BY Zenon, <1>1, <1>5, <2>1 DEF WaitInv
  <2>3. ASSUME NEW w \in Worker PROVE MarkerInv(c, w)'
    <3>1. Unsent(c, w)' => Unsent(c, w)
      BY Zenon, <1>5 DEF Unsent
    <3>2. must'[c] = must[c] /\ wk'[w] = wk[w] /\ released' = released
      BY Zenon, <1>5
    <3>. QED
      BY Zenon, <1>2, <2>1, <3>1, <3>2, MarkerStill
  <2>. QED
    BY Zenon, <2>2, <2>3
<1>6. ASSUME UNCHANGED call PROVE (\A c \in Caller : CallInv(c)') /\ CallingInv'
  <2>1. ASSUME NEW c \in Caller PROVE CallInv(c)'
    <3>1. CallInv(c)
      BY Zenon DEF IInv
    <3>. QED
      BY Zenon, <1>1, <1>6, <3>1 DEF CallInv
  <2>2. CallingInv'
    BY Zenon, <1>1, <1>6 DEF IInv, CallingInv
  <2>. QED
    BY Zenon, <2>1, <2>2
<1>7. ASSUME UNCHANGED <<closing, racing>>, NEW w \in Worker PROVE HomeInv(w)'
  <2>1. HomeInv(w)
    BY Zenon DEF IInv
  <2>. QED
    BY Zenon, <1>1, <1>7, <2>1 DEF HomeInv, Stopped
<1>. QED
  BY Zenon, <1>1, <1>2, <1>4, <1>5, <1>6, <1>7

\* Wait begins: what it has to cover is what is queued, and it has no marker yet.
LEMMA WaitBeginStep ==
  ASSUME IInv, NEW c \in Waiter, WaitBegin(c)
  PROVE  IInv'
<1>1. TypeOK /\ UNCHANGED <<task, fate, l2, queue, wk, call, released, closing, racing>>
  BY Zenon DEF IInv, WaitBegin
<1>2. /\ wait' = [wait EXCEPT ![c].at = "put"] /\ wait[c].at = "idle"
      /\ must' = [must EXCEPT ![c] = Queued]
      /\ \A d \in Waiter \ {c} : wait'[d] = wait[d] /\ must'[d] = must[d]
      /\ wait'[c].at = "put" /\ must'[c] = Queued
  BY Zenon, <1>1 DEF TypeOK, WaitBegin
<1>3. TypeOK'
  <2>1. Queued \subseteq Nat
    BY DEF Queued, Ids
  <2>2. wait' \in [Waiter -> [at : {"idle", "put", "get", "flushed", "left"}, i : Worker]]
    BY <1>1, <1>2, ZenonT(60) DEF TypeOK
  <2>3. must' \in [Waiter -> SUBSET Nat]
    BY Zenon, <1>1, <1>2, <2>1 DEF TypeOK
  <2>. QED
    BY Zenon, <1>1, <2>2, <2>3 DEF TypeOK
<1>4. /\ Ids' = Ids /\ Queued' = Queued /\ OrderInv'
      /\ \A w \in Worker : Unmoved(w) /\ FlusherOK(wk[w])' /\ PendingInv(w)' /\ HomeInv(w)'
      /\ (\A d \in Caller : CallInv(d)') /\ CallingInv'
  BY Zenon, <1>1, Still
<1>5. ASSUME NEW d \in Waiter PROVE WaitInv(d)'
  <2>1. WaitInv(d)
    BY Zenon DEF IInv
  <2>2. CASE d = c
    BY Zenon, <1>1, <1>2, <1>4, <2>2 DEF WaitInv, Queued
  <2>3. CASE d # c
    BY Zenon, <1>1, <1>2, <1>4, <2>1, <2>3 DEF WaitInv
  <2>. QED
    BY Zenon, <2>2, <2>3
<1>6. ASSUME NEW d \in Waiter, NEW w \in Worker PROVE MarkerInv(d, w)'
  <2>1. MarkerInv(d, w)
    BY Zenon DEF IInv
  <2>2. CASE d = c
    <3>1. Unsent(c, w)
      BY Zenon, <1>2 DEF Unsent
    <3>2. <<c, w>> \notin released' /\ wk'[w].marker # c
      BY Zenon, <1>1, <2>1, <2>2, <3>1 DEF MarkerInv, MarkedInv
    <3>3. MarkedInv(c, w)'
      BY Zenon, <3>2 DEF MarkedInv
    <3>4. Absent(Pending(w)', c)
      BY Zenon, <1>4, <2>1, <2>2, <3>1 DEF MarkerInv, Unmoved
    <3>5. Behind(Pending(w), c, Owes(c, w))' /\ (Unsent(c, w) => Absent(Pending(w), c))'
      BY Zenon, <3>4 DEF Absent, Behind
    <3>. QED
      BY Zenon, <2>2, <3>3, <3>5 DEF MarkerInv
  <2>3. CASE d # c
    <3>1. Unsent(d, w)' => Unsent(d, w)
      BY Zenon, <1>2, <2>3 DEF Unsent
    <3>2. must'[d] = must[d] /\ wk'[w] = wk[w] /\ released' = released
      BY Zenon, <1>1, <1>2, <2>3
    <3>. QED
      BY Zenon, <1>4, <2>1, <3>1, <3>2, MarkerStill
  <2>. QED
    BY Zenon, <2>2, <2>3
<1>7. CloseInv'
  BY Zenon, <1>1 DEF IInv, CloseInv, Stopped
<1>. QED
  BY Zenon, <1>3, <1>4, <1>5, <1>6, <1>7 DEF IInv

\* WaitGet and WaitStopped change only where the waiter is.
LEMMA WaitMoves ==
  ASSUME IInv, NEW c \in Waiter,
         UNCHANGED <<task, fate, l2, queue, wk, call, released, must, closing, racing>>,
         NEW to \in [at : {"get", "flushed", "left"}, i : Worker], wait' = [wait EXCEPT ![c] = to],
         to.at = "get" => \A w \in Worker : w < to.i => <<c, w>> \in released,
         to.at = "flushed" => \A w \in Worker : <<c, w>> \in released
  PROVE  IInv'
<1>1. TypeOK /\ wait'[c] = to /\ \A d \in Waiter \ {c} : wait'[d] = wait[d]
  BY Zenon DEF IInv, TypeOK
<1>2. TypeOK'
  <2>1. to \in [at : {"idle", "put", "get", "flushed", "left"}, i : Worker]
    BY Zenon
  <2>2. wait' \in [Waiter -> [at : {"idle", "put", "get", "flushed", "left"}, i : Worker]]
    BY Zenon, <1>1, <2>1 DEF TypeOK
  <2>. QED
    BY Zenon, <1>1, <2>2 DEF TypeOK
<1>3. /\ Ids' = Ids /\ Queued' = Queued /\ OrderInv'
      /\ \A w \in Worker : Unmoved(w) /\ FlusherOK(wk[w])' /\ PendingInv(w)' /\ HomeInv(w)'
      /\ (\A d \in Caller : CallInv(d)') /\ CallingInv'
  BY Zenon, Still
<1>4. ASSUME NEW d \in Waiter PROVE WaitInv(d)'
  <2>1. WaitInv(d)
    BY Zenon DEF IInv
  <2>2. CASE d = c
    BY Zenon, <1>1, <1>3, <2>1, <2>2 DEF WaitInv
  <2>3. CASE d # c
    BY Zenon, <1>1, <1>3, <2>1, <2>3 DEF WaitInv
  <2>. QED
    BY Zenon, <2>2, <2>3
<1>5. ASSUME NEW d \in Waiter, NEW w \in Worker PROVE MarkerInv(d, w)'
  <2>1. MarkerInv(d, w)
    BY Zenon DEF IInv
  <2>2. Unsent(d, w)' => Unsent(d, w)
    <3>1. CASE d = c
      BY Zenon, <1>1, <3>1 DEF Unsent
    <3>2. CASE d # c
      BY Zenon, <1>1, <3>2 DEF Unsent
    <3>. QED
      BY Zenon, <3>1, <3>2
  <2>3. must'[d] = must[d] /\ wk'[w] = wk[w] /\ released' = released
    BY Zenon
  <2>. QED
    BY Zenon, <1>3, <2>1, <2>2, <2>3, MarkerStill
<1>6. CloseInv'
  BY Zenon DEF IInv, CloseInv, Stopped
<1>. QED
  BY Zenon, <1>2, <1>3, <1>4, <1>5, <1>6 DEF IInv

\* The waiter goes to its next marker, or is done with all of them.
LEMMA WaitGetStep ==
  ASSUME IInv, NEW c \in Waiter, WaitGet(c)
  PROVE  IInv'
<1>. DEFINE w == wait[c].i
            to == IF w < NWorkers THEN [at |-> "get", i |-> w + 1] ELSE [at |-> "flushed", i |-> 1]
<1>1. /\ UNCHANGED <<task, fate, l2, queue, wk, call, released, must, closing, racing>>
      /\ wait' = [wait EXCEPT ![c] = to] /\ wait[c].at = "get" /\ <<c, w>> \in released
  BY Zenon DEF WaitGet
<1>2. w \in 1..NWorkers /\ NWorkers \in Nat \ {0}
  BY Zenon, WriteBackAssumption DEF IInv, TypeOK, Worker
<1>3. to \in [at : {"get", "flushed", "left"}, i : Worker]
  BY <1>2 DEF Worker
<1>4. \A v \in Worker : v < w => <<c, v>> \in released
  BY Zenon, <1>1 DEF IInv, WaitInv
<1>5. \A v \in Worker : v <= w => <<c, v>> \in released
  BY <1>1, <1>2, <1>4 DEF Worker
<1>6. /\ to.at = "get" => to.i = w + 1
      /\ to.at = "flushed" => w = NWorkers
  BY <1>2
<1>. HIDE DEF to, w
<1>7. to.at = "get" => \A v \in Worker : v < to.i => <<c, v>> \in released
  BY <1>2, <1>5, <1>6 DEF Worker
<1>8. to.at = "flushed" => \A v \in Worker : <<c, v>> \in released
  BY <1>2, <1>5, <1>6 DEF Worker
<1>. QED
  BY ONLY Zenon, IInv, c \in Waiter, <1>1, <1>3, <1>7, <1>8, WaitMoves

\* Wait gives up: the cache closes.
LEMMA WaitStoppedStep ==
  ASSUME IInv, NEW c \in Waiter, WaitStopped(c)
  PROVE  IInv'
<1>. DEFINE to == [at |-> "left", i |-> 1]
<1>1. /\ UNCHANGED <<task, fate, l2, queue, wk, call, released, must, closing, racing>>
      /\ wait' = [wait EXCEPT ![c] = to]
  BY Zenon DEF WaitStopped
<1>2. to \in [at : {"get", "flushed", "left"}, i : Worker] /\ to.at = "left"
  BY WriteBackAssumption DEF Worker
<1>. HIDE DEF to
<1>3. to.at # "get" /\ to.at # "flushed"
  BY Zenon, <1>2
<1>. QED
  BY ONLY Zenon, IInv, c \in Waiter, <1>1, <1>2, <1>3, WaitMoves

\* Something is put at the end of the line of w.
LEMMA PutLast ==
  ASSUME TypeOK, NEW w \in Worker, NEW x \in Items, UNCHANGED wk,
         queue' = [queue EXCEPT ![w] = Append(queue[w], x)]
  PROVE  /\ queue' \in [Worker -> Seq(Items)]
         /\ Pending(w) \in Seq(Items) /\ Pending(w)' = Append(Pending(w), x)
         /\ \A v \in Worker \ {w} : Pending(v)' = Pending(v)
<1>. DEFINE q == queue[w]
            h == InHand(wk[w])
<1>1. q \in Seq(Items) /\ wk[w] \in Flushers
  BY Zenon DEF TypeOK
<1>2. h \in Seq(Items)
  BY Zenon, <1>1, InHandType
<1>3. queue'[w] = Append(q, x) /\ \A v \in Worker \ {w} : queue'[v] = queue[v]
  BY Zenon DEF TypeOK
<1>4. Append(q, x) \in Seq(Items)
  <2>. HIDE DEF q
  <2>. QED
    BY <1>1
<1>5. queue' \in [Worker -> Seq(Items)]
  BY Zenon, <1>4 DEF TypeOK
<1>6. Pending(w)' = Append(Pending(w), x)
  <2>1. h \o Append(q, x) = Append(h \o q, x)
    <3>. HIDE DEF h, q
    <3>. QED
      BY <1>1, <1>2
  <2>. QED
    BY Zenon, <1>3, <2>1 DEF Pending
<1>7. \A v \in Worker \ {w} : Pending(v)' = Pending(v)
  BY Zenon, <1>3, PendingSame
<1>. QED
  BY Zenon, <1>5, <1>6, <1>7, PendingIsSeq

\* The marker goes behind all that was queued when Wait began.
LEMMA WaitPutStep ==
  ASSUME IInv, NEW c \in Waiter, WaitPut(c)
  PROVE  IInv'
<1>2. PICK w \in Worker : w = wait[c].i /\ w \in 1..NWorkers /\ NWorkers \in Nat \ {0}
  BY Zenon, WriteBackAssumption DEF IInv, TypeOK, Worker
<1>. DEFINE to == IF w < NWorkers THEN [at |-> "put", i |-> w + 1] ELSE [at |-> "get", i |-> 1]
<1>1. /\ UNCHANGED <<task, fate, l2, wk, call, released, must, closing, racing>>
      /\ queue' = [queue EXCEPT ![w] = Append(queue[w], c)]
      /\ wait' = [wait EXCEPT ![c] = to] /\ wait[c].at = "put" /\ TypeOK
  BY Zenon, <1>2 DEF WaitPut, IInv
<1>3. to \in [at : {"idle", "put", "get", "flushed", "left"}, i : Worker]
  BY <1>2 DEF Worker
<1>4. /\ to.at = "put" => to.i = w + 1
      /\ to.at = "get" => to.i = 1
      /\ to.at \in {"put", "get"}
  BY Zenon, <1>2
<1>5. wait'[c] = to /\ \A d \in Waiter \ {c} : wait'[d] = wait[d]
  BY Zenon, <1>1 DEF TypeOK
<1>6. c \in Items /\ c \notin Nat /\ c # None
  BY Zenon, MarkersAreNoTasks DEF Items
<1>7. /\ queue' \in [Worker -> Seq(Items)] /\ Pending(w) \in Seq(Items)
      /\ Pending(w)' = Append(Pending(w), c)
      /\ \A v \in Worker \ {w} : Pending(v)' = Pending(v)
  <2>. HIDE DEF to
  <2>. QED
    BY Zenon, <1>1, <1>2, <1>6, PutLast
<1>8. wait' \in [Waiter -> [at : {"idle", "put", "get", "flushed", "left"}, i : Worker]]
  <2>. HIDE DEF to
  <2>. QED
    BY Zenon, <1>1, <1>3 DEF TypeOK
<1>9. TypeOK'
  BY Zenon, <1>1, <1>7, <1>8 DEF TypeOK
<1>10. Ids' = Ids /\ Queued' = Queued /\ \A v : QueuedIn(v)' = QueuedIn(v)
  BY Zenon, <1>1, QueuedSame
<1>11. \A v \in Worker \ {w} : Unmoved(v)
  BY Zenon, <1>7, <1>10 DEF Unmoved
<1>12. Unsent(c, w) /\ MarkerInv(c, w) /\ Lined(Pending(w), QueuedIn(w))
  <2>1. Unsent(c, w)
    BY <1>1, <1>2 DEF Unsent
  <2>. QED
    BY Zenon, <1>2, <2>1 DEF IInv, PendingInv
<1>13. Absent(Pending(w), c) /\ <<c, w>> \notin released /\ wk[w].marker # c
  BY Zenon, <1>12 DEF MarkerInv, MarkedInv
<1>14. ASSUME NEW v \in Worker PROVE Unsent(c, v)' => Unsent(c, v) /\ v # w
  BY <1>1, <1>2, <1>4, <1>5 DEF Unsent, Worker
<1>. HIDE DEF to
<1>15. ASSUME NEW v \in Worker PROVE FlusherOK(wk[v])' /\ PendingInv(v)' /\ HomeInv(v)'
  <2>1. FlusherOK(wk[v]) /\ PendingInv(v) /\ HomeInv(v)
    BY Zenon DEF IInv
  <2>2. Lined(Pending(v)', QueuedIn(v)')
    <3>1. CASE v = w
      <4>1. c \notin QueuedIn(w)
        BY <1>6 DEF QueuedIn, Queued, Ids
      <4>2. Lined(Append(Pending(w), c), QueuedIn(w))
        BY ONLY Zenon, <1>6, <1>7, <1>12, <1>13, <4>1, AppendMarker, c \in Waiter
      <4>. QED
        BY Zenon, <1>7, <1>10, <3>1, <4>2
    <3>2. CASE v # w
      BY Zenon, <1>11, <2>1, <3>2 DEF PendingInv, Unmoved
    <3>. QED
      BY Zenon, <3>1, <3>2
  <2>3. PendingInv(v)'
    BY Zenon, <1>1, <2>2, LinedNext, SameKeySame
  <2>4. HomeInv(v)'
    BY Zenon, <1>1, <1>10, <2>1 DEF HomeInv, Stopped
  <2>. QED
    BY Zenon, <1>1, <2>1, <2>3, <2>4
<1>16. ASSUME NEW d \in Waiter, NEW v \in Worker PROVE MarkerInv(d, v)'
  <2>1. MarkerInv(d, v) /\ must'[d] = must[d] /\ wk'[v] = wk[v] /\ released' = released
    BY Zenon, <1>1 DEF IInv
  <2>2. Unsent(d, v)' => Unsent(d, v)
    <3>1. CASE d = c
      BY Zenon, <1>14, <3>1
    <3>2. CASE d # c
      BY Zenon, <1>5, <3>2 DEF Unsent
    <3>. QED
      BY Zenon, <3>1, <3>2
  <2>3. CASE v # w
    BY Zenon, <1>11, <2>1, <2>2, <2>3, MarkerStill
  <2>4. CASE v = w
    <3>1. Owes(d, w)' = Owes(d, w)
      BY Zenon, <1>1, <1>10 DEF Owes
    <3>2. MarkedInv(d, w)'
      <4>1. MarkedInv(d, w)
        BY Zenon, <2>1, <2>4 DEF MarkerInv
      <4>. QED
        BY Zenon, <2>1, <2>2, <2>4, <3>1, <4>1 DEF MarkedInv
    <3>3. Behind(Pending(w)', d, Owes(d, w)) /\ (Unsent(d, w)' => Absent(Pending(w)', d))
      <4>1. CASE d = c
        <5>1. \A id \in Owes(c, w) : \E n \in 1..Len(Pending(w)) : Pending(w)[n] = id
          BY Zenon, <1>12 DEF Owes, Lined
        <5>2. Behind(Append(Pending(w), c), c, Owes(c, w))
          BY ONLY Zenon, <1>6, <1>7, <1>13, <5>1, AppendOwn
        <5>3. ~Unsent(c, w)'
          BY Zenon, <1>2, <1>14
        <5>. QED
          BY Zenon, <1>7, <4>1, <5>2, <5>3
      <4>2. CASE d # c
        <5>1. Behind(Pending(w), d, Owes(d, w)) /\ (Unsent(d, w) => Absent(Pending(w), d))
          BY Zenon, <2>1, <2>4 DEF MarkerInv
        <5>2. Behind(Append(Pending(w), c), d, Owes(d, w))
          BY ONLY Zenon, <1>6, <1>7, <4>2, <5>1, AppendBehind
        <5>3. Unsent(d, w) => Absent(Append(Pending(w), c), d)
          BY ONLY Zenon, <1>6, <1>7, <4>2, <5>1, AppendAbsent
        <5>. QED
          BY Zenon, <1>7, <2>2, <2>4, <5>2, <5>3
      <4>. QED
        BY Zenon, <4>1, <4>2
    <3>4. Behind(Pending(w), d, Owes(d, w))' /\ (Unsent(d, w) => Absent(Pending(w), d))'
      BY Zenon, <3>1, <3>3 DEF Behind, Absent
    <3>. QED
      BY Zenon, <2>4, <3>2, <3>4 DEF MarkerInv
  <2>. QED
    BY Zenon, <2>3, <2>4
<1>17. ASSUME NEW d \in Waiter PROVE WaitInv(d)'
  <2>1. WaitInv(d)
    BY Zenon DEF IInv
  <2>2. CASE d = c
    <3>1. to.at # "flushed" /\ (to.at = "get" => \A v \in Worker : ~(v < to.i))
      BY <1>4 DEF Worker
    <3>. QED
      BY Zenon, <1>1, <1>5, <1>10, <2>1, <2>2, <3>1 DEF WaitInv
  <2>3. CASE d # c
    BY Zenon, <1>1, <1>5, <1>10, <2>1, <2>3 DEF WaitInv
  <2>. QED
    BY Zenon, <2>2, <2>3
<1>18. ASSUME NEW d \in Caller PROVE CallInv(d)'
  <2>1. CallInv(d)
    BY Zenon DEF IInv
  <2>. QED
    BY Zenon, <1>1, <1>10, <2>1 DEF CallInv
<1>19. CallingInv' /\ OrderInv'
  <2>1. CallingInv'
    BY Zenon, <1>1, <1>10 DEF IInv, CallingInv
  <2>2. OrderInv'
    BY <1>1, <1>10, ZenonT(60) DEF IInv, OrderInv, SameKey
  <2>. QED
    BY Zenon, <2>1, <2>2
<1>20. CloseInv'
  BY Zenon, <1>1 DEF IInv, CloseInv, Stopped
<1>. QED
  BY Zenon, <1>9, <1>15, <1>16, <1>17, <1>18, <1>19, <1>20 DEF IInv

\* Close begins: no worker has ended yet, and the calls that are under way are
\* those that race with it.
LEMMA CloseBeginStep ==
  ASSUME IInv, CloseBegin
  PROVE  IInv'
<1>1. /\ UNCHANGED <<task, fate, l2, queue, wk, call, wait, released, must>>
      /\ closing.at = "open" /\ closing' = [at |-> "wait", i |-> 1]
      /\ racing' = {call[c].id : c \in {c \in Caller : call[c] # Idle}} /\ TypeOK
  BY Zenon DEF CloseBegin, IInv
<1>2. TypeOK'
  <2>1. racing' \subseteq Nat /\ 1 \in Worker
    BY <1>1, WriteBackAssumption DEF TypeOK, Worker
  <2>. QED
    BY Zenon, <1>1, <2>1 DEF TypeOK
<1>3. /\ Queued' = Queued /\ OrderInv'
      /\ \A w \in Worker : Unmoved(w) /\ FlusherOK(wk[w])' /\ PendingInv(w)'
      /\ (\A d \in Caller : CallInv(d)') /\ CallingInv'
      /\ \A c \in Waiter : WaitInv(c)' /\ \A w \in Worker : MarkerInv(c, w)'
  BY Zenon, <1>1, Still
<1>4. ASSUME NEW w \in Worker PROVE wk'[w].home = "loop" /\ HomeInv(w)'
  <2>1. wk[w].home = "loop"
    BY Zenon, <1>1 DEF IInv, HomeInv, Stopped
  <2>. QED
    BY Zenon, <1>1, <2>1 DEF HomeInv
<1>5. CloseInv'
  <2>1. ASSUME NEW c \in Caller, call[c].at = "send" PROVE call[c].id \in racing'
    <3>1. call[c] # Idle
      BY <2>1 DEF Idle
    <3>. QED
      BY Zenon, <1>1, <3>1
  <2>. QED
    BY Zenon, <1>1, <2>1 DEF CloseInv
<1>. QED
  BY Zenon, <1>2, <1>3, <1>4, <1>5 DEF IInv

\* CloseWait and CloseNext: Close goes on only when every worker has ended.
LEMMA CloseStep ==
  ASSUME IInv, CloseWait \/ CloseNext
  PROVE  IInv'
<1>1. /\ UNCHANGED <<task, fate, l2, queue, wk, call, wait, released, must, racing>>
      /\ Stopped /\ closing'.at \in {"drain", "closed"} /\ TypeOK
  BY DEF CloseWait, CloseNext, IInv, TypeOK, Stopped
<1>2. TypeOK'
  <2>1. closing' \in [at : {"open", "wait", "drain", "closed"}, i : Worker]
    BY <1>1, WriteBackAssumption DEF TypeOK, CloseWait, CloseNext, Worker
  <2>. QED
    BY Zenon, <1>1, <2>1 DEF TypeOK
<1>3. /\ Queued' = Queued /\ OrderInv'
      /\ \A w \in Worker : Unmoved(w) /\ FlusherOK(wk[w])' /\ PendingInv(w)'
      /\ (\A d \in Caller : CallInv(d)') /\ CallingInv'
      /\ \A c \in Waiter : WaitInv(c)' /\ \A w \in Worker : MarkerInv(c, w)'
  BY Zenon, <1>1, Still
<1>4. ASSUME NEW w \in Worker PROVE wk[w].home = "gone"
  <2>1. CASE CloseWait
    <3>1. wk[w].at = "gone" /\ FlusherOK(wk[w])
      BY Zenon, <2>1 DEF CloseWait, IInv
    <3>2. wk[w] = AtHome("gone")
      BY Zenon, <3>1 DEF FlusherOK, Places
    <3>. QED
      BY <3>2 DEF AtHome
  <2>2. CASE CloseNext
    BY Zenon, <2>2 DEF CloseNext, IInv, CloseInv
  <2>. QED
    BY Zenon, <2>1, <2>2
<1>5. ASSUME NEW w \in Worker PROVE HomeInv(w)'
  <2>1. HomeInv(w) /\ QueuedIn(w)' = QueuedIn(w) /\ Stopped'
    BY Zenon, <1>1, <1>3 DEF IInv, Unmoved, Stopped
  <2>. QED
    BY Zenon, <1>1, <2>1 DEF HomeInv
<1>6. CloseInv'
  <2>1. \A c \in Caller : call[c].at = "send" => call[c].id \in racing
    BY Zenon, <1>1 DEF IInv, CloseInv
  <2>. QED
    BY Zenon, <1>1, <1>4, <2>1 DEF CloseInv
<1>. QED
  BY Zenon, <1>2, <1>3, <1>5, <1>6 DEF IInv

(***************************************************************************)
(* The steps of a worker that deliver nothing.                             *)
(***************************************************************************)

FlushKeeps(w) ==
  /\ UNCHANGED <<task, fate, l2, call, wait, must, closing, racing>>
  /\ \A v \in Worker \ {w} : wk'[v] = wk[v] /\ queue'[v] = queue[v]

\* Only markers leave the line, and they leave it as MarkedInv says: nothing else
\* of the invariant is touched.
LEMMA FlushQuiet ==
  ASSUME IInv, TypeOK', NEW w \in Worker, NEW R, R \cap Nat = {}, FlushKeeps(w),
         FlusherOK(wk'[w]), HomeInv(w)', wk[w].home = "gone" => wk'[w].home = "gone",
         Shrinks(Pending(w), Pending(w)', R), \A c \in Waiter : MarkedInv(c, w)',
         released \subseteq released',
         \A c \in Waiter, v \in Worker \ {w} : <<c, v>> \in released' => <<c, v>> \in released
  PROVE  IInv'
<1>1. /\ task' = task /\ fate' = fate /\ l2' = l2 /\ call' = call /\ wait' = wait
      /\ must' = must /\ closing' = closing /\ racing' = racing
      /\ \A v \in Worker \ {w} : wk'[v] = wk[v] /\ queue'[v] = queue[v]
  BY Zenon DEF FlushKeeps
<1>2. Ids' = Ids /\ Queued' = Queued /\ \A v : QueuedIn(v)' = QueuedIn(v)
  BY Zenon, <1>1, QueuedSame
<1>3. Stopped' = Stopped
  BY Zenon, <1>1 DEF Stopped
<1>4. Serves(w, R)
  <2>1. QueuedIn(w) \subseteq Nat
    BY DEF QueuedIn, Queued, Ids
  <2>2. QueuedIn(w)' = QueuedIn(w) \ R
    BY Zenon, <1>2, <2>1
  <2>3. \A v \in Worker \ {w} : Unmoved(v)
    BY Zenon, <1>1, <1>2, PendingSame DEF Unmoved
  <2>. QED
    BY Zenon, <2>2, <2>3 DEF Serves
<1>5. ASSUME NEW v \in Worker PROVE FlusherOK(wk[v])' /\ PendingInv(v)' /\ HomeInv(v)'
  <2>1. PendingInv(v)'
    BY Zenon, <1>1, <1>4, LinesServed DEF IInv
  <2>2. FlusherOK(wk[v])'
    BY <1>1, ZenonT(60) DEF IInv, FlusherOK, AtHome
  <2>3. HomeInv(v)'
    BY Zenon, <1>1, <1>2, <1>3 DEF IInv, HomeInv
  <2>. QED
    BY Zenon, <2>1, <2>2, <2>3
<1>6. ASSUME NEW c \in Waiter, NEW v \in Worker PROVE MarkerInv(c, v)'
  <2>1. Behind(Pending(v), c, Owes(c, v))' /\ (Unsent(c, v) => Absent(Pending(v), c))'
    BY Zenon, <1>1, <1>4, MarkersServed DEF IInv
  <2>2. MarkedInv(c, v)'
    <3>1. CASE v = w
      BY Zenon, <3>1
    <3>2. CASE v # w
      <4>1. Owes(c, v)' = Owes(c, v) /\ (Unsent(c, v)' <=> Unsent(c, v)) /\ wk'[v] = wk[v]
        BY Zenon, <1>1, <1>2, <3>2 DEF Owes, Unsent
      <4>2. <<c, v>> \in released' <=> <<c, v>> \in released
        BY Zenon, <3>2
      <4>3. MarkedInv(c, v)
        BY Zenon DEF IInv, MarkerInv
      <4>. QED
        BY Zenon, <4>1, <4>2, <4>3 DEF MarkedInv
    <3>. QED
      BY Zenon, <3>1, <3>2
  <2>. QED
    BY Zenon, <2>1, <2>2 DEF MarkerInv
<1>7. ASSUME NEW c \in Caller PROVE CallInv(c)'
  BY Zenon, <1>1, <1>2 DEF IInv, CallInv
<1>8. CallingInv'
  BY Zenon, <1>1, <1>2 DEF IInv, CallingInv
<1>9. ASSUME NEW c \in Waiter PROVE WaitInv(c)'
  <2>1. WaitInv(c)
    BY Zenon DEF IInv
  <2>. QED
    BY Zenon, <1>1, <1>2, <2>1 DEF WaitInv
<1>11. OrderInv'
  BY <1>1, <1>2, ZenonT(60) DEF IInv, OrderInv, SameKey
<1>12. CloseInv'
  <2>1. CloseInv
    BY Zenon DEF IInv
  <2>. QED
    BY Zenon, <1>1, <1>3, <2>1 DEF CloseInv
<1>. QED
  BY Zenon, <1>5, <1>6, <1>7, <1>8, <1>9, <1>11, <1>12 DEF IInv

\* The marker in hand, if any, is gone and none was closed.
LEMMA MarkedKeep ==
  ASSUME NEW w \in Worker, FlushKeeps(w), NEW c \in Waiter, MarkedInv(c, w),
         wk'[w].marker = None, released' = released
  PROVE  MarkedInv(c, w)'
<1>1. Owes(c, w)' = Owes(c, w) /\ (Unsent(c, w)' <=> Unsent(c, w))
  BY Zenon, QueuedSame DEF FlushKeeps, Owes, Unsent
<1>2. wk'[w].marker # c
  BY Zenon, MarkersAreNoTasks
<1>. QED
  BY Zenon, <1>1, <1>2 DEF MarkedInv

\* The receive of writeBackLoop, and of Close, moves an item from the head of the
\* queue into the worker's hand: the line stays as it is.
LEMMA ReceiveStep ==
  ASSUME IInv, NEW w \in Worker, Receive(w)
  PROVE  IInv'
<1>. DEFINE r == wk[w]
            q == queue[w]
            s == [wk[w] EXCEPT !.at = "flush", !.first = Head(queue[w])]
<1>1. r \in Flushers /\ q \in Seq(Items) /\ FlusherOK(r) /\ TypeOK
  BY Zenon DEF IInv, TypeOK
<1>2. r.at \in Places /\ q # <<>>
  BY Zenon DEF Receive, Places
<1>3. r = AtHome(r.at)
  BY Zenon, <1>1, <1>2 DEF FlusherOK
<1>4. wk' = [wk EXCEPT ![w] = s] /\ queue' = [queue EXCEPT ![w] = Tail(q)] /\ released' = released
  BY Zenon DEF Receive
<1>5. wk'[w] = s /\ queue'[w] = Tail(q)
  BY Zenon, <1>1, <1>4 DEF TypeOK
<1>6. s \in Flushers /\ Tail(q) \in Seq(Items)
  <2>1. Head(q) \in Items /\ Tail(q) \in Seq(Items)
    <3>. HIDE DEF q
    <3>. QED
      BY ONLY <1>1, <1>2
  <2>. QED
    BY Zenon, <1>1, <2>1 DEF Flushers
<1>7. FlushKeeps(w)
  BY Zenon, <1>1, <1>4 DEF Receive, FlushKeeps, TypeOK
<1>8. TypeOK'
  BY Zenon, <1>1, <1>4, <1>6, <1>7 DEF TypeOK, FlushKeeps
<1>9. s.at = "flush" /\ s.first = Head(q) /\ s.home = r.home /\ s.run = <<>> /\ s.next = None /\ s.marker = None
  BY <1>1, <1>3 DEF Flushers, AtHome
<1>. HIDE DEF r, q, s
<1>10. FlusherOK(s)
  BY Zenon, <1>9 DEF FlusherOK, Places
<1>11. Pending(w)' = Pending(w)
  <2>1. InHand(r) = <<>> /\ InHand(s) = <<Head(q)>>
    BY Zenon, <1>2, <1>9, InHandIs
  <2>2. <<Head(q)>> \o Tail(q) = <<>> \o q
    BY <1>1, <1>2
  <2>. QED
    BY Zenon, <1>5, <2>1, <2>2 DEF Pending, r, q
<1>12. Shrinks(Pending(w), Pending(w)', {})
  BY Zenon, <1>1, <1>11, PendingIsSeq, ShrinkNothing
<1>13. HomeInv(w)'
  <2>1. HomeInv(w) /\ wk'[w].home = wk[w].home
    BY Zenon, <1>5, <1>9 DEF IInv, r
  <2>. QED
    BY Zenon, <1>7, <2>1, QueuedSame DEF HomeInv, FlushKeeps, Stopped
<1>14. ASSUME NEW c \in Waiter PROVE MarkedInv(c, w)'
  BY Zenon, <1>4, <1>5, <1>7, <1>9, MarkedKeep DEF IInv, MarkerInv
<1>. QED
  <2>1. FlusherOK(wk'[w]) /\ (wk[w].home = "gone" => wk'[w].home = "gone")
    BY Zenon, <1>5, <1>9, <1>10 DEF r
  <2>2. {} \cap Nat = {} /\ released \subseteq released'
    BY Zenon, <1>4
  <2>3. \A c \in Waiter, v \in Worker \ {w} : <<c, v>> \in released' => <<c, v>> \in released
    BY Zenon, <1>4
  <2>. QED
    BY ONLY Zenon, IInv, <1>7, <1>8, <1>12, <1>13, <1>14, <2>1, <2>2, <2>3, FlushQuiet, w \in Worker

\* StopWorker and EndWorker move an idle worker from one loop to the next.
LEMMA HomeStep ==
  ASSUME IInv, NEW w \in Worker, StopWorker(w) \/ EndWorker(w)
  PROVE  IInv'
<1>. DEFINE r == wk[w]
            to == IF wk[w].at = "loop" THEN "drain" ELSE "gone"
            s == AtHome(to)
<1>1. r \in Flushers /\ queue[w] \in Seq(Items) /\ FlusherOK(r) /\ TypeOK
  BY Zenon DEF IInv, TypeOK
<1>2. r.at \in {"loop", "drain"} /\ r.at \in Places
  BY Zenon DEF StopWorker, EndWorker, Places
<1>3. r = AtHome(r.at)
  BY Zenon, <1>1, <1>2 DEF FlusherOK
<1>4. wk' = [wk EXCEPT ![w] = s] /\ queue' = queue /\ released' = released
  BY Zenon DEF StopWorker, EndWorker
<1>5. wk'[w] = s /\ queue'[w] = queue[w]
  BY Zenon, <1>1, <1>4 DEF TypeOK
<1>6. s \in Flushers /\ to \in Places
  BY DEF Flushers, AtHome, Places, Items, None
<1>7. FlushKeeps(w)
  BY Zenon, <1>1, <1>4 DEF StopWorker, EndWorker, FlushKeeps, TypeOK
<1>8. TypeOK'
  BY Zenon, <1>1, <1>4, <1>6, <1>7 DEF TypeOK, FlushKeeps
<1>9. s.at = to /\ s.home = to /\ s.marker = None
  BY Zenon DEF AtHome
<1>10. FlusherOK(s)
  BY Zenon, <1>6, <1>9 DEF FlusherOK, Places
<1>11. Pending(w)' = Pending(w)
  <2>. HIDE DEF r, s
  <2>1. InHand(r) = <<>> /\ InHand(s) = <<>>
    BY Zenon, <1>2, <1>6, <1>9, InHandIs
  <2>. QED
    BY Zenon, <1>5, <2>1 DEF Pending, r
<1>12. Shrinks(Pending(w), Pending(w)', {})
  BY Zenon, <1>1, <1>11, PendingIsSeq, ShrinkNothing
<1>13. HomeInv(w)'
  <2>1. QueuedIn(w)' = QueuedIn(w) /\ Stopped' = Stopped
    BY Zenon, <1>7, QueuedSame DEF FlushKeeps, Stopped
  <2>2. r.home = r.at /\ HomeInv(w)
    BY <1>3 DEF AtHome, IInv
  <2>3. Stopped
    BY Zenon, <2>2 DEF HomeInv, StopWorker, EndWorker
  <2>4. to = "gone" => QueuedIn(w) = {}
    <3>1. SUFFICES ASSUME to = "gone" PROVE QueuedIn(w) = {}
      BY Zenon
    <3>2. queue[w] = <<>>
      BY Zenon, <3>1 DEF StopWorker, EndWorker
    <3>3. InHand(r) = <<>>
      <4>. HIDE DEF r
      <4>. QED
        BY Zenon, <1>2, InHandIs
    <3>4. Len(Pending(w)) = 0
      BY <3>2, <3>3 DEF Pending
    <3>5. Lined(Pending(w), QueuedIn(w))
      BY Zenon DEF IInv, PendingInv
    <3>. QED
      BY <3>4, <3>5 DEF Lined
  <2>. QED
    BY Zenon, <1>5, <1>9, <2>1, <2>3, <2>4 DEF HomeInv
<1>14. ASSUME NEW c \in Waiter PROVE MarkedInv(c, w)'
  BY Zenon, <1>4, <1>5, <1>7, <1>9, MarkedKeep DEF IInv, MarkerInv
<1>. QED
  <2>1. FlusherOK(wk'[w]) /\ (wk[w].home = "gone" => wk'[w].home = "gone")
    BY <1>2, <1>3, <1>5, <1>10 DEF AtHome
  <2>2. {} \cap Nat = {} /\ released \subseteq released'
    BY Zenon, <1>4
  <2>3. \A c \in Waiter, v \in Worker \ {w} : <<c, v>> \in released' => <<c, v>> \in released
    BY Zenon, <1>4
  <2>. QED
    BY ONLY Zenon, IInv, <1>7, <1>8, <1>12, <1>13, <1>14, <2>1, <2>2, <2>3, FlushQuiet, w \in Worker

\* FlushWrite closes a marker, or starts a run with a task.
LEMMA FlushWriteStep ==
  ASSUME IInv, NEW w \in Worker, FlushWrite(w)
  PROVE  IInv'
<1>. DEFINE r == wk[w]
            q == queue[w]
            s == wk'[w]
<1>1. r \in Flushers /\ q \in Seq(Items) /\ FlusherOK(r) /\ TypeOK
  BY Zenon DEF IInv, TypeOK
<1>2. r.at = "flush" /\ queue' = queue
  BY Zenon DEF FlushWrite
<1>3. r.run = <<>> /\ r.next = None /\ r.marker = None /\ r.first \in Items
  BY Zenon, <1>1, <1>2 DEF FlusherOK, Flushers
<1>4. FlushKeeps(w)
  BY Zenon, <1>1 DEF FlushWrite, FlushKeeps, TypeOK
<1>5. InHand(r) = <<r.first>>
  <2>. HIDE DEF r
  <2>. QED
    BY Zenon, <1>2, InHandIs
<1>6. QueuedIn(w)' = QueuedIn(w) /\ Stopped' = Stopped /\ racing' = racing
  BY Zenon, <1>4, QueuedSame DEF FlushKeeps, Stopped
<1>7. \A c \in Waiter : Owes(c, w)' = Owes(c, w) /\ (Unsent(c, w)' <=> Unsent(c, w))
  BY Zenon, <1>4, <1>6 DEF FlushKeeps, Owes, Unsent
<1>8. CASE IsMarker(r.first)
  <2>1. wk' = [wk EXCEPT ![w] = AtHome(r.home)] /\ released' = released \union {<<r.first, w>>}
    BY Zenon, <1>8 DEF FlushWrite
  <2>2. s = AtHome(r.home) /\ r.first \in Waiter
    BY Zenon, <1>1, <1>8, <2>1 DEF TypeOK, IsMarker
  <2>3. r.home \in Places
    BY Zenon, <1>1 DEF Flushers
  <2>4. AtHome(r.home) \in Flushers
    BY <2>3 DEF Flushers, AtHome, Items, None
  <2>5. TypeOK'
    BY <1>1, <1>2, <1>4, <2>1, <2>2, <2>4 DEF TypeOK, FlushKeeps
  <2>6. s.at = r.home /\ s.home = r.home /\ s.marker = None
    BY <2>2 DEF AtHome
  <2>7. FlusherOK(s)
    BY Zenon, <2>2, <2>3, <2>6 DEF FlusherOK, Places
  <2>8. InHand(s) = <<>>
    <3>. HIDE DEF s
    <3>. QED
      BY Zenon, <2>3, <2>6, InHandIs
  <2>. DEFINE b == <<r.first>>
              P == Pending(w)
              O == Pending(w)'
  <2>9. P = (<<>> \o b) \o q /\ O = <<>> \o q
    <3>1. <<>> \o b = b
      BY <1>3
    <3>. QED
      BY Zenon, <1>2, <1>5, <2>8, <3>1 DEF Pending
  <2>10. P \in Seq(Items) /\ O \in Seq(Items)
    BY Zenon, <1>1, <2>5, PendingIsSeq, PendingIsSeqNext
  <2>11. Lined(P, QueuedIn(w))
    BY Zenon DEF IInv, PendingInv
  <2>12. Len(P) >= 1 /\ P[1] = r.first
    BY <1>1, <1>3, <2>9
  <2>13. Elements(b) = {r.first}
    BY DEF Elements
  <2>14. Shrinks(P, O, {r.first})
    <3>1. \A m, n \in 1..Len(P) : P[m] = P[n] => m = n
      BY Zenon, <2>11 DEF Lined
    <3>2. b \in Seq(Items) /\ <<>> \in Seq(Items)
      BY <1>3
    <3>a. q \in Seq(Items)
      BY Zenon, <1>1
    <3>. HIDE DEF b, P, O, q
    <3>3. Shrinks(P, O, Elements(b))
      BY ONLY Zenon, <3>a, <2>9, <2>10, <3>1, <3>2, ShrinkStretch
    <3>. QED
      BY Zenon, <2>13, <3>3
  <2>15. HomeInv(w)'
    BY Zenon, <1>6, <2>6 DEF HomeInv, IInv
  <2>16. ASSUME NEW c \in Waiter PROVE MarkedInv(c, w)'
    <3>1. MarkerInv(c, w)
      BY Zenon DEF IInv
    <3>2. wk'[w].marker # c
      BY Zenon, <2>6, MarkersAreNoTasks
    <3>3. CASE c # r.first
      <4>1. <<c, w>> \in released' <=> <<c, w>> \in released
        BY Zenon, <2>1, <3>3
      <4>. QED
        BY Zenon, <1>7, <3>1, <3>2, <4>1 DEF MarkedInv, MarkerInv
    <3>4. CASE c = r.first
      <4>1. 1 \in 1..Len(P) /\ P[1] = c /\ Len(P) \in Nat
        BY <2>10, <2>12, <3>4
      <4>2. Owes(c, w) = {}
        <5>1. \A id \in Owes(c, w) : \E m \in 1..(1 - 1) : P[m] = id
          BY Zenon, <3>1, <4>1 DEF MarkerInv, Behind
        <5>2. \A m \in 1..(1 - 1) : FALSE
          OBVIOUS
        <5>. QED
          BY Zenon, <5>1, <5>2
      <4>3. ~Unsent(c, w)
        BY Zenon, <3>1, <4>1 DEF MarkerInv, Absent
      <4>. QED
        BY Zenon, <1>7, <3>2, <4>2, <4>3 DEF MarkedInv
    <3>. QED
      BY Zenon, <3>3, <3>4
  <2>. QED
    <3>1. FlusherOK(wk'[w]) /\ (wk[w].home = "gone" => wk'[w].home = "gone")
      BY Zenon, <2>6, <2>7
    <3>2. {r.first} \cap Nat = {} /\ released \subseteq released'
      BY Zenon, <2>1, <2>2, MarkersAreNoTasks
    <3>3. \A c \in Waiter, v \in Worker \ {w} : <<c, v>> \in released' => <<c, v>> \in released
      BY Zenon, <2>1
    <3>4. Shrinks(Pending(w), Pending(w)', {r.first})
      BY Zenon, <2>14
    <3>. QED
      BY ONLY Zenon, IInv, <1>4, <2>5, <3>4, <2>15, <2>16, <3>1, <3>2, <3>3, FlushQuiet, w \in
           Worker
<1>9. CASE ~IsMarker(r.first)
  <2>. DEFINE to == IF Single(w) THEN "deliver" ELSE "collect"
  <2>1. wk' = [wk EXCEPT ![w] = [wk[w] EXCEPT !.at = to, !.run = <<wk[w].first>>]] /\ released' = released
    BY Zenon, <1>9 DEF FlushWrite
  <2>2. r.first \in Nat
    BY Zenon, <1>3, <1>9 DEF Items, IsMarker
  <2>3. s = [r EXCEPT !.at = to, !.run = <<r.first>>]
    BY Zenon, <1>1, <2>1 DEF TypeOK
  <2>a. to \in {"collect", "deliver"} /\ <<r.first>> \in Seq(Nat)
    BY <2>2
  <2>4. s \in Flushers
    <3>. HIDE DEF to
    <3>. QED
      BY Zenon, <1>1, <2>3, <2>a DEF Flushers
  <2>5. TypeOK'
    BY Zenon, <1>1, <1>2, <1>4, <2>1, <2>3, <2>4 DEF TypeOK, FlushKeeps
  <2>6. s.at = to /\ s.home = r.home /\ s.run = <<r.first>> /\ s.next = None /\ s.marker = None
    BY Zenon, <1>1, <1>3, <2>3 DEF Flushers
  <2>7. to \in {"collect", "deliver"}
    BY Zenon
  <2>. HIDE DEF s, to
  <2>8. FlusherOK(s)
    BY <2>6, <2>7 DEF FlusherOK, Places
  <2>9. Pending(w)' = Pending(w)
    <3>1. InHand(s) = <<r.first>> \o <<>>
      BY Zenon, <2>6, <2>7, InHandIs
    <3>2. <<r.first>> \o <<>> = <<r.first>>
      BY <1>3
    <3>. QED
      BY Zenon, <1>2, <1>5, <3>1, <3>2 DEF Pending, s
  <2>10. Shrinks(Pending(w), Pending(w)', {})
    BY Zenon, <1>1, <2>9, PendingIsSeq, ShrinkNothing
  <2>11. HomeInv(w)'
    <3>1. wk'[w].home = wk[w].home
      BY Zenon, <2>6 DEF s
    <3>. QED
      BY Zenon, <1>6, <3>1 DEF HomeInv, IInv
  <2>12. ASSUME NEW c \in Waiter PROVE MarkedInv(c, w)'
    <3>1. wk'[w].marker = None
      BY Zenon, <2>6 DEF s
    <3>. QED
      BY Zenon, <1>4, <2>1, <3>1, MarkedKeep DEF IInv, MarkerInv
  <2>. QED
    <3>1. FlusherOK(wk'[w]) /\ (wk[w].home = "gone" => wk'[w].home = "gone")
      BY Zenon, <2>6, <2>8 DEF s
    <3>2. {} \cap Nat = {} /\ released \subseteq released'
      BY Zenon, <2>1
    <3>3. \A c \in Waiter, v \in Worker \ {w} : <<c, v>> \in released' => <<c, v>> \in released
      BY Zenon, <2>1
    <3>. QED
      BY ONLY Zenon, IInv, <1>4, <2>5, <2>10, <2>11, <2>12, <3>1, <3>2, <3>3, FlushQuiet, w \in
           Worker
<1>. QED
  BY Zenon, <1>8, <1>9

\* FlushRun moves the head of the queue into the worker's hand, or ends the run.
LEMMA FlushRunStep ==
  ASSUME IInv, NEW w \in Worker, FlushRun(w)
  PROVE  IInv'
<1>. DEFINE r == wk[w]
            q == queue[w]
            s == wk'[w]
            x == Head(q)
            more == Len(r.run) < BatchMax /\ q # <<>>
<1>1. r \in Flushers /\ q \in Seq(Items) /\ FlusherOK(r) /\ TypeOK
  BY Zenon DEF IInv, TypeOK
<1>2. r.at = "collect" /\ queue' = [queue EXCEPT ![w] = IF more THEN Tail(q) ELSE q] /\ released' = released
  BY Zenon DEF FlushRun
<1>3. r.run \in Seq(Nat) /\ r.run # <<>> /\ r.next = None /\ r.marker = None
  BY Zenon, <1>1, <1>2 DEF FlusherOK, Flushers
<1>4. FlushKeeps(w)
  BY Zenon, <1>1 DEF FlushRun, FlushKeeps, TypeOK
<1>5. InHand(r) = r.run /\ r.run \in Seq(Items)
  <2>. HIDE DEF r
  <2>1. InHand(r) = r.run \o <<>>
    BY Zenon, <1>2, <1>3, InHandIs
  <2>2. r.run \in Seq(Items)
    BY Zenon, <1>3, RunIsItems
  <2>. QED
    BY <2>1, <2>2
<1>6. QueuedIn(w)' = QueuedIn(w) /\ Stopped' = Stopped /\ racing' = racing
  BY Zenon, <1>4, QueuedSame DEF FlushKeeps, Stopped
<1>7. \A c \in Waiter : Owes(c, w)' = Owes(c, w) /\ (Unsent(c, w)' <=> Unsent(c, w))
  BY Zenon, <1>4, <1>6 DEF FlushKeeps, Owes, Unsent
<1>8. queue'[w] = IF more THEN Tail(q) ELSE q
  BY Zenon, <1>1, <1>2 DEF TypeOK
<1>9. more => x \in Items /\ Tail(q) \in Seq(Items) /\ q = <<x>> \o Tail(q)
  <2>1. SUFFICES ASSUME q # <<>> PROVE Head(q) \in Items /\ Tail(q) \in Seq(Items) /\ q = <<Head(q)>> \o Tail(q)
    BY Zenon
  <2>2. q \in Seq(Items)
    BY Zenon, <1>1
  <2>. HIDE DEF q
  <2>. QED
    BY ONLY <2>1, <2>2
<1>10. queue' \in [Worker -> Seq(Items)]
  BY <1>1, <1>2, <1>9, SMTT(60) DEF TypeOK
\* What is left to show once the worker's new state is known.
<1>11. ASSUME s \in Flushers, wk' = [wk EXCEPT ![w] = s], FlusherOK(s), s.home = r.home,
              NEW R, R \cap Nat = {}, Shrinks(Pending(w), Pending(w)', R),
              \A c \in Waiter : s.marker = c => \A id \in Owes(c, w) : \E m \in 1..Len(s.run) : s.run[m] = id,
              \A c \in Waiter : s.marker = c => ~Unsent(c, w)
       PROVE  IInv'
  <2>1. TypeOK'
    BY Zenon, <1>1, <1>4, <1>10, <1>11, <1>2 DEF TypeOK, FlushKeeps
  <2>2. HomeInv(w)'
    BY Zenon, <1>6, <1>11 DEF HomeInv, IInv
  <2>3. ASSUME NEW c \in Waiter PROVE MarkedInv(c, w)'
    <3>1. MarkedInv(c, w)
      BY Zenon DEF IInv, MarkerInv
    <3>2. <<c, w>> \in released' <=> <<c, w>> \in released
      BY Zenon, <1>2
    <3>3. wk'[w].marker = c => \A id \in Owes(c, w) : \E m \in 1..Len(wk'[w].run) : wk'[w].run[m] = id
      BY Zenon, <1>11
    <3>4. wk'[w].marker = c => ~Unsent(c, w)
      BY Zenon, <1>11
    <3>. QED
      BY ONLY Zenon, <1>7, <3>1, <3>2, <3>3, <3>4, c \in Waiter DEF MarkedInv
  <2>4. FlusherOK(wk'[w]) /\ (wk[w].home = "gone" => wk'[w].home = "gone")
    BY Zenon, <1>11
  <2>5. released \subseteq released'
    BY Zenon, <1>2
  <2>6. \A c \in Waiter, v \in Worker \ {w} : <<c, v>> \in released' => <<c, v>> \in released
    BY Zenon, <1>2
  <2>. QED
    BY ONLY Zenon, IInv, <1>4, <1>11, <2>1, <2>2, <2>3, <2>4, <2>5, <2>6, FlushQuiet, w \in Worker
<1>12. \A c \in Waiter : None # c
  BY Zenon, MarkersAreNoTasks
<1>13. Shrinks(Pending(w), Pending(w), {})
  BY Zenon, <1>1, PendingIsSeq, ShrinkNothing
<1>14. Pending(w) = r.run \o q
  BY Zenon, <1>5 DEF Pending
<1>15. CASE ~more
  <2>1. wk' = [wk EXCEPT ![w] = [wk[w] EXCEPT !.at = "deliver"]]
    BY Zenon, <1>15 DEF FlushRun
  <2>2. s = [r EXCEPT !.at = "deliver"]
    BY Zenon, <1>1, <2>1 DEF TypeOK
  <2>3. s \in Flushers /\ wk' = [wk EXCEPT ![w] = s]
    <3>1. wk' = [wk EXCEPT ![w] = s]
      BY Zenon, <2>1, <2>2
    <3>. HIDE DEF r, s
    <3>2. s \in Flushers
      BY Zenon, <1>1, <2>2 DEF Flushers
    <3>. QED
      BY Zenon, <3>1, <3>2
  <2>4. s.at = "deliver" /\ s.home = r.home /\ s.run = r.run /\ s.next = None /\ s.marker = None
    BY Zenon, <1>1, <1>3, <2>2 DEF Flushers
  <2>5. queue'[w] = q
    BY Zenon, <1>8, <1>15
  <2>. HIDE DEF s
  <2>6. FlusherOK(s)
    BY Zenon, <1>3, <2>4 DEF FlusherOK, Places
  <2>7. Pending(w)' = Pending(w)
    <3>1. InHand(s) = r.run \o <<>>
      BY Zenon, <2>4, InHandIs
    <3>2. r.run \o <<>> = r.run
      BY <1>3
    <3>. QED
      BY Zenon, <1>14, <2>5, <3>1, <3>2 DEF Pending, s
  <2>. QED
    BY <1>11, <1>12, <1>13, <2>3, <2>4, <2>6, <2>7
<1>16. CASE more /\ IsMarker(x)
  <2>1. wk' = [wk EXCEPT ![w] = [wk[w] EXCEPT !.at = "deliver", !.marker = x]]
    BY Zenon, <1>16 DEF FlushRun
  <2>2. s = [r EXCEPT !.at = "deliver", !.marker = x]
    BY Zenon, <1>1, <2>1 DEF TypeOK
  <2>3. x \in Waiter
    BY Zenon, <1>16 DEF IsMarker
  <2>4. s \in Flushers /\ wk' = [wk EXCEPT ![w] = s]
    <3>1. wk' = [wk EXCEPT ![w] = s]
      BY Zenon, <2>1, <2>2
    <3>. HIDE DEF r, s, x
    <3>2. s \in Flushers
      BY Zenon, <1>1, <2>2, <2>3 DEF Flushers
    <3>. QED
      BY Zenon, <3>1, <3>2
  <2>5. s.at = "deliver" /\ s.home = r.home /\ s.run = r.run /\ s.next = None /\ s.marker = x
    BY Zenon, <1>1, <1>3, <2>2 DEF Flushers
  <2>6. queue'[w] = Tail(q)
    BY Zenon, <1>8, <1>16
  <2>7. TypeOK'
    BY Zenon, <1>1, <1>2, <1>4, <1>10, <2>4 DEF TypeOK, FlushKeeps
  <2>. DEFINE P == Pending(w)
              O == Pending(w)'
              b == <<x>>
              t == Tail(q)
  <2>8. b \in Seq(Items) /\ t \in Seq(Items) /\ q = b \o t /\ x \in Items
    <3>1. x \in Items /\ Tail(q) \in Seq(Items) /\ q = <<x>> \o Tail(q)
      BY Zenon, <1>9, <1>16
    <3>. QED
      BY <3>1
  <2>. HIDE DEF s
  <2>9. FlusherOK(s)
    BY Zenon, <1>3, <2>5 DEF FlusherOK, Places
  <2>10. O = r.run \o t
    <3>1. InHand(s) = r.run \o <<>>
      BY Zenon, <2>5, InHandIs
    <3>2. r.run \o <<>> = r.run
      BY <1>3, SMTT(60)
    <3>. QED
      BY Zenon, <2>6, <3>1, <3>2 DEF Pending, s
  <2>11. P \in Seq(Items) /\ O \in Seq(Items) /\ Lined(P, QueuedIn(w))
    BY Zenon, <1>1, <2>7, PendingIsSeq, PendingIsSeqNext DEF IInv, PendingInv
  <2>12. Elements(b) = {x} /\ Len(b) = 1 /\ b[1] = x
    BY DEF Elements
  <2>13. {x} \cap Nat = {}
    BY Zenon, <2>3, MarkersAreNoTasks
  <2>. DEFINE a == r.run
  <2>14. a \in Seq(Items) /\ O = a \o t
    BY Zenon, <1>5, <2>10
  <2>15. P = a \o q
    BY Zenon, <1>14
  <2>. HIDE DEF P, O, b, t, x, a
  <2>16. P = (a \o b) \o t
    BY <2>8, <2>14, <2>15, SMTT(60)
  <2>17. Shrinks(P, O, {x})
    <3>1. \A m, n \in 1..Len(P) : P[m] = P[n] => m = n
      BY Zenon, <2>11 DEF Lined
    <3>2. Shrinks(P, O, Elements(b))
      BY ONLY <2>8, <2>11, <2>14, <2>16, <3>1, ShrinkStretch, ZenonT(60)
    <3>. QED
      BY Zenon, <2>12, <3>2
  <2>18. Len(a) + 1 \in 1..Len(P) /\ P[Len(a) + 1] = x /\ \A m \in 1..Len(a) : P[m] = a[m]
    BY ONLY <2>8, <2>14, <2>16, MiddleItem DEF b
  <2>19. ASSUME NEW c \in Waiter, s.marker = c
         PROVE  ~Unsent(c, w) /\ \A id \in Owes(c, w) : \E m \in 1..Len(s.run) : s.run[m] = id
    <3>1. MarkerInv(c, w) /\ c = x
      BY Zenon, <2>5, <2>19 DEF IInv
    <3>2. ~Unsent(c, w)
      BY Zenon, <2>18, <3>1 DEF MarkerInv, Absent, P
    <3>3. \A id \in Owes(c, w) : \E m \in 1..((Len(a) + 1) - 1) : P[m] = id
      BY Zenon, <2>18, <3>1 DEF MarkerInv, Behind, P
    <3>4. s.run = a /\ 1..((Len(a) + 1) - 1) = 1..Len(a)
      BY <2>5, <2>14 DEF a
    <3>5. \A id \in Owes(c, w) : \E m \in 1..Len(a) : a[m] = id
      BY ONLY Zenon, <2>18, <3>3, <3>4
    <3>. QED
      BY Zenon, <3>2, <3>4, <3>5
  <2>20. Shrinks(Pending(w), Pending(w)', {x})
    BY Zenon, <2>17 DEF P, O
  <2>. QED
    BY Zenon, <1>11, <2>4, <2>5, <2>9, <2>13, <2>19, <2>20
<1>17. CASE more /\ ~IsMarker(x)
  <2>1. x \in Nat /\ Tail(q) \in Seq(Items) /\ q = <<x>> \o Tail(q)
    BY Zenon, <1>9, <1>17 DEF IsMarker, Items
  <2>2. queue'[w] = Tail(q)
    BY Zenon, <1>8, <1>17
  <2>3. CASE task[x].kind # task[r.first].kind
    <3>1. wk' = [wk EXCEPT ![w] = [wk[w] EXCEPT !.at = "deliver", !.next = x]]
      BY Zenon, <1>17, <2>3 DEF FlushRun
    <3>2. s = [r EXCEPT !.at = "deliver", !.next = x]
      BY Zenon, <1>1, <3>1 DEF TypeOK
    <3>3. s \in Flushers /\ wk' = [wk EXCEPT ![w] = s]
      <4>1. wk' = [wk EXCEPT ![w] = s]
        BY Zenon, <3>1, <3>2
      <4>. HIDE DEF r, s, x
      <4>2. s \in Flushers
        BY Zenon, <1>1, <2>1, <3>2 DEF Flushers
      <4>. QED
        BY Zenon, <4>1, <4>2
    <3>4. s.at = "deliver" /\ s.home = r.home /\ s.run = r.run /\ s.next = x /\ s.marker = None
      BY Zenon, <1>1, <1>3, <3>2 DEF Flushers
    <3>. HIDE DEF s
    <3>5. FlusherOK(s)
      BY Zenon, <1>3, <3>4 DEF FlusherOK, Places
    <3>6. Pending(w)' = Pending(w)
      <4>1. InHand(s) = r.run \o <<x>> \/ (x = None /\ InHand(s) = r.run \o <<>>)
        BY Zenon, <3>4, InHandIs
      <4>2. x # None
        <5>1. x \in Waiter \cup QueuedIn(w)
          <6>1. Lined(Pending(w), QueuedIn(w))
            BY Zenon DEF IInv, PendingInv
          <6>. DEFINE a == r.run
                      t == Tail(q)
          <6>2. a \in Seq(Items) /\ t \in Seq(Items) /\ q = <<x>> \o t /\ x \in Items
            BY Zenon, <1>5, <2>1 DEF Items
          <6>3. Pending(w) = a \o q
            BY Zenon, <1>14
          <6>. HIDE DEF a, t, x, q
          <6>4. Len(a) + 1 \in 1..Len(Pending(w)) /\ Pending(w)[Len(a) + 1] = x
            BY ONLY <6>2, <6>3
          <6>. QED
            BY Zenon, <6>1, <6>4 DEF Lined
        <5>2. None \notin QueuedIn(w)
          BY DEF None, QueuedIn, Queued, Ids
        <5>. QED
          BY Zenon, <1>12, <5>1, <5>2
      <4>3. InHand(s) = r.run \o <<x>>
        BY Zenon, <4>1, <4>2
      <4>. DEFINE a == r.run
                  t == Tail(q)
      <4>4. a \in Seq(Items) /\ t \in Seq(Items) /\ q = <<x>> \o t /\ x \in Items
        BY Zenon, <1>5, <2>1 DEF Items
      <4>5. (a \o <<x>>) \o t = a \o q
        <5>. HIDE DEF a, t, x, q
        <5>. QED
          BY ONLY <4>4, SMTT(60)
      <4>. QED
        BY Zenon, <1>14, <2>2, <4>3, <4>5 DEF Pending, s
    <3>. QED
      BY <1>11, <1>12, <1>13, <3>3, <3>4, <3>5, <3>6, SMTT(60)
  <2>4. CASE task[x].kind = task[r.first].kind
    <3>1. wk' = [wk EXCEPT ![w] = [wk[w] EXCEPT !.run = Append(r.run, x)]]
      BY Zenon, <1>17, <2>4 DEF FlushRun
    <3>2. s = [r EXCEPT !.run = Append(r.run, x)]
      BY Zenon, <1>1, <3>1 DEF TypeOK
    <3>a. Append(r.run, x) \in Seq(Nat) /\ Append(r.run, x) # <<>>
      <4>. DEFINE a == r.run
      <4>1. a \in Seq(Nat)
        BY Zenon, <1>3
      <4>2. x \in Nat
        BY Zenon, <2>1
      <4>. HIDE DEF a, x
      <4>3. Append(a, x) \in Seq(Nat) /\ Len(Append(a, x)) = Len(a) + 1 /\ Len(a) \in Nat
        BY ONLY <4>1, <4>2
      <4>4. Append(a, x) # <<>>
        BY ONLY <4>3
      <4>. QED
        BY Zenon, <4>3, <4>4 DEF a
    <3>3. s \in Flushers /\ wk' = [wk EXCEPT ![w] = s]
      <4>1. wk' = [wk EXCEPT ![w] = s]
        BY Zenon, <3>1, <3>2
      <4>. HIDE DEF r, s, x
      <4>2. s \in Flushers
        BY Zenon, <1>1, <3>a, <3>2 DEF Flushers
      <4>. QED
        BY Zenon, <4>1, <4>2
    <3>4. s.at = "collect" /\ s.home = r.home /\ s.run = Append(r.run, x) /\ s.next = None /\ s.marker = None
      BY Zenon, <1>1, <1>2, <1>3, <3>2 DEF Flushers
    <3>. HIDE DEF s
    <3>5. FlusherOK(s)
      BY Zenon, <3>a, <3>4 DEF FlusherOK, Places
    <3>6. Pending(w)' = Pending(w)
      <4>1. InHand(s) = Append(r.run, x) \o <<>>
        BY Zenon, <3>4, InHandIs
      <4>. DEFINE a == r.run
                  t == Tail(q)
      <4>2. a \in Seq(Items) /\ t \in Seq(Items) /\ q = <<x>> \o t /\ x \in Items
        BY Zenon, <1>5, <2>1 DEF Items
      <4>3. (Append(a, x) \o <<>>) \o t = a \o q
        <5>. HIDE DEF a, t, x, q
        <5>. QED
          BY ONLY <4>2
      <4>. QED
        BY Zenon, <1>14, <2>2, <4>1, <4>3 DEF Pending, s
    <3>. QED
      BY <1>11, <1>12, <1>13, <3>3, <3>4, <3>5, <3>6, SMTT(60)
  <2>. QED
    BY Zenon, <2>3, <2>4
<1>. QED
  BY Zenon, <1>15, <1>16, <1>17

-----------------------------------------------------------------------------
(***************************************************************************)
(* The delivery of a run.                                                  *)
(***************************************************************************)

\* The task that is lost with a batch on a panic.
Lost(w, outcome) == IF outcome = "panic" /\ wk[w].next # None THEN {wk[w].next} ELSE {}

\* What a delivery takes out of the line.
Gone(w, outcome) == Elements(wk[w].run) \cup Lost(w, outcome)

\* The run is the beginning of the line, so what is delivered was queued.
LEMMA RunIsQueued ==
  ASSUME IInv, NEW w \in Worker, wk[w].at \in {"collect", "deliver"}
  PROVE  /\ wk[w].run \in Seq(Nat) /\ Len(wk[w].run) \in Nat /\ Len(wk[w].run) <= Len(Pending(w))
         /\ \A m \in 1..Len(wk[w].run) : Pending(w)[m] = wk[w].run[m]
         /\ Elements(wk[w].run) \subseteq QueuedIn(w)
         /\ wk[w].next # None => wk[w].next \in QueuedIn(w)
<1>. DEFINE r == wk[w]
            a == r.run
            x == r.next
            q == queue[w]
            P == Pending(w)
<1>1. r \in Flushers /\ q \in Seq(Items)
  BY Zenon DEF IInv, TypeOK
<1>2. a \in Seq(Nat) /\ x \in Nat
  BY Zenon, <1>1 DEF Flushers
<1>3. a \in Seq(Items) /\ x \in Items
  BY Zenon, <1>2, RunIsItems DEF Items
<1>4. CASE x = None
  <2>1. P = (a \o <<>>) \o q
    <3>1. InHand(r) = a \o <<>>
      BY Zenon, <1>4, InHandIs
    <3>. QED
      BY Zenon, <3>1 DEF Pending
  <2>. HIDE DEF a, q, P
  <2>2. Len(P) = Len(a) + Len(q) /\ Len(q) \in Nat /\ Len(a) \in Nat
    BY ONLY <1>1, <1>3, <2>1
  <2>3. \A m \in 1..Len(a) : P[m] = a[m]
    BY ONLY <1>1, <1>3, <2>1
  <2>. QED
    <3>1. \A n \in 1..Len(P) : P[n] \in Waiter \cup QueuedIn(w)
      BY Zenon DEF IInv, PendingInv, Lined, P
    <3>2. \A m \in 1..Len(a) : m \in 1..Len(P) /\ a[m] \in Nat
      BY <1>2, <2>2
    <3>3. \A c \in Waiter : c \notin Nat
      BY Zenon, MarkersAreNoTasks
    <3>4. Elements(a) \subseteq QueuedIn(w)
      BY Zenon, <2>3, <3>1, <3>2, <3>3 DEF Elements
    <3>. QED
      BY <1>2, <1>4, <2>2, <2>3, <3>4 DEF a, P
<1>5. CASE x # None
  <2>1. P = (a \o <<x>>) \o q
    <3>1. InHand(r) = a \o <<x>>
      BY Zenon, <1>5, InHandIs
    <3>. QED
      BY Zenon, <3>1 DEF Pending
  <2>. HIDE DEF a, q, P, x
  <2>2. Len(a) + 1 \in 1..Len(P) /\ P[Len(a) + 1] = x /\ \A m \in 1..Len(a) : P[m] = a[m]
    BY ONLY <1>1, <1>3, <2>1, MiddleItem
  <2>3. P \in Seq(Items)
    BY Zenon, PendingIsSeq DEF P, IInv
  <2>4. Len(P) \in Nat /\ Len(a) \in Nat
    BY <1>2, <2>3
  <2>. QED
    <3>1. \A n \in 1..Len(P) : P[n] \in Waiter \cup QueuedIn(w)
      BY Zenon DEF IInv, PendingInv, Lined, P
    <3>2. \A m \in 1..Len(a) : m \in 1..Len(P) /\ a[m] \in Nat
      BY <1>2, <2>2, <2>4
    <3>3. \A c \in Waiter : c \notin Nat
      BY Zenon, MarkersAreNoTasks
    <3>4. Elements(a) \subseteq QueuedIn(w)
      BY Zenon, <2>2, <3>1, <3>2, <3>3 DEF Elements
    <3>5. x \in QueuedIn(w)
      BY Zenon, <1>2, <2>2, <3>1, <3>3
    <3>6. Len(a) <= Len(P)
      BY <2>2, <2>4
    <3>. QED
      BY Zenon, <1>2, <2>2, <2>4, <3>4, <3>5, <3>6 DEF a, P, x
<1>. QED
  BY Zenon, <1>4, <1>5

\* The tasks of a run.
LEMMA RangeIs ==
  ASSUME NEW s \in Seq(Nat)
  PROVE  Range(s) = Elements(s)
BY DEF Range, Elements

\* The tasks of a run and the one that was received behind it.
LEMMA ElementsAppended ==
  ASSUME NEW a \in Seq(Items), NEW x \in Items
  PROVE  Elements(a \o <<x>>) = Elements(a) \cup {x}
<1>. DEFINE b == a \o <<x>>
<1>1. Len(b) = Len(a) + 1 /\ b[Len(a) + 1] = x /\ Len(a) \in Nat /\ \A n \in 1..Len(a) : b[n] = a[n]
  OBVIOUS
<1>. HIDE DEF b
<1>2. ASSUME NEW y \in Elements(b) PROVE y \in Elements(a) \cup {x}
  BY <1>1 DEF Elements
<1>3. ASSUME NEW y \in Elements(a) \cup {x} PROVE y \in Elements(b)
  <2>1. CASE y = x
    <3>1. Len(a) + 1 \in 1..Len(b) /\ b[Len(a) + 1] = y
      BY <1>1, <2>1
    <3>. QED
      BY Zenon, <3>1 DEF Elements
  <2>2. CASE y \in Elements(a)
    <3>1. PICK n \in 1..Len(a) : y = a[n]
      BY Zenon, <2>2 DEF Elements
    <3>2. n \in 1..Len(b) /\ b[n] = y
      BY <1>1, <3>1
    <3>. QED
      BY Zenon, <3>2 DEF Elements
  <2>. QED
    BY Zenon, <2>1, <2>2
<1>4. Elements(b) = Elements(a) \cup {x}
  BY Zenon, <1>2, <1>3
<1>. QED
  BY Zenon, <1>4 DEF b

\* What deliverRun leaves in hand, and what it takes out of the line.
LEMMA DeliverShrinks ==
  ASSUME IInv, TypeOK', NEW w \in Worker, NEW outcome, DeliverRun(w, outcome)
  PROVE  Shrinks(Pending(w), Pending(w)', Gone(w, outcome))
<1>. DEFINE r == wk[w]
            a == r.run
            x == r.next
            q == queue[w]
            s == wk'[w]
            P == Pending(w)
            O == Pending(w)'
<1>1. r \in Flushers /\ q \in Seq(Items) /\ r.at = "deliver"
  BY Zenon DEF IInv, TypeOK, DeliverRun
<1>2. a \in Seq(Items) /\ x \in Items /\ <<>> \in Seq(Items)
  <2>1. a \in Seq(Nat) /\ x \in Nat
    BY Zenon, <1>1 DEF Flushers
  <2>. QED
    BY <2>1, RunIsItems DEF Items
<1>3. P \in Seq(Items) /\ O \in Seq(Items)
  BY Zenon, PendingIsSeq, PendingIsSeqNext DEF IInv
<1>4. \A m, n \in 1..Len(P) : P[m] = P[n] => m = n
  BY Zenon DEF IInv, PendingInv, Lined
<1>5. r.home \in Places /\ queue'[w] = q
  BY Zenon, <1>1 DEF Flushers, DeliverRun
<1>6. s = IF x = None \/ outcome = "panic" THEN AtHome(r.home)
          ELSE [AtHome(r.home) EXCEPT !.at = "flush", !.first = x]
  BY Zenon DEF DeliverRun, IInv, TypeOK
<1>7. CASE x = None
  <2>1. InHand(s) = <<>>
    <3>1. s.at = r.home
      BY <1>6, <1>7 DEF AtHome
    <3>. HIDE DEF s
    <3>. QED
      BY Zenon, <1>5, <3>1, InHandIs
  <2>2. InHand(r) = a \o <<>>
    <3>. HIDE DEF r
    <3>. QED
      BY Zenon, <1>1, <1>7, InHandIs
  <2>3. Gone(w, outcome) = Elements(a)
    BY Zenon, <1>7 DEF Gone, Lost
  <2>4. P = (a \o <<>>) \o q /\ O = <<>> \o q
    BY Zenon, <1>5, <2>1, <2>2 DEF Pending
  <2>. HIDE DEF a, q, P, O
  <2>5. P = (<<>> \o a) \o q
    BY ONLY <1>1, <1>2, <2>4
  <2>6. q \in Seq(Items)
    BY Zenon, <1>1
  <2>7. Shrinks(P, O, Elements(a))
    BY ONLY Zenon, <1>2, <1>3, <1>4, <2>4, <2>5, <2>6, ShrinkStretch
  <2>. QED
    BY Zenon, <2>3, <2>7 DEF P, O
<1>8. CASE x # None /\ outcome = "panic"
  <2>1. InHand(s) = <<>>
    <3>1. s.at = r.home
      BY <1>6, <1>8 DEF AtHome
    <3>. HIDE DEF s
    <3>. QED
      BY Zenon, <1>5, <3>1, InHandIs
  <2>2. InHand(r) = a \o <<x>>
    <3>. HIDE DEF r
    <3>. QED
      BY Zenon, <1>1, <1>8, InHandIs
  <2>3. Gone(w, outcome) = Elements(a \o <<x>>)
    BY Zenon, <1>2, <1>8, ElementsAppended DEF Gone, Lost
  <2>4. P = (a \o <<x>>) \o q /\ O = <<>> \o q
    BY Zenon, <1>5, <2>1, <2>2 DEF Pending
  <2>. DEFINE b == a \o <<x>>
  <2>5. b \in Seq(Items)
    <3>. HIDE DEF a, x
    <3>. QED
      BY ONLY <1>2
  <2>6. q \in Seq(Items) /\ O = <<>> \o q /\ P = b \o q
    BY Zenon, <1>1, <2>4
  <2>. HIDE DEF a, q, P, O, b
  <2>7. P = (<<>> \o b) \o q
    BY ONLY <2>5, <2>6
  <2>8. Shrinks(P, O, Elements(b))
    BY ONLY Zenon, <1>2, <1>3, <1>4, <2>5, <2>6, <2>7, ShrinkStretch
  <2>. QED
    BY Zenon, <2>3, <2>8 DEF P, O, b
<1>9. CASE x # None /\ outcome # "panic"
  <2>1. InHand(s) = <<x>>
    <3>1. s.at = "flush" /\ s.first = x
      BY Zenon, <1>6, <1>9 DEF AtHome
    <3>. HIDE DEF s
    <3>. QED
      BY Zenon, <3>1, InHandIs
  <2>2. InHand(r) = a \o <<x>>
    <3>. HIDE DEF r
    <3>. QED
      BY Zenon, <1>1, <1>9, InHandIs
  <2>3. Gone(w, outcome) = Elements(a)
    BY Zenon, <1>9 DEF Gone, Lost
  <2>4. P = (a \o <<x>>) \o q /\ O = <<x>> \o q /\ q \in Seq(Items)
    BY Zenon, <1>1, <1>5, <2>1, <2>2 DEF Pending
  <2>. DEFINE t == <<x>> \o q
  <2>. HIDE DEF a, q, P, O, x
  <2>5. t \in Seq(Items)
    BY ONLY <1>2, <2>4
  <2>6. P = (<<>> \o a) \o t
    BY ONLY <1>2, <2>4
  <2>7. O = <<>> \o t
    BY ONLY <1>2, <2>4
  <2>. HIDE DEF t
  <2>8. Shrinks(P, O, Elements(a))
    BY ONLY Zenon, <1>2, <1>3, <1>4, <2>5, <2>6, <2>7, ShrinkStretch
  <2>. QED
    BY Zenon, <2>3, <2>8 DEF P, O
<1>. QED
  BY Zenon, <1>7, <1>8, <1>9

Becomes(w, outcome, id) ==
  IF id \in Elements(wk[w].run) THEN FateAfter(outcome)
  ELSE IF id \in Lost(w, outcome) THEN "dropped" ELSE fate[id]

\* The second level holds tasks.
LEMMA LevelType == ASSUME NEW f \in [Key -> {None} \cup Ids] PROVE f \in [Key -> Nat]
<1>1. {None} \cup Ids \subseteq Nat
  BY DEF None, Ids
<1>. QED
  BY Zenon, <1>1

\* What deliverRun changes: the fates of the run and of a task lost in a panic, and
\* the worker, which goes on with the task it received next or goes home.
LEMMA DeliverTypes ==
  ASSUME IInv, NEW w \in Worker, NEW outcome, DeliverRun(w, outcome)
  PROVE  /\ TypeOK'
         /\ UNCHANGED <<task, queue, call, wait, must, closing, racing>>
         /\ \A v \in Worker \ {w} : wk'[v] = wk[v]
         /\ FlusherOK(wk'[w]) /\ wk'[w].home = wk[w].home /\ wk'[w].marker = None
         /\ \A id \in Ids : fate'[id] = Becomes(w, outcome, id)
<1>. DEFINE r == wk[w]
            s == wk'[w]
            a == r.run
            x == r.next
<1>1. TypeOK /\ r \in Flushers /\ r.at = "deliver"
  BY Zenon DEF IInv, TypeOK, DeliverRun
<1>2. a \in Seq(Nat) /\ x \in Nat /\ r.home \in Places /\ r.marker \in Waiter \cup {None}
  BY Zenon, <1>1 DEF Flushers
<1>3. UNCHANGED <<task, queue, call, wait, must, closing, racing>>
  BY Zenon DEF DeliverRun
<1>. DEFINE t == IF x = None \/ outcome = "panic" THEN AtHome(r.home)
                 ELSE [AtHome(r.home) EXCEPT !.at = "flush", !.first = x]
<1>4. wk' = [wk EXCEPT ![w] = t]
  BY Zenon DEF DeliverRun
<1>5. t \in Flushers
  <2>1. AtHome(r.home) \in Flushers
    BY <1>2 DEF AtHome, Flushers, Items, None
  <2>. QED
    BY Zenon, <1>2, <2>1 DEF Flushers, Items
<1>6. t.home = r.home /\ t.marker = None /\ FlusherOK(t)
  <2>1. CASE x = None \/ outcome = "panic"
    <3>1. t = AtHome(r.home)
      BY Zenon, <2>1
    <3>. HIDE DEF t, r
    <3>. QED
      BY Zenon, <1>2, <3>1 DEF AtHome, FlusherOK, Places
  <2>2. CASE ~(x = None \/ outcome = "panic")
    <3>1. t = [AtHome(r.home) EXCEPT !.at = "flush", !.first = x]
      BY Zenon, <2>2
    <3>. HIDE DEF t, r
    <3>. QED
      BY Zenon, <3>1 DEF AtHome, FlusherOK, Places
  <2>. QED
    BY Zenon, <2>1, <2>2
<1>7. s = t /\ wk' \in [Worker -> Flushers] /\ \A v \in Worker \ {w} : wk'[v] = wk[v]
  <2>. HIDE DEF t
  <2>. QED
    BY Zenon, <1>1, <1>4, <1>5 DEF TypeOK
<1>8. l2' \in [Key -> Nat]
  <2>1. l2' \in [Key -> {None} \cup Ids]
    BY Zenon DEF DeliverRun, Applied
  <2>. QED
    BY Zenon, <2>1, LevelType
<1>9. released' \in SUBSET (Waiter \X Worker)
  BY <1>1, <1>2 DEF DeliverRun, TypeOK
<1>10. fate' = [id \in Ids |-> Becomes(w, outcome, id)]
  <2>1. Range(a) = Elements(a)
    BY Zenon, <1>2, RangeIs
  <2>. QED
    BY Zenon, <2>1 DEF DeliverRun, Becomes, Lost
<1>11. ASSUME NEW id \in Ids PROVE Becomes(w, outcome, id) \in Fates
  <2>1. fate[id] \in Fates
    BY <1>1 DEF TypeOK, Ids
  <2>. QED
    BY Zenon, <2>1 DEF Becomes, FateAfter, Fates
<1>12. fate' \in Seq(Fates) /\ Len(fate') = Len(task)
  <2>1. Len(task) \in Nat
    BY <1>1 DEF TypeOK
  <2>2. fate' \in [1..Len(task) -> Fates]
    BY Zenon, <1>10, <1>11 DEF Ids
  <2>. QED
    BY ONLY <2>1, <2>2
<1>13. TypeOK'
  BY Zenon, <1>1, <1>3, <1>7, <1>8, <1>9, <1>12 DEF TypeOK
<1>14. \A id \in Ids : fate'[id] = Becomes(w, outcome, id)
  BY Zenon, <1>10
<1>. QED
  BY Zenon, <1>3, <1>6, <1>7, <1>13, <1>14

\* A delivery takes its tasks out of the line, and out of the queued ones.
LEMMA DeliverServes ==
  ASSUME IInv, NEW w \in Worker, NEW outcome, DeliverRun(w, outcome)
  PROVE  /\ Serves(w, Gone(w, outcome)) /\ Gone(w, outcome) \subseteq QueuedIn(w)
         /\ Ids' = Ids /\ Queued' = Queued \ Gone(w, outcome)
         /\ \A v \in Worker : QueuedIn(v)' = QueuedIn(v) \ Gone(w, outcome)
<1>1. /\ TypeOK' /\ task' = task /\ queue' = queue
      /\ \A v \in Worker \ {w} : wk'[v] = wk[v]
      /\ \A id \in Ids : fate'[id] = Becomes(w, outcome, id)
  BY Zenon, DeliverTypes
<1>2. wk[w].at = "deliver"
  BY Zenon DEF DeliverRun
<1>3. Gone(w, outcome) \subseteq QueuedIn(w)
  BY Zenon, <1>2, RunIsQueued DEF Gone, Lost
<1>4. Ids' = Ids
  BY Zenon, <1>1 DEF Ids
<1>5. ASSUME NEW id \in Ids PROVE fate'[id] = "queued" <=> fate[id] = "queued" /\ id \notin Gone(w, outcome)
  BY Zenon, <1>1 DEF Becomes, FateAfter, Gone
<1>6. Queued' = Queued \ Gone(w, outcome)
  BY Zenon, <1>4, <1>5 DEF Queued
<1>7. ASSUME NEW v \in Worker PROVE QueuedIn(v)' = QueuedIn(v) \ Gone(w, outcome)
  BY Zenon, <1>1, <1>6 DEF QueuedIn
<1>8. ASSUME NEW v \in Worker \ {w} PROVE Unmoved(v)
  <2>1. Pending(v)' = Pending(v)
    BY Zenon, <1>1, PendingSame
  <2>2. QueuedIn(v) \cap QueuedIn(w) = {}
    BY Zenon DEF QueuedIn
  <2>3. QueuedIn(v)' = QueuedIn(v)
    BY Zenon, <1>3, <1>7, <2>2
  <2>. QED
    BY Zenon, <2>1, <2>3 DEF Unmoved
<1>9. Shrinks(Pending(w), Pending(w)', Gone(w, outcome))
  BY Zenon, <1>1, DeliverShrinks
<1>. QED
  BY Zenon, <1>3, <1>4, <1>6, <1>7, <1>8, <1>9 DEF Serves

\* No task is handed over while an older one of its caller and key is queued:
\* the older one would stand before it in the line, and in the run.
LEMMA DeliverOrder ==
  ASSUME IInv, NEW w \in Worker, NEW outcome, DeliverRun(w, outcome)
  PROVE  OrderInv'
<1>. DEFINE a == wk[w].run
            P == Pending(w)
<1>1. task' = task /\ \A id \in Ids : fate'[id] = Becomes(w, outcome, id)
  BY Zenon, DeliverTypes
<1>2. /\ Ids' = Ids /\ Queued' = Queued \ Gone(w, outcome) /\ Gone(w, outcome) \subseteq QueuedIn(w)
  BY Zenon, DeliverServes
<1>3. /\ a \in Seq(Nat) /\ Len(a) \in Nat /\ Len(a) <= Len(P)
      /\ \A m \in 1..Len(a) : P[m] = a[m]
      /\ Elements(a) \subseteq QueuedIn(w)
  BY Zenon, RunIsQueued DEF DeliverRun
<1>4. SUFFICES ASSUME NEW i \in Ids, NEW j \in Ids, SameKey(i, j), fate'[i] = "queued", fate'[j] = "handed"
               PROVE  FALSE
  <2>1. \A i, j : SameKey(i, j)' <=> SameKey(i, j)
    BY Zenon, <1>1, SameKeySame
  <2>. QED
    BY Zenon, <1>2, <2>1 DEF OrderInv
<1>5. fate[i] = "queued" /\ i \notin Elements(a)
  BY Zenon, <1>1, <1>4 DEF Becomes, FateAfter
<1>6. CASE j \notin Elements(a)
  <2>1. fate[j] = "handed"
    BY Zenon, <1>1, <1>4, <1>6 DEF Becomes, FateAfter
  <2>. QED
    BY Zenon, <1>4, <1>5, <2>1 DEF IInv, OrderInv
<1>7. CASE j \in Elements(a)
  <2>1. j \in QueuedIn(w) /\ i \in QueuedIn(w)
    <3>1. j \in QueuedIn(w)
      BY Zenon, <1>3, <1>7
    <3>2. task[i].key = task[j].key
      BY Zenon, <1>4 DEF SameKey
    <3>. QED
      BY Zenon, <1>5, <3>1, <3>2 DEF QueuedIn, Queued
  <2>2. Lined(P, QueuedIn(w))
    BY Zenon DEF IInv, PendingInv
  <2>3. PICK n \in 1..Len(P) : P[n] = i
    BY Zenon, <2>1, <2>2 DEF Lined
  <2>4. PICK m \in 1..Len(a) : a[m] = j
    BY Zenon, <1>7 DEF Elements
  <2>5. Len(P) \in Nat
    BY Zenon, PendingIsSeq DEF IInv
  <2>. HIDE DEF P, a
  <2>6. n \notin 1..Len(a)
    BY Zenon, <1>3, <1>5, <2>3 DEF Elements
  <2>7. m \in 1..Len(P) /\ m < n /\ P[m] = j
    BY <1>3, <2>3, <2>4, <2>5, <2>6
  <2>8. ~SameKey(P[n], P[m])
    BY Zenon, <2>1, <2>2, <2>3, <2>7 DEF Lined
  <2>. QED
    BY Zenon, <1>4, <2>3, <2>7, <2>8
<1>. QED
  BY Zenon, <1>6, <1>7

\* deliverRun preserves the invariant, whether the adapter succeeds, fails or
\* panics.
LEMMA DeliverStep ==
  ASSUME IInv, NEW w \in Worker, NEW outcome, DeliverRun(w, outcome)
  PROVE  IInv'
<1>. DEFINE R == Gone(w, outcome)
<1>1. /\ TypeOK' /\ UNCHANGED <<task, queue, call, wait, must, closing, racing>>
      /\ \A v \in Worker \ {w} : wk'[v] = wk[v]
      /\ FlusherOK(wk'[w]) /\ wk'[w].home = wk[w].home /\ wk'[w].marker = None
      /\ \A id \in Ids : fate'[id] = Becomes(w, outcome, id)
  BY Zenon, DeliverTypes
<1>2. /\ Serves(w, R) /\ R \subseteq QueuedIn(w) /\ Ids' = Ids /\ Queued' = Queued \ R
      /\ \A v \in Worker : QueuedIn(v)' = QueuedIn(v) \ R
  BY Zenon, DeliverServes
<1>3. released' = IF wk[w].marker = None THEN released ELSE released \union {<<wk[w].marker, w>>}
  BY Zenon DEF DeliverRun
<1>4. \A id \in Ids : (fate'[id] = "calling" <=> fate[id] = "calling")
  <2>1. \A id \in R : id \in Ids /\ fate[id] = "queued"
    BY Zenon, <1>2 DEF QueuedIn, Queued
  <2>. QED
    BY Zenon, <1>1, <2>1 DEF Becomes, FateAfter, Gone
<1>5. TypeOK /\ Stopped' = Stopped
  BY Zenon, <1>1 DEF Stopped, IInv
<1>. HIDE DEF R
<1>6. ASSUME NEW v \in Worker PROVE FlusherOK(wk[v])' /\ PendingInv(v)' /\ HomeInv(v)'
  <2>1. PendingInv(v)'
    BY Zenon, <1>1, <1>2, <1>5, LinesServed DEF IInv
  <2>2. FlusherOK(wk'[v])
    <3>1. FlusherOK(wk[v])
      BY Zenon DEF IInv
    <3>2. CASE v = w
      BY Zenon, <1>1, <3>2
    <3>3. CASE v # w
      <4>1. wk'[v] = wk[v]
        BY Zenon, <1>1, <3>3
      <4>. QED
        BY Zenon, <3>1, <4>1
    <3>. QED
      BY Zenon, <3>2, <3>3
  <2>3. wk'[v].home = wk[v].home /\ HomeInv(v)
    BY Zenon, <1>1 DEF IInv
  <2>4. HomeInv(v)'
    BY Zenon, <1>1, <1>2, <1>5, <2>3 DEF HomeInv
  <2>. QED
    BY Zenon, <2>1, <2>2, <2>4
<1>7. ASSUME NEW c \in Waiter, NEW v \in Worker PROVE MarkerInv(c, v)'
  <2>1. Behind(Pending(v), c, Owes(c, v))' /\ (Unsent(c, v) => Absent(Pending(v), c))'
    BY Zenon, <1>1, <1>2, <1>5, MarkersServed DEF IInv
  <2>2. Owes(c, v)' = Owes(c, v) \ R /\ (Unsent(c, v)' <=> Unsent(c, v))
    BY Zenon, <1>1, <1>2 DEF Owes, Unsent
  <2>3. MarkedInv(c, v)
    BY Zenon DEF IInv, MarkerInv
  <2>4. MarkedInv(c, v)'
    <3>1. CASE v # w
      <4>1. wk'[v] = wk[v] /\ (<<c, v>> \in released' <=> <<c, v>> \in released)
        BY Zenon, <1>1, <1>3, <3>1
      <4>. QED
        BY Zenon, <2>2, <2>3, <4>1 DEF MarkedInv
    <3>2. CASE v = w /\ wk[w].marker # c
      <4>1. wk'[v].marker # c /\ (<<c, v>> \in released' <=> <<c, v>> \in released)
        BY Zenon, <1>1, <1>3, <3>2, MarkersAreNoTasks
      <4>. QED
        BY Zenon, <2>2, <2>3, <4>1 DEF MarkedInv
    <3>3. CASE v = w /\ wk[w].marker = c
      <4>1. wk'[v].marker # c
        BY Zenon, <1>1, <3>3, MarkersAreNoTasks
      <4>2. \A id \in Owes(c, w) : \E m \in 1..Len(wk[w].run) : wk[w].run[m] = id
        BY Zenon, <2>3, <3>3 DEF MarkedInv
      <4>3. Owes(c, w) \subseteq R
        BY Zenon, <4>2 DEF R, Gone, Elements
      <4>4. ~Unsent(c, w)
        BY Zenon, <2>3, <3>3 DEF MarkedInv
      <4>. QED
        BY Zenon, <2>2, <3>3, <4>1, <4>3, <4>4 DEF MarkedInv
    <3>. QED
      BY Zenon, <3>1, <3>2, <3>3
  <2>. QED
    BY Zenon, <2>1, <2>4 DEF MarkerInv
<1>8. ASSUME NEW c \in Caller PROVE CallInv(c)'
  <2>1. CallInv(c)
    BY Zenon DEF IInv
  <2>. QED
    BY Zenon, <1>1, <1>2, <1>4, <2>1 DEF CallInv
<1>9. CallingInv'
  BY Zenon, <1>1, <1>2, <1>4 DEF IInv, CallingInv
<1>10. ASSUME NEW c \in Waiter PROVE WaitInv(c)'
  <2>1. WaitInv(c) /\ released \subseteq released'
    BY Zenon, <1>3 DEF IInv
  <2>. QED
    BY Zenon, <1>1, <1>2, <1>4, <2>1 DEF WaitInv
<1>11. OrderInv'
  BY Zenon, DeliverOrder
<1>12. CloseInv'
  <2>1. CloseInv /\ \A v \in Worker : wk'[v].home = wk[v].home
    BY Zenon, <1>1 DEF IInv
  <2>. QED
    BY Zenon, <1>1, <1>5, <2>1 DEF CloseInv
<1>. QED
  BY Zenon, <1>1, <1>6, <1>7, <1>8, <1>9, <1>10, <1>11, <1>12 DEF IInv

=============================================================================
