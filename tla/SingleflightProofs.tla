------------------------- MODULE SingleflightProofs -------------------------
(***************************************************************************)
(* The coalescing of loads, for any number of goroutines, keys, calls and  *)
(* bucket slots: the registry is exact, no key is loaded twice at a time,  *)
(* only live flights are joined and only final results are read.           *)
(***************************************************************************)
EXTENDS Singleflight, TLAPS

Results == Proc \cup {"L2", "absent", "error", "panic"}

FlightCalls ==
  [key : Key \cup {"none"}, res : Results, joined : BOOLEAN, over : BOOLEAN,
   waiter : {"nil", "open", "closed"}, at : 0..FlightSlots]

Owning == {"recheck", "resolve", "loading", "release", "finish", "wake"}

Waiting == {"wait", "publish", "again", "park"}

Callers ==
  [at : {"idle", "look", "claim", "done"} \cup Owning \cup Waiting, op : Ops \cup {"none"},
   keys : Seq(Key), i : Nat \ {0}, owned : Seq(Flights), joined : Seq(Flights),
   todo : SUBSET Key, hits : SUBSET Key, read : SUBSET (Flights \X Results)]

TypeOK ==
  /\ mem \in [Key -> Proc \cup {"none", "L2"}]
  /\ slot \in [1..FlightSlots -> Flights \cup {<<>>}]
  /\ spill \in SUBSET Flights
  /\ flight \in [Flights -> FlightCalls]
  /\ pr \in [Proc -> Callers]

\* The flights of p that the registry holds.
Held(p) == IF pr[p].at \in {"finish", "wake"} THEN Range(Tail(pr[p].owned)) ELSE Range(pr[p].owned)

\* What a caller has claimed and joined, where it is.
CallerOK(r) ==
  /\ r.at \in {"look", "claim"} => \E c \in Calls : r.keys = c.keys /\ r.i \in 1..Len(c.keys)
  /\ r.at \in Owning => r.owned # <<>>
  /\ r.at \in Waiting => r.joined # <<>>
  /\ r.at \in Waiting \cup {"idle", "done"} => r.owned = <<>>

CallerInv(p) ==
  /\ CallerOK(pr[p])
  /\ pr[p].at = "idle" => pr[p].i = 1
  /\ pr[p].at = "loading" => pr[p].todo \subseteq OwnedKeys(p)

\* The flights it owns are its own, of keys it is past, and distinct.
OwnedInv(p) ==
  /\ \A n \in 1..Len(pr[p].owned) :
       /\ pr[p].owned[n][1] = p /\ flight[pr[p].owned[n]].key \in Key
       /\ pr[p].at \in {"look", "claim"} => pr[p].owned[n][2] < pr[p].i
       /\ flight[pr[p].owned[n]].over => pr[p].at = "wake" /\ n = 1
  /\ \A m, n \in 1..Len(pr[p].owned) : pr[p].owned[m] = pr[p].owned[n] => m = n
  /\ pr[p].at = "wake" => flight[Head(pr[p].owned)].over
  /\ pr[p].at \in {"idle", "look", "claim"} =>
       \A f \in Flights : f[1] = p /\ f[2] >= pr[p].i => ~flight[f].over

\* The registry: who is in it, where, and once per key.
RegistryInv ==
  /\ Registered = UNION {Held(p) : p \in Proc}
  /\ \A s \in 1..FlightSlots : slot[s] # <<>> => flight[slot[s]].at = s
  /\ \A f \in spill : flight[f].at = 0
  /\ \A f, g \in Registered : flight[f].key = flight[g].key => f = g

ReadInv ==
  /\ \A f \in Flights : flight[f].waiter = "closed" => flight[f].over
  /\ ReadsFinal

IInv == TypeOK /\ (\A p \in Proc : CallerInv(p) /\ OwnedInv(p)) /\ RegistryInv /\ ReadInv

-----------------------------------------------------------------------------
(***************************************************************************)
(* Sequences of flights, and the registry as a set.                        *)
(***************************************************************************)

\* The range of a sequence is the set of its elements.
LEMMA RangeMember ==
  ASSUME NEW S, NEW s \in Seq(S)
  PROVE  /\ Range(s) \subseteq S
         /\ \A x : x \in Range(s) <=> \E n \in 1..Len(s) : s[n] = x
BY DEF Range

\* A call that has claimed nothing holds nothing.
LEMMA RangeEmpty == Range(<<>>) = {}
BY DEF Range

\* claim appends to the flights owned or joined.
LEMMA RangeAppend ==
  ASSUME NEW S, NEW s \in Seq(S), NEW x \in S
  PROVE  /\ Append(s, x) \in Seq(S) /\ Append(s, x) # <<>>
         /\ Len(Append(s, x)) = Len(s) + 1 /\ Append(s, x)[Len(s) + 1] = x
         /\ \A n \in 1..Len(s) : Append(s, x)[n] = s[n]
         /\ Range(Append(s, x)) = Range(s) \cup {x}
<1>1. /\ Append(s, x) \in Seq(S) /\ Len(Append(s, x)) = Len(s) + 1 /\ Len(s) \in Nat
      /\ Append(s, x)[Len(s) + 1] = x /\ \A n \in 1..Len(s) : Append(s, x)[n] = s[n]
  OBVIOUS
<1>2. Append(s, x) # <<>>
  BY <1>1
<1>3. ASSUME NEW y PROVE y \in Range(Append(s, x)) <=> y \in Range(s) \cup {x}
  <2>1. y \in Range(Append(s, x)) <=> \E n \in 1..Len(s) + 1 : Append(s, x)[n] = y
    <3>1. y \in Range(Append(s, x)) <=> \E n \in 1..Len(Append(s, x)) : Append(s, x)[n] = y
      BY ONLY Zenon, <1>1, RangeMember
    <3>. QED  BY ONLY Zenon, <1>1, <3>1
  <2>2. y \in Range(s) <=> \E n \in 1..Len(s) : s[n] = y
    BY Zenon, RangeMember
  <2>. QED  BY <1>1, <2>1, <2>2
<1>. QED  BY Zenon, <1>1, <1>2, <1>3

\* An owner releases its flights, and a waiter takes its results, from the head.
LEMMA RangeTail ==
  ASSUME NEW S, NEW s \in Seq(S), s # <<>>
  PROVE  /\ Len(s) >= 1 /\ Head(s) = s[1] /\ Head(s) \in S /\ Tail(s) \in Seq(S)
         /\ Len(Tail(s)) = Len(s) - 1
         /\ \A n \in 1..Len(s) - 1 : Tail(s)[n] = s[n + 1]
         /\ Range(s) = Range(Tail(s)) \cup {Head(s)}
<1>1. /\ Len(s) \in Nat /\ Len(s) >= 1 /\ Head(s) = s[1] /\ Head(s) \in S /\ Tail(s) \in Seq(S)
      /\ Len(Tail(s)) = Len(s) - 1 /\ \A n \in 1..Len(s) - 1 : Tail(s)[n] = s[n + 1]
  OBVIOUS
<1>2. ASSUME NEW y PROVE y \in Range(s) <=> y \in Range(Tail(s)) \cup {Head(s)}
  <2>1. y \in Range(Tail(s)) <=> \E n \in 1..Len(s) - 1 : s[n + 1] = y
    <3>1. y \in Range(Tail(s)) <=> \E n \in 1..Len(Tail(s)) : Tail(s)[n] = y
      BY ONLY <1>1, RangeMember, ZenonT(60)
    <3>. QED  BY ONLY Zenon, <1>1, <3>1
  <2>2. y \in Range(s) <=> \E n \in 1..Len(s) : s[n] = y
    BY Zenon, RangeMember
  <2>3. ASSUME NEW n \in 1..Len(s), s[n] = y PROVE y \in Range(Tail(s)) \cup {Head(s)}
    <3>1. CASE n = 1
      BY Zenon, <1>1, <2>3, <3>1
    <3>2. CASE n # 1
      <4>1. n - 1 \in 1..Len(s) - 1 /\ (n - 1) + 1 = n
        BY <1>1, <3>2
      <4>. QED  BY Zenon, <2>1, <2>3, <4>1
    <3>. QED  BY Zenon, <3>1, <3>2
  <2>. QED  BY <1>1, <2>1, <2>2, <2>3
<1>. QED  BY Zenon, <1>1, <1>2

\* A flight is not the empty slot; it names its owner and the index of its key.
LEMMA FlightIndex ==
  /\ \A f \in Flights : f # <<>> /\ f[1] \in Proc /\ f[2] \in Nat \ {0} /\ f = <<f[1], f[2]>>
  /\ \A p \in Proc, c \in Calls : \A i \in 1..Len(c.keys) : <<p, i>> \in Flights
<1>1. \A c \in Calls : c.keys \in Seq(Key)
  BY Zenon, SingleflightAssumption
<1>2. \A c \in Calls : DOMAIN c.keys = 1..Len(c.keys) /\ Len(c.keys) \in Nat
  BY <1>1
<1>3. \A i \in UNION {DOMAIN c.keys : c \in Calls} : i \in Nat \ {0}
  BY <1>2
<1>4. \A f \in Flights : f # <<>> /\ f[1] \in Proc /\ f[2] \in Nat \ {0} /\ f = <<f[1], f[2]>>
  BY <1>3 DEF Flights
<1>5. \A p \in Proc, c \in Calls : \A i \in 1..Len(c.keys) : <<p, i>> \in Flights
  BY Zenon, <1>2 DEF Flights
<1>. QED  BY Zenon, <1>4, <1>5

\* A flight is registered in the overflow map or in a slot of the bucket.
LEMMA RegisteredMember ==
  \A f : f \in Registered <=> f \in spill \/ \E s \in 1..FlightSlots : slot[s] = f /\ f # <<>>
BY Zenon DEF Registered

-----------------------------------------------------------------------------
(***************************************************************************)
(* The inductive invariant.                                                *)
(***************************************************************************)

\* A goroutine starts, and a flight is allocated, in a state of its type.
LEMMA IdleTypes == Idle \in Callers /\ NoFlight \in FlightCalls
<1>1. <<>> \in Seq(Key) /\ <<>> \in Seq(Flights)
  OBVIOUS
<1>2. Idle \in Callers
  BY <1>1 DEF Idle, Callers
<1>3. NoFlight \in FlightCalls
  BY SingleflightAssumption DEF NoFlight, FlightCalls, Results
<1>. QED  BY Zenon, <1>2, <1>3

\* The invariant holds before any call begins.
LEMMA InitIInv == Init => IInv
<1>. SUFFICES ASSUME Init PROVE IInv
  BY Zenon
<1>1. TypeOK
  BY Zenon, IdleTypes DEF Init, TypeOK
<1>2. ASSUME NEW p \in Proc
      PROVE  pr[p].at = "idle" /\ pr[p].owned = <<>> /\ pr[p].read = {} /\ pr[p].i = 1
  BY Zenon DEF Init, Idle
<1>3. \A f \in Flights : ~flight[f].over /\ flight[f].waiter = "nil"
  BY Zenon DEF Init, NoFlight
<1>4. ASSUME NEW p \in Proc PROVE CallerInv(p)
  BY Zenon, <1>2 DEF CallerInv, CallerOK, Owning, Waiting
<1>5. ASSUME NEW p \in Proc PROVE OwnedInv(p)
  <2>1. Len(pr[p].owned) = 0
    BY <1>2
  <2>. QED  BY <1>2, <1>3, <2>1 DEF OwnedInv
<1>6. Registered = {} /\ spill = {} /\ \A s \in 1..FlightSlots : slot[s] = <<>>
  BY Zenon, RegisteredMember DEF Init
<1>7. \A p \in Proc : Held(p) = {}
  BY Zenon, <1>2, RangeEmpty DEF Held
<1>8. RegistryInv
  BY Zenon, <1>6, <1>7 DEF RegistryInv
<1>9. ReadInv
  BY Zenon, <1>2, <1>3 DEF ReadInv, ReadsFinal
<1>. QED  BY Zenon, <1>1, <1>4, <1>5, <1>8, <1>9 DEF IInv

\* A step that leaves the keys of the flights, where they are parked, whether they
\* are over, and the results of those that are.
SameFlights ==
  /\ flight' \in [Flights -> FlightCalls]
  /\ \A f \in Flights :
       /\ flight'[f].key = flight[f].key /\ flight'[f].over = flight[f].over
       /\ flight'[f].at = flight[f].at
       /\ flight'[f].waiter = "closed" => flight[f].waiter = "closed"
       /\ flight[f].over => flight'[f].res = flight[f].res

\* Caller p goes on as r, without claiming or releasing a flight.
MovesTo(p, r) ==
  /\ UNCHANGED <<slot, spill>> /\ pr' = [pr EXCEPT ![p] = r]
  /\ r \in Callers /\ CallerOK(r) /\ r.owned = pr[p].owned
  /\ pr[p].at \notin {"finish", "wake"} /\ r.at \notin {"finish", "wake", "idle"}
  /\ r.at \in {"look", "claim"} => pr[p].at \in {"idle", "look", "claim"} /\ pr[p].i <= r.i
  /\ r.at = "loading" => r.todo \subseteq OwnedKeys(p)
  /\ \A x \in r.read : x \in pr[p].read \/ (flight[x[1]].over /\ flight[x[1]].res = x[2])

\* A step that touches no flight leaves them all as they were.
LEMMA SameFlight == TypeOK /\ UNCHANGED flight => SameFlights
BY Zenon DEF TypeOK, SameFlights

\* Such a step keeps the invariant.
LEMMA LocalStep ==
  ASSUME IInv, NEW p \in Proc, NEW r, MovesTo(p, r), SameFlights,
         mem' \in [Key -> Proc \cup {"none", "L2"}]
  PROVE  IInv'
<1>. USE DEF MovesTo, SameFlights
<1>1. /\ TypeOK /\ pr \in [Proc -> Callers] /\ RegistryInv /\ ReadInv
      /\ \A q \in Proc : CallerInv(q) /\ OwnedInv(q) /\ pr[q].owned \in Seq(Flights)
  BY Zenon DEF IInv, TypeOK, Callers
<1>2. pr'[p] = r /\ \A q \in Proc : q # p => pr'[q] = pr[q]
  BY Zenon, <1>1
<1>3. \A q \in Proc : pr'[q].owned = pr[q].owned
  BY Zenon, <1>2
<1>4. TypeOK'
  BY Zenon, <1>1 DEF TypeOK
<1>5. \A q \in Proc : Held(q)' = Held(q)
  BY <1>2, <1>3 DEF Held
<1>6. Registered' = Registered /\ Registered \subseteq Flights
  BY <1>1 DEF Registered, TypeOK
<1>7. RegistryInv'
  <2>1. Registered' = UNION {Held(q)' : q \in Proc}
    BY <1>1, <1>5, <1>6 DEF RegistryInv
  <2>2. \A s \in 1..FlightSlots : slot[s] # <<>> => slot[s] \in Flights
    BY <1>1 DEF TypeOK
  <2>3. \A s \in 1..FlightSlots : slot'[s] # <<>> => flight'[slot'[s]].at = s
    BY <1>1, <2>2, ZenonT(60) DEF RegistryInv
  <2>4. \A f \in spill' : flight'[f].at = 0
    BY Zenon, <1>1 DEF RegistryInv, TypeOK
  <2>5. \A f, g \in Registered' : flight'[f].key = flight'[g].key => f = g
    BY <1>1, <1>6 DEF RegistryInv
  <2>. QED  BY Zenon, <2>1, <2>3, <2>4, <2>5 DEF RegistryInv
<1>8. ASSUME NEW q \in Proc PROVE OwnedKeys(q)' = OwnedKeys(q)
  <2>1. Range(pr[q].owned) \subseteq Flights
    BY Zenon, <1>1, RangeMember
  <2>. QED  BY <1>3, <2>1 DEF OwnedKeys
<1>9. ASSUME NEW q \in Proc PROVE CallerInv(q)'
  <2>1. CASE q = p
    <3>1. CallerOK(pr[q])' /\ pr'[q].at # "idle"
      BY <1>2, <2>1 DEF CallerOK
    <3>2. pr'[q].at = "loading" => pr'[q].todo \subseteq OwnedKeys(q)'
      BY <1>2, <1>8, <2>1
    <3>. QED  BY Zenon, <3>1, <3>2 DEF CallerInv
  <2>2. CASE q # p
    <3>1. CallerOK(pr[q])'
      BY <1>1, <1>2, <2>2 DEF CallerInv, CallerOK
    <3>. QED  BY <1>1, <1>2, <1>8, <2>2, <3>1 DEF CallerInv
  <2>. QED  BY Zenon, <2>1, <2>2
<1>10. ASSUME NEW q \in Proc PROVE OwnedInv(q)'
  <2>1. /\ OwnedInv(q) /\ pr'[q].owned = pr[q].owned
        /\ \A n \in 1..Len(pr[q].owned) : pr[q].owned[n] \in Flights
    BY <1>1, <1>3, SMTT(60)
  <2>2. CASE q = p
    <3>1. pr[p].at = "idle" => Len(pr[p].owned) = 0
      BY <1>1 DEF CallerInv, CallerOK
    <3>2. pr[p].i \in Nat /\ r.i \in Nat /\ \A f \in Flights : f[2] \in Nat
      BY Zenon, <1>1, FlightIndex DEF Callers
    <3>3. pr'[q] = r /\ pr'[q].at # "wake"
      BY Zenon, <1>2, <2>2
    <3>4. ASSUME NEW n \in 1..Len(pr[p].owned)
          PROVE  /\ pr[p].owned[n][1] = p /\ flight'[pr[p].owned[n]].key \in Key
                 /\ r.at \in {"look", "claim"} => pr[p].owned[n][2] < r.i
                 /\ ~flight'[pr[p].owned[n]].over
      <4>1. /\ pr[p].owned[n] \in Flights /\ pr[p].owned[n][1] = p /\ ~flight[pr[p].owned[n]].over
            /\ flight[pr[p].owned[n]].key \in Key
        BY <2>1, <2>2, <3>4 DEF OwnedInv
      <4>2. pr[p].at \in {"look", "claim"} => pr[p].owned[n][2] < pr[p].i
        BY Zenon, <2>1, <2>2, <3>4 DEF OwnedInv
      <4>3. pr[p].at # "idle"
        BY <3>1, <3>4
      <4>4. pr[p].owned[n][2] \in Nat
        BY Zenon, <3>2, <4>1
      <4>5. r.at \in {"look", "claim"} => pr[p].owned[n][2] < r.i
        BY <3>2, <4>2, <4>3, <4>4
      <4>. QED  BY Zenon, <4>1, <4>5
    <3>5. ASSUME r.at \in {"look", "claim"}, NEW f \in Flights, f[1] = p, f[2] >= r.i
          PROVE  ~flight'[f].over
      BY <2>1, <2>2, <3>2, <3>5, SMTT(60) DEF OwnedInv
    <3>. QED  BY <2>1, <2>2, <3>3, <3>4, <3>5 DEF OwnedInv
  <2>3. CASE q # p
    <3>1. pr'[q] = pr[q]
      BY Zenon, <1>2, <2>3
    <3>2. pr[q].at = "wake" => Head(pr[q].owned) \in Flights
      <4>1. ASSUME pr[q].at = "wake" PROVE pr[q].owned # <<>>
        BY Zenon, <1>1, <4>1 DEF CallerInv, CallerOK, Owning
      <4>. QED  BY Zenon, <1>1, <4>1, RangeTail
    <3>. QED  BY <2>1, <3>1, <3>2, SMTT(60) DEF OwnedInv
  <2>. QED  BY Zenon, <2>2, <2>3
<1>11. ReadInv'
  <2>1. ASSUME NEW q \in Proc, NEW x \in pr'[q].read
        PROVE  x[1] \in Flights /\ flight[x[1]].over /\ flight[x[1]].res = x[2]
    <3>1. x[1] \in Flights
      <4>1. pr'[q] \in Callers
        BY Zenon, <1>1, <1>2
      <4>. QED  BY <4>1 DEF Callers
    <3>2. \A y \in pr[q].read : flight[y[1]].over /\ flight[y[1]].res = y[2]
      BY Zenon, <1>1 DEF ReadInv, ReadsFinal
    <3>3. CASE q = p
      BY <1>2, <2>1, <3>1, <3>2, <3>3
    <3>4. CASE q # p
      BY Zenon, <1>2, <2>1, <3>1, <3>2, <3>4
    <3>. QED  BY Zenon, <3>3, <3>4
  <2>2. ASSUME NEW q \in Proc, NEW x \in pr'[q].read
        PROVE  flight'[x[1]].over /\ flight'[x[1]].res = x[2]
    BY Zenon, <2>1, <2>2
  <2>3. ReadsFinal'
    BY Zenon, <2>2 DEF ReadsFinal
  <2>4. \A f \in Flights : flight'[f].waiter = "closed" => flight'[f].over
    BY Zenon, <1>1 DEF ReadInv
  <2>. QED  BY Zenon, <2>3, <2>4 DEF ReadInv
<1>. QED  BY Zenon, <1>4, <1>7, <1>9, <1>10, <1>11 DEF IInv

\* Where a call goes when a key is settled keeps its flights, and fits them.
LEMMA AfterKeyProps ==
  ASSUME NEW r \in Callers, NEW c \in Calls, r.keys = c.keys, r.i \in 1..Len(c.keys)
  PROVE  /\ AfterKey(r) \in Callers /\ CallerOK(AfterKey(r))
         /\ AfterKey(r).owned = r.owned /\ AfterKey(r).joined = r.joined
         /\ AfterKey(r).read = r.read
         /\ AfterKey(r).at \notin {"finish", "wake", "idle", "loading"}
         /\ AfterKey(r).at \in {"look", "claim"} => AfterKey(r).i = r.i + 1
<1>1. /\ r.i \in Nat \ {0} /\ r.i + 1 \in Nat \ {0} /\ Len(c.keys) \in Nat
      /\ r.i < Len(r.keys) => r.i + 1 \in 1..Len(c.keys)
  <2>1. c.keys \in Seq(Key)
    BY Zenon, SingleflightAssumption
  <2>. QED  BY <2>1 DEF Callers
<1>2. ASSUME NEW at \in {"look", "claim", "recheck", "resolve", "wait", "done"}
      PROVE  /\ [r EXCEPT !.at = at] \in Callers /\ [r EXCEPT !.at = at].at = at
             /\ [r EXCEPT !.at = at].owned = r.owned /\ [r EXCEPT !.at = at].joined = r.joined
             /\ [r EXCEPT !.at = at].read = r.read
  BY ZenonT(60) DEF Callers, Owning, Waiting
<1>3. CASE r.i < Len(r.keys)
  <2>. DEFINE x == IF r.op = "brefresh" THEN "claim" ELSE "look"
              a == [r EXCEPT !.i = r.i + 1, !.at = x]
  <2>1. AfterKey(r) = a
    BY Zenon, <1>3 DEF AfterKey
  <2>2. /\ a \in Callers /\ a.owned = r.owned /\ a.joined = r.joined /\ a.read = r.read
        /\ a.at = x /\ a.i = r.i + 1 /\ a.keys = r.keys
    BY <1>1, ZenonT(60) DEF Callers
  <2>3. x \in {"look", "claim"}
    BY Zenon
  <2>. HIDE DEF a, x
  <2>4. CallerOK(a)
    BY Zenon, <1>1, <1>3, <2>2, <2>3 DEF CallerOK, Owning, Waiting
  <2>. QED  BY Zenon, <2>1, <2>2, <2>3, <2>4
<1>4. CASE ~(r.i < Len(r.keys)) /\ r.owned # <<>>
  <2>. DEFINE x == IF r.op = "load" THEN "recheck" ELSE "resolve"
              a == [r EXCEPT !.at = x]
  <2>1. AfterKey(r) = a
    BY Zenon, <1>4 DEF AfterKey
  <2>2. x \in {"recheck", "resolve"}
    BY Zenon
  <2>3. a \in Callers /\ a.at = x /\ a.owned = r.owned /\ a.joined = r.joined /\ a.read = r.read
    BY <1>2, <2>2
  <2>. HIDE DEF a, x
  <2>4. CallerOK(a)
    BY Zenon, <1>4, <2>2, <2>3 DEF CallerOK, Owning, Waiting
  <2>. QED  BY Zenon, <2>1, <2>2, <2>3, <2>4
<1>5. CASE ~(r.i < Len(r.keys)) /\ r.owned = <<>>
  <2>. DEFINE x == IF r.joined # <<>> /\ r.op \in {"load", "batch"} THEN "wait" ELSE "done"
              a == [r EXCEPT !.at = x]
  <2>1. AfterKey(r) = a
    BY Zenon, <1>5 DEF AfterKey
  <2>2. x \in {"wait", "done"} /\ (x = "wait" => r.joined # <<>>)
    BY Zenon
  <2>3. a \in Callers /\ a.at = x /\ a.owned = r.owned /\ a.joined = r.joined /\ a.read = r.read
    BY Zenon, <1>2, <2>2
  <2>. HIDE DEF a, x
  <2>4. CallerOK(a)
    BY Zenon, <1>5, <2>2, <2>3 DEF CallerOK, Owning, Waiting
  <2>. QED  BY Zenon, <2>1, <2>2, <2>3, <2>4
<1>. QED  BY Zenon, <1>3, <1>4, <1>5

\* Calls begin, look at memory and join flights that are running.
LEMMA BeginStep ==
  ASSUME IInv, NEW p \in Proc, NEW c \in Calls, Begin(p, c)
  PROVE  IInv'
<1>1. TypeOK /\ CallerInv(p) /\ pr[p].at = "idle"
  BY Zenon DEF IInv, Begin
<1>2. pr[p].i = 1 /\ pr[p].owned = <<>>
  BY Zenon, <1>1 DEF CallerInv, CallerOK
<1>3. c.op \in Ops /\ c.keys \in Seq(Key) /\ c.keys # <<>>
  BY Zenon, SingleflightAssumption
<1>. DEFINE x == IF c.op \in {"load", "batch"} THEN "look" ELSE "claim"
            r == [Idle EXCEPT !.op = c.op, !.keys = c.keys, !.at = x]
<1>4. x \in {"look", "claim"}
  BY Zenon
<1>5. pr' = [pr EXCEPT ![p] = r] /\ UNCHANGED <<mem, slot, spill, flight>>
  BY Zenon DEF Begin
<1>. HIDE DEF x
<1>6. /\ r \in Callers /\ r.at = x /\ r.owned = <<>> /\ r.i = 1 /\ r.keys = c.keys /\ r.read = {}
  BY Zenon, <1>3, <1>4, IdleTypes DEF Idle, Callers
<1>. HIDE DEF r
<1>7. CallerOK(r)
  <2>1. 1 \in 1..Len(c.keys)
    BY <1>3
  <2>. QED  BY Zenon, <1>4, <1>6, <2>1 DEF CallerOK, Owning, Waiting
<1>8. mem' \in [Key -> Proc \cup {"none", "L2"}] /\ SameFlights
  BY Zenon, <1>1, <1>5, SameFlight DEF TypeOK
<1>9. MovesTo(p, r)
  BY <1>1, <1>2, <1>4, <1>5, <1>6, <1>7 DEF MovesTo
<1>. QED  BY Zenon, <1>8, <1>9, LocalStep

\* getMemory answers for a key, or the call goes on to claim it.
LEMMA LookStep ==
  ASSUME IInv, NEW p \in Proc, Look(p)
  PROVE  IInv'
<1>1. TypeOK /\ CallerInv(p) /\ pr[p].at = "look" /\ pr[p] \in Callers
  BY Zenon DEF IInv, Look, TypeOK
<1>2. PICK c \in Calls : pr[p].keys = c.keys /\ pr[p].i \in 1..Len(c.keys)
  BY Zenon, <1>1 DEF CallerInv, CallerOK
<1>3. UNCHANGED <<mem, slot, spill, flight>>
  BY Zenon DEF Look
<1>4. mem' \in [Key -> Proc \cup {"none", "L2"}] /\ SameFlights
  BY Zenon, <1>1, <1>3, SameFlight DEF TypeOK
<1>5. pr[p].i \in Nat
  BY Zenon, <1>1 DEF Callers
<1>6. CASE mem[pr[p].keys[pr[p].i]] = "none"
  <2>. DEFINE r == [pr[p] EXCEPT !.at = "claim"]
  <2>1. pr' = [pr EXCEPT ![p] = r]
    BY Zenon, <1>6 DEF Look
  <2>2. /\ r \in Callers /\ r.at = "claim" /\ r.owned = pr[p].owned /\ r.i = pr[p].i
        /\ r.keys = pr[p].keys /\ r.read = pr[p].read
    BY Zenon, <1>1 DEF Callers
  <2>. HIDE DEF r
  <2>3. CallerOK(r)
    BY Zenon, <1>2, <2>2 DEF CallerOK, Owning, Waiting
  <2>4. MovesTo(p, r)
    BY <1>1, <1>3, <1>5, <2>1, <2>2, <2>3 DEF MovesTo
  <2>. QED  BY Zenon, <1>4, <2>4, LocalStep
<1>7. CASE mem[pr[p].keys[pr[p].i]] # "none"
  <2>. DEFINE r == AfterKey(pr[p])
  <2>1. pr' = [pr EXCEPT ![p] = r]
    BY Zenon, <1>7 DEF Look
  <2>2. /\ r \in Callers /\ CallerOK(r) /\ r.owned = pr[p].owned /\ r.read = pr[p].read
        /\ r.at \notin {"finish", "wake", "idle", "loading"}
        /\ r.at \in {"look", "claim"} => r.i = pr[p].i + 1
    BY Zenon, <1>1, <1>2, AfterKeyProps
  <2>. HIDE DEF r
  <2>3. MovesTo(p, r)
    BY <1>1, <1>3, <1>5, <2>1, <2>2 DEF MovesTo
  <2>. QED  BY Zenon, <1>4, <2>3, LocalStep
<1>. QED  BY Zenon, <1>6, <1>7

\* A flight is joined, or its channel published.
LEMMA FlightJoined ==
  ASSUME TypeOK, NEW f \in Flights,
         \/ flight' = [flight EXCEPT ![f].joined = TRUE]
         \/ flight' = [flight EXCEPT ![f].waiter = IF @ = "nil" THEN "open" ELSE @]
  PROVE  SameFlights
<1>1. flight \in [Flights -> FlightCalls]
  BY Zenon DEF TypeOK
<1>2. ASSUME NEW x \in FlightCalls, flight' = [flight EXCEPT ![f] = x],
             x.key = flight[f].key, x.over = flight[f].over, x.at = flight[f].at,
             x.waiter = "closed" => flight[f].waiter = "closed", x.res = flight[f].res
      PROVE  SameFlights
  <2>1. flight'[f] = x /\ \A g \in Flights : g # f => flight'[g] = flight[g]
    BY Zenon, <1>1, <1>2
  <2>2. flight' \in [Flights -> FlightCalls]
    BY Zenon, <1>1, <1>2
  <2>. QED  BY Zenon, <1>2, <2>1, <2>2 DEF SameFlights
<1>3. flight[f] \in FlightCalls
  BY Zenon, <1>1
<1>4. CASE flight' = [flight EXCEPT ![f].joined = TRUE]
  <2>. DEFINE x == [flight[f] EXCEPT !.joined = TRUE]
  <2>1. /\ x \in FlightCalls /\ x.key = flight[f].key /\ x.over = flight[f].over
        /\ x.at = flight[f].at /\ x.waiter = flight[f].waiter /\ x.res = flight[f].res
    BY Zenon, <1>3 DEF FlightCalls
  <2>2. flight' = [flight EXCEPT ![f] = x]
    BY Zenon, <1>4
  <2>. QED  BY Zenon, <1>2, <2>1, <2>2
<1>5. CASE flight' = [flight EXCEPT ![f].waiter = IF @ = "nil" THEN "open" ELSE @]
  <2>. DEFINE w == IF flight[f].waiter = "nil" THEN "open" ELSE flight[f].waiter
              x == [flight[f] EXCEPT !.waiter = w]
  <2>1. w \in {"nil", "open", "closed"} /\ (w = "closed" => flight[f].waiter = "closed")
    BY Zenon, <1>3 DEF FlightCalls
  <2>2. flight' = [flight EXCEPT ![f] = x]
    BY Zenon, <1>5
  <2>. HIDE DEF w
  <2>3. /\ x \in FlightCalls /\ x.key = flight[f].key /\ x.over = flight[f].over
        /\ x.at = flight[f].at /\ x.waiter = w /\ x.res = flight[f].res
    BY Zenon, <1>3, <2>1 DEF FlightCalls
  <2>. QED  BY Zenon, <1>2, <2>1, <2>2, <2>3
<1>. QED  BY Zenon, <1>4, <1>5

\* Results are assigned to flights that are not over.
LEMMA FlightResults ==
  ASSUME TypeOK, flight' = [f \in Flights |-> flight'[f]],
         \A f \in Flights : \/ flight'[f] = flight[f]
                            \/ ~flight[f].over /\ \E v \in Results : flight'[f] = [flight[f] EXCEPT !.res = v]
  PROVE  SameFlights
<1>1. flight \in [Flights -> FlightCalls]
  BY Zenon DEF TypeOK
<1>2. ASSUME NEW f \in Flights
      PROVE  /\ flight'[f] \in FlightCalls
             /\ flight'[f].key = flight[f].key /\ flight'[f].over = flight[f].over
             /\ flight'[f].at = flight[f].at /\ flight'[f].waiter = flight[f].waiter
             /\ flight[f].over => flight'[f].res = flight[f].res
  <2>1. flight[f] \in FlightCalls
    BY Zenon, <1>1
  <2>2. ASSUME ~flight[f].over, NEW v \in Results, flight'[f] = [flight[f] EXCEPT !.res = v]
        PROVE  /\ flight'[f] \in FlightCalls
               /\ flight'[f].key = flight[f].key /\ flight'[f].over = flight[f].over
               /\ flight'[f].at = flight[f].at /\ flight'[f].waiter = flight[f].waiter
               /\ flight[f].over => flight'[f].res = flight[f].res
    BY Zenon, <2>1, <2>2 DEF FlightCalls
  <2>. QED  BY Zenon, <2>1, <2>2
<1>3. flight' \in [Flights -> FlightCalls]
  BY Zenon, <1>2
<1>. QED  BY Zenon, <1>2, <1>3 DEF SameFlights

\* A claim that joins a flight.
LEMMA JoinStep ==
  ASSUME IInv, NEW p \in Proc, pr[p].at = "claim", UNCHANGED <<mem, slot, spill>>,
         NEW f \in Registered, flight' = [flight EXCEPT ![f].joined = TRUE],
         pr' = [pr EXCEPT ![p] = AfterKey([pr[p] EXCEPT !.joined = Append(@, f)])]
  PROVE  IInv'
<1>1. TypeOK /\ CallerInv(p) /\ pr[p] \in Callers /\ pr[p].joined \in Seq(Flights) /\ pr[p].i \in Nat
  BY Zenon DEF IInv, TypeOK, Callers
<1>2. PICK c \in Calls : pr[p].keys = c.keys /\ pr[p].i \in 1..Len(c.keys)
  BY Zenon, <1>1 DEF CallerInv, CallerOK
<1>3. f \in Flights
  BY <1>1, RegisteredMember DEF TypeOK
<1>4. mem' \in [Key -> Proc \cup {"none", "L2"}] /\ SameFlights
  BY Zenon, <1>1, <1>3, FlightJoined DEF TypeOK
<1>. DEFINE j == Append(pr[p].joined, f)
            x == [pr[p] EXCEPT !.joined = j]
            r == AfterKey(x)
<1>5. j \in Seq(Flights)
  BY <1>1, <1>3
<1>6. pr' = [pr EXCEPT ![p] = r]
  BY Zenon
<1>. HIDE DEF j
<1>7. /\ x \in Callers /\ x.owned = pr[p].owned /\ x.read = pr[p].read /\ x.keys = pr[p].keys
      /\ x.i = pr[p].i
  BY Zenon, <1>1, <1>5 DEF Callers
<1>. HIDE DEF x
<1>8. /\ r \in Callers /\ CallerOK(r) /\ r.owned = pr[p].owned /\ r.read = pr[p].read
      /\ r.at \notin {"finish", "wake", "idle", "loading"}
      /\ r.at \in {"look", "claim"} => r.i = pr[p].i + 1
  BY Zenon, <1>2, <1>7, AfterKeyProps
<1>. HIDE DEF r
<1>9. r.at \in {"look", "claim"} => pr[p].i <= r.i
  BY <1>1, <1>8
<1>10. UNCHANGED <<slot, spill>> /\ pr[p].at = "claim"
  BY Zenon
<1>11. MovesTo(p, r)
  BY ONLY Zenon, <1>6, <1>8, <1>9, <1>10 DEF MovesTo
<1>. QED  BY Zenon, <1>4, <1>11, LocalStep

\* The flights of an owner that is still resolving its keys are not over.
LEMMA OwnedNotOver ==
  ASSUME IInv, NEW p \in Proc, pr[p].at \in {"recheck", "resolve", "loading"}
  PROVE  /\ pr[p].owned \in Seq(Flights) /\ pr[p].owned # <<>>
         /\ Range(pr[p].owned) \subseteq Flights /\ Head(pr[p].owned) \in Range(pr[p].owned)
         /\ \A f \in Range(pr[p].owned) : ~flight[f].over /\ flight[f].key \in Key
<1>1. pr[p].owned \in Seq(Flights) /\ CallerInv(p) /\ OwnedInv(p)
  BY Zenon DEF IInv, TypeOK, Callers
<1>2. pr[p].owned # <<>>
  BY Zenon, <1>1 DEF CallerInv, CallerOK, Owning
<1>3. Range(pr[p].owned) \subseteq Flights /\ Head(pr[p].owned) \in Range(pr[p].owned)
  BY <1>1, <1>2, RangeMember, RangeTail
<1>4. ASSUME NEW f \in Range(pr[p].owned) PROVE ~flight[f].over /\ flight[f].key \in Key
  <2>1. PICK n \in 1..Len(pr[p].owned) : pr[p].owned[n] = f
    BY Zenon, <1>1, RangeMember
  <2>. QED  BY Zenon, <1>1, <2>1 DEF OwnedInv
<1>. QED  BY Zenon, <1>1, <1>2, <1>3, <1>4

\* An owner moves on with the flights it has.
LEMMA OwnerMoves ==
  ASSUME IInv, NEW p \in Proc, pr[p].at \in {"recheck", "resolve", "loading"}, NEW r \in Callers,
         UNCHANGED <<slot, spill>>, pr' = [pr EXCEPT ![p] = r], r.owned = pr[p].owned,
         r.at \in {"resolve", "loading", "release"},
         r.at = "loading" => r.todo \subseteq OwnedKeys(p), r.read = pr[p].read
  PROVE  MovesTo(p, r)
<1>1. pr[p].owned # <<>>
  BY Zenon, OwnedNotOver
<1>2. CallerOK(r)
  BY Zenon, <1>1 DEF CallerOK, Owning, Waiting
<1>. QED  BY Zenon, <1>2 DEF MovesTo

\* doLoad looks at memory again, and the flight gets what is found there.
LEMMA RecheckStep ==
  ASSUME IInv, NEW p \in Proc, Recheck(p)
  PROVE  IInv'
<1>. DEFINE f == Head(pr[p].owned)
            v == mem[flight[f].key]
<1>1. TypeOK /\ pr[p].at = "recheck" /\ UNCHANGED <<mem, slot, spill>> /\ pr[p] \in Callers
  BY Zenon DEF IInv, TypeOK, Recheck
<1>2. f \in Flights /\ ~flight[f].over /\ flight[f].key \in Key
  BY Zenon, <1>1, OwnedNotOver
<1>3. mem' \in [Key -> Proc \cup {"none", "L2"}] /\ flight \in [Flights -> FlightCalls]
  BY Zenon, <1>1 DEF TypeOK
<1>4. CASE v = "none"
  <2>. DEFINE r == [pr[p] EXCEPT !.at = "resolve"]
  <2>1. pr' = [pr EXCEPT ![p] = r] /\ UNCHANGED flight
    BY Zenon, <1>4 DEF Recheck
  <2>2. r \in Callers /\ r.at = "resolve" /\ r.owned = pr[p].owned /\ r.read = pr[p].read
    BY Zenon, <1>1 DEF Callers, Owning
  <2>. HIDE DEF r
  <2>3. MovesTo(p, r)
    BY Zenon, <1>1, <2>1, <2>2, OwnerMoves
  <2>. QED  BY Zenon, <1>1, <1>3, <2>1, <2>3, SameFlight, LocalStep
<1>5. CASE v # "none"
  <2>. DEFINE r == [pr[p] EXCEPT !.at = "release"]
  <2>1. pr' = [pr EXCEPT ![p] = r] /\ flight' = [flight EXCEPT ![f].res = v]
    BY Zenon, <1>5 DEF Recheck
  <2>2. r \in Callers /\ r.at = "release" /\ r.owned = pr[p].owned /\ r.read = pr[p].read
    BY Zenon, <1>1 DEF Callers, Owning
  <2>. HIDE DEF r
  <2>3. MovesTo(p, r)
    BY Zenon, <1>1, <2>1, <2>2, OwnerMoves
  <2>4. v \in Results
    BY Zenon, <1>1, <1>2, <1>5 DEF TypeOK, Results
  <2>. HIDE DEF f, v
  <2>5. \A g \in Flights : flight'[g] = IF g = f THEN [flight[f] EXCEPT !.res = v] ELSE flight[g]
    BY Zenon, <1>2, <1>3, <2>1
  <2>6. flight' = [g \in Flights |-> flight'[g]]
    BY Zenon, <1>3, <2>1
  <2>7. SameFlights
    BY Zenon, <1>1, <1>2, <2>4, <2>5, <2>6, FlightResults
  <2>. QED  BY Zenon, <1>3, <2>3, <2>7, LocalStep
<1>. QED  BY Zenon, <1>4, <1>5

\* The second level answers; a call whose keys it all had is done loading.
LEMMA AskL2Step ==
  ASSUME IInv, NEW p \in Proc, NEW hits \in SUBSET Key, AskL2(p, hits)
  PROVE  IInv'
<1>1. TypeOK /\ pr[p].at = "resolve" /\ UNCHANGED <<slot, spill>> /\ pr[p] \in Callers
  BY Zenon DEF IInv, TypeOK, AskL2
<1>2. /\ Range(pr[p].owned) \subseteq Flights
      /\ \A f \in Range(pr[p].owned) : ~flight[f].over /\ flight[f].key \in Key
  BY Zenon, <1>1, OwnedNotOver
<1>3. flight \in [Flights -> FlightCalls] /\ mem \in [Key -> Proc \cup {"none", "L2"}]
  BY Zenon, <1>1 DEF TypeOK
<1>4. mem' \in [Key -> Proc \cup {"none", "L2"}]
  <2>1. mem' = [k \in Key |-> IF k \in hits THEN "L2" ELSE mem[k]]
    BY Zenon DEF AskL2
  <2>. QED  BY Zenon, <1>3, <2>1
<1>5. SameFlights
  <2>1. CASE hits = OwnedKeys(p)
    <3>1. flight' = [f \in Flights |-> IF f \in Range(pr[p].owned)
                                       THEN [flight[f] EXCEPT !.res = "L2"] ELSE flight[f]]
      BY Zenon, <2>1 DEF AskL2
    <3>2. \A f \in Flights : flight'[f] = IF f \in Range(pr[p].owned)
                                          THEN [flight[f] EXCEPT !.res = "L2"] ELSE flight[f]
      BY Zenon, <3>1
    <3>3. flight' = [f \in Flights |-> flight'[f]]
      BY Zenon, <3>1
    <3>4. "L2" \in Results
      BY Zenon DEF Results
    <3>. QED  BY Zenon, <1>1, <1>2, <3>2, <3>3, <3>4, FlightResults
  <2>2. CASE hits # OwnedKeys(p)
    <3>1. UNCHANGED flight
      BY Zenon, <2>2 DEF AskL2
    <3>. QED  BY Zenon, <1>1, <3>1, SameFlight
  <2>. QED  BY Zenon, <2>1, <2>2
<1>. DEFINE t == OwnedKeys(p) \ hits
            x == IF hits = OwnedKeys(p) THEN "release" ELSE "loading"
            r == [pr[p] EXCEPT !.hits = hits, !.todo = t, !.at = x]
<1>6. pr' = [pr EXCEPT ![p] = r]
  <2>1. pr' = [pr EXCEPT ![p].hits = hits, ![p].todo = t, ![p].at = x]
    BY Zenon DEF AskL2
  <2>2. pr \in [Proc -> Callers]
    BY Zenon, <1>1 DEF TypeOK
  <2>. HIDE DEF t, x
  <2>. QED  BY Zenon, <2>1, <2>2
<1>7. x \in {"release", "loading"} /\ t \subseteq OwnedKeys(p) /\ t \subseteq Key
  BY Zenon, <1>2 DEF OwnedKeys
<1>. HIDE DEF t, x
<1>8. /\ r \in Callers /\ r.at = x /\ r.todo = t /\ r.owned = pr[p].owned /\ r.read = pr[p].read
  BY Zenon, <1>1, <1>7 DEF Callers, Owning
<1>. HIDE DEF r
<1>9. MovesTo(p, r)
  BY Zenon, <1>1, <1>6, <1>7, <1>8, OwnerMoves
<1>. QED  BY Zenon, <1>4, <1>5, <1>9, LocalStep

\* The loader returns, and the flights get their results.
LEMMA LoadedStep ==
  ASSUME IInv, NEW p \in Proc, NEW got \in SUBSET Key, NEW err \in {"absent", "error"},
         Loaded(p, got, err)
  PROVE  IInv'
<1>1. TypeOK /\ pr[p].at = "loading" /\ UNCHANGED <<slot, spill>> /\ pr[p] \in Callers
  BY Zenon DEF IInv, TypeOK, Loaded
<1>2. /\ Range(pr[p].owned) \subseteq Flights
      /\ \A f \in Range(pr[p].owned) : ~flight[f].over
  BY Zenon, <1>1, OwnedNotOver
<1>3. flight \in [Flights -> FlightCalls] /\ mem \in [Key -> Proc \cup {"none", "L2"}]
  BY Zenon, <1>1 DEF TypeOK
<1>4. mem' \in [Key -> Proc \cup {"none", "L2"}]
  <2>1. mem' = [k \in Key |-> IF k \in got THEN p ELSE mem[k]]
    BY Zenon DEF Loaded
  <2>. QED  BY Zenon, <1>3, <2>1
<1>5. SameFlights
  <2>. DEFINE R(k) == IF k \in got THEN p ELSE IF k \in pr[p].hits THEN "L2" ELSE err
  <2>1. \A k : R(k) \in Results
    BY Zenon DEF Results
  <2>2. flight' = [f \in Flights |-> IF f \in Range(pr[p].owned)
                                     THEN [flight[f] EXCEPT !.res = R(flight[f].key)] ELSE flight[f]]
    BY Zenon DEF Loaded
  <2>. HIDE DEF R
  <2>3. \A f \in Flights : flight'[f] = IF f \in Range(pr[p].owned)
                                        THEN [flight[f] EXCEPT !.res = R(flight[f].key)] ELSE flight[f]
    BY Zenon, <2>2
  <2>4. flight' = [f \in Flights |-> flight'[f]]
    BY Zenon, <2>2
  <2>. QED  BY Zenon, <1>1, <1>2, <2>1, <2>3, <2>4, FlightResults
<1>. DEFINE r == [pr[p] EXCEPT !.at = "release", !.todo = {}]
<1>6. pr' = [pr EXCEPT ![p] = r]
  <2>1. pr' = [pr EXCEPT ![p].at = "release", ![p].todo = {}]
    BY Zenon DEF Loaded
  <2>2. pr \in [Proc -> Callers]
    BY Zenon, <1>1 DEF TypeOK
  <2>. QED  BY Zenon, <2>1, <2>2
<1>7. r \in Callers /\ r.at = "release" /\ r.owned = pr[p].owned /\ r.read = pr[p].read
  BY Zenon, <1>1 DEF Callers, Owning
<1>. HIDE DEF r
<1>8. MovesTo(p, r)
  BY Zenon, <1>1, <1>6, <1>7, OwnerMoves
<1>. QED  BY Zenon, <1>4, <1>5, <1>8, LocalStep

\* The loader or the second level panics: the flights keep ErrLoaderPanic, and are
\* still released.
LEMMA LoaderPanicsStep ==
  ASSUME IInv, NEW p \in Proc, LoaderPanics(p)
  PROVE  IInv'
<1>1. /\ TypeOK /\ pr[p].at \in {"resolve", "loading"} /\ UNCHANGED <<mem, slot, spill, flight>>
      /\ pr[p] \in Callers /\ pr \in [Proc -> Callers]
  BY Zenon DEF IInv, TypeOK, LoaderPanics
<1>2. mem' \in [Key -> Proc \cup {"none", "L2"}] /\ SameFlights
  BY Zenon, <1>1, SameFlight DEF TypeOK
<1>. DEFINE r == [pr[p] EXCEPT !.at = "release", !.todo = {}, !.joined = <<>>]
<1>3. pr' = [pr EXCEPT ![p] = r]
  <2>1. pr' = [pr EXCEPT ![p].at = "release", ![p].todo = {}, ![p].joined = <<>>]
    BY Zenon DEF LoaderPanics
  <2>. QED  BY Zenon, <1>1, <2>1
<1>4. r \in Callers /\ r.at = "release" /\ r.owned = pr[p].owned /\ r.read = pr[p].read
  <2>1. <<>> \in Seq(Flights)
    OBVIOUS
  <2>. QED  BY <1>1, <2>1, ZenonT(60) DEF Callers, Owning
<1>. HIDE DEF r
<1>5. MovesTo(p, r)
  BY Zenon, <1>1, <1>3, <1>4, OwnerMoves
<1>. QED  BY Zenon, <1>2, <1>5, LocalStep

\* What a waiter takes from a flight that is over is its result.
LEMMA TakeStep ==
  ASSUME IInv, NEW p \in Proc, pr[p].at \in Waiting, UNCHANGED <<mem, slot, spill, flight>>,
         pr' = [pr EXCEPT ![p] = TakeResult(pr[p])], flight[Head(pr[p].joined)].over
  PROVE  IInv'
<1>1. /\ TypeOK /\ pr[p] \in Callers /\ pr[p].joined \in Seq(Flights) /\ CallerInv(p)
      /\ pr[p].read \subseteq Flights \X Results
  BY Zenon DEF IInv, TypeOK, Callers
<1>2. pr[p].joined # <<>> /\ pr[p].owned = <<>>
  BY Zenon, <1>1 DEF CallerInv, CallerOK
<1>3. mem' \in [Key -> Proc \cup {"none", "L2"}] /\ SameFlights
  BY Zenon, <1>1, SameFlight DEF TypeOK
<1>. DEFINE f == Head(pr[p].joined)
            j == Tail(pr[p].joined)
            s == pr[p].read \cup {<<f, flight[f].res>>}
            x == IF j = <<>> THEN "done" ELSE "wait"
            r == [pr[p] EXCEPT !.read = s, !.joined = j, !.at = x]
<1>4. f \in Flights /\ j \in Seq(Flights)
  BY Zenon, <1>1, <1>2, RangeTail
<1>5. flight[f].res \in Results
  BY Zenon, <1>1, <1>4 DEF TypeOK, FlightCalls
<1>6. /\ s \in SUBSET (Flights \X Results) /\ x \in {"done", "wait"} /\ (x = "wait" => j # <<>>)
      /\ \A y \in s : y \in pr[p].read \/ (flight[y[1]].over /\ flight[y[1]].res = y[2])
  BY <1>1, <1>4, <1>5
<1>7. pr' = [pr EXCEPT ![p] = r]
  BY Zenon DEF TakeResult
<1>. HIDE DEF f, j, s, x
<1>8. /\ r \in Callers /\ r.at = x /\ r.owned = <<>> /\ r.joined = j /\ r.read = s
  BY Zenon, <1>1, <1>2, <1>4, <1>6 DEF Callers, Waiting
<1>. HIDE DEF r
<1>9. CallerOK(r)
  BY Zenon, <1>6, <1>8 DEF CallerOK, Owning, Waiting
<1>10. pr[p].at \notin {"finish", "wake"}
  BY Zenon DEF Waiting
<1>11. MovesTo(p, r)
  BY Zenon, <1>1, <1>2, <1>6, <1>7, <1>8, <1>9, <1>10 DEF MovesTo
<1>. QED  BY Zenon, <1>3, <1>11, LocalStep

\* A waiter goes on waiting, or gives up.
LEMMA WaiterMoves ==
  ASSUME IInv, NEW p \in Proc, pr[p].at \in Waiting, UNCHANGED <<mem, slot, spill>>, SameFlights,
         \/ \E at \in {"publish", "again", "park"} : pr' = [pr EXCEPT ![p].at = at]
         \/ pr' = [pr EXCEPT ![p].at = "done", ![p].joined = <<>>]
  PROVE  IInv'
<1>1. TypeOK /\ pr \in [Proc -> Callers] /\ pr[p] \in Callers /\ CallerInv(p)
  BY Zenon DEF IInv, TypeOK
<1>2. pr[p].joined # <<>> /\ pr[p].owned = <<>> /\ pr[p].at \notin {"finish", "wake"}
  BY Zenon, <1>1 DEF CallerInv, CallerOK, Waiting
<1>3. mem' \in [Key -> Proc \cup {"none", "L2"}]
  BY Zenon, <1>1 DEF TypeOK
<1>4. ASSUME NEW at \in {"publish", "again", "park"}, pr' = [pr EXCEPT ![p].at = at] PROVE IInv'
  <2>. DEFINE r == [pr[p] EXCEPT !.at = at]
  <2>1. pr' = [pr EXCEPT ![p] = r]
    BY Zenon, <1>1, <1>4
  <2>2. /\ r \in Callers /\ r.at = at /\ r.owned = <<>> /\ r.joined = pr[p].joined
        /\ r.read = pr[p].read
    BY Zenon, <1>1, <1>2 DEF Callers, Waiting
  <2>. HIDE DEF r
  <2>3. CallerOK(r)
    BY Zenon, <1>2, <2>2 DEF CallerOK, Owning, Waiting
  <2>4. MovesTo(p, r)
    BY Zenon, <1>2, <2>1, <2>2, <2>3 DEF MovesTo
  <2>. QED  BY Zenon, <1>3, <2>4, LocalStep
<1>5. ASSUME pr' = [pr EXCEPT ![p].at = "done", ![p].joined = <<>>] PROVE IInv'
  <2>. DEFINE r == [pr[p] EXCEPT !.at = "done", !.joined = <<>>]
  <2>1. pr' = [pr EXCEPT ![p] = r]
    BY Zenon, <1>1, <1>5
  <2>2. r \in Callers /\ r.at = "done" /\ r.owned = <<>> /\ r.read = pr[p].read
    <3>1. <<>> \in Seq(Flights)
      OBVIOUS
    <3>. QED  BY Zenon, <1>1, <1>2, <3>1 DEF Callers
  <2>. HIDE DEF r
  <2>3. CallerOK(r)
    BY Zenon, <2>2 DEF CallerOK, Owning, Waiting
  <2>4. MovesTo(p, r)
    BY Zenon, <1>2, <2>1, <2>2, <2>3 DEF MovesTo
  <2>. QED  BY Zenon, <1>3, <2>4, LocalStep
<1>. QED  BY Zenon, <1>4, <1>5

\* Every step of wait reads a result only once the flight is over.
LEMMA WaitStep ==
  ASSUME IInv, NEW p \in Proc,
         WaitOver(p) \/ WaitPublish(p) \/ WaitAgain(p) \/ WaitWoken(p) \/ WaitCanceled(p)
  PROVE  IInv'
<1>1. /\ TypeOK /\ pr \in [Proc -> Callers] /\ CallerInv(p) /\ ReadInv
      /\ pr[p].joined \in Seq(Flights)
  BY Zenon DEF IInv, TypeOK, Callers
<1>2. pr[p].at \in Waiting
  BY Zenon DEF WaitOver, WaitPublish, WaitAgain, WaitWoken, WaitCanceled, Waiting
<1>3. Head(pr[p].joined) \in Flights
  BY Zenon, <1>1, <1>2, RangeTail DEF CallerInv, CallerOK
<1>4. ASSUME NEW at \in {"publish", "again", "park"}, UNCHANGED <<mem, slot, spill, flight>>,
             pr' = [pr EXCEPT ![p] = IF flight[Head(@.joined)].over THEN TakeResult(@)
                                     ELSE [@ EXCEPT !.at = at]]
      PROVE  IInv'
  <2>1. CASE flight[Head(pr[p].joined)].over
    <3>1. pr' = [pr EXCEPT ![p] = TakeResult(pr[p])]
      BY Zenon, <1>4, <2>1
    <3>. QED  BY Zenon, <1>2, <1>4, <2>1, <3>1, TakeStep
  <2>2. CASE ~flight[Head(pr[p].joined)].over
    <3>1. pr' = [pr EXCEPT ![p].at = at]
      BY Zenon, <1>4, <2>2
    <3>2. SameFlights
      BY Zenon, <1>1, <1>4, SameFlight
    <3>. QED  BY Zenon, <1>2, <1>4, <3>1, <3>2, WaiterMoves
  <2>. QED  BY Zenon, <2>1, <2>2
<1>5. WaitOver(p) => IInv'
  BY Zenon, <1>4 DEF WaitOver
<1>6. WaitAgain(p) => IInv'
  BY Zenon, <1>4 DEF WaitAgain
<1>7. ASSUME WaitPublish(p) PROVE IInv'
  <2>1. SameFlights
    BY Zenon, <1>1, <1>3, <1>7, FlightJoined DEF WaitPublish
  <2>. QED  BY Zenon, <1>2, <1>7, <2>1, WaiterMoves DEF WaitPublish
<1>8. ASSUME WaitWoken(p) PROVE IInv'
  <2>1. flight[Head(pr[p].joined)].over
    BY Zenon, <1>1, <1>3, <1>8 DEF WaitWoken, ReadInv
  <2>. QED  BY Zenon, <1>2, <1>8, <2>1, TakeStep DEF WaitWoken
<1>9. ASSUME WaitCanceled(p) PROVE IInv'
  <2>1. SameFlights
    BY Zenon, <1>1, <1>9, SameFlight DEF WaitCanceled
  <2>. QED  BY Zenon, <1>2, <1>9, <2>1, WaiterMoves DEF WaitCanceled
<1>. QED  BY Zenon, <1>5, <1>6, <1>7, <1>8, <1>9

\* A key leaves memory, or nothing happens at all.
LEMMA MemoryStep ==
  ASSUME IInv, UNCHANGED <<slot, spill, flight, pr>>, mem' \in [Key -> Proc \cup {"none", "L2"}]
  PROVE  IInv'
<1>1. TypeOK'
  BY Zenon DEF IInv, TypeOK
<1>2. \A p \in Proc : CallerInv(p)' /\ OwnedInv(p)'
  <2>1. \A p \in Proc : CallerInv(p)'
    BY SMTT(60) DEF IInv, CallerInv, CallerOK, OwnedKeys
  <2>2. \A p \in Proc : OwnedInv(p)'
    BY DEF IInv, OwnedInv
  <2>. QED  BY Zenon, <2>1, <2>2
<1>3. RegistryInv'
  <2>1. Registered' = Registered /\ \A p \in Proc : Held(p)' = Held(p)
    BY Zenon DEF Registered, Held
  <2>. QED  BY <2>1 DEF IInv, RegistryInv
<1>4. ReadInv'
  BY Zenon DEF IInv, ReadInv, ReadsFinal
<1>. QED  BY Zenon, <1>1, <1>2, <1>3, <1>4 DEF IInv

\* Caller p goes on as r and claims, releases, finishes or wakes flights of its own:
\* those of the others stay as they are, and what is over stays over.
OwnerStep(p, r) ==
  /\ TypeOK' /\ pr' = [pr EXCEPT ![p] = r] /\ CallerOK(r) /\ r.read = pr[p].read
  /\ r.at \notin {"idle", "loading"}
  /\ \A f \in Flights : f[1] # p => flight'[f] = flight[f]
  /\ \A f \in Flights : flight[f].over => flight'[f].over /\ flight'[f].res = flight[f].res
  /\ \A f \in Flights : flight'[f].waiter = "closed" => flight'[f].over

\* The flights a caller owns name it as their owner.
LEMMA OwnFlights ==
  ASSUME IInv, NEW q \in Proc
  PROVE  /\ pr[q].owned \in Seq(Flights) /\ Range(pr[q].owned) \subseteq Flights
         /\ \A f \in Range(pr[q].owned) : f[1] = q
         /\ Held(q) \subseteq Range(pr[q].owned)
<1>1. pr[q].owned \in Seq(Flights) /\ CallerInv(q) /\ OwnedInv(q)
  BY Zenon DEF IInv, TypeOK, Callers
<1>2. Range(pr[q].owned) \subseteq Flights
  BY Zenon, <1>1, RangeMember
<1>3. ASSUME NEW f \in Range(pr[q].owned) PROVE f[1] = q
  <2>1. PICK n \in 1..Len(pr[q].owned) : pr[q].owned[n] = f
    BY Zenon, <1>1, RangeMember
  <2>. QED  BY Zenon, <1>1, <2>1 DEF OwnedInv
<1>4. Held(q) \subseteq Range(pr[q].owned)
  <2>1. CASE pr[q].at \in {"finish", "wake"}
    <3>1. pr[q].owned # <<>>
      BY Zenon, <1>1, <2>1 DEF CallerInv, CallerOK, Owning
    <3>. QED  BY Zenon, <1>1, <2>1, <3>1, RangeTail DEF Held
  <2>2. CASE pr[q].at \notin {"finish", "wake"}
    BY Zenon, <2>2 DEF Held
  <2>. QED  BY Zenon, <2>1, <2>2
<1>. QED  BY Zenon, <1>1, <1>2, <1>3, <1>4

\* Such a step leaves the other callers, and what was read, as they were.
LEMMA OthersKeep ==
  ASSUME IInv, NEW p \in Proc, NEW r, OwnerStep(p, r)
  PROVE  /\ CallerInv(p)' /\ ReadInv'
         /\ \A q \in Proc \ {p} : CallerInv(q)' /\ OwnedInv(q)' /\ Held(q)' = Held(q)
<1>. USE DEF OwnerStep
<1>1. TypeOK /\ pr \in [Proc -> Callers] /\ ReadInv
  BY Zenon DEF IInv, TypeOK
<1>2. pr'[p] = r /\ \A q \in Proc : q # p => pr'[q] = pr[q]
  BY Zenon, <1>1
<1>3. CallerInv(p)'
  <2>1. CallerOK(pr[p])'
    BY Zenon, <1>2 DEF CallerOK
  <2>. QED  BY Zenon, <1>2, <2>1 DEF CallerInv
<1>4. ReadInv'
  <2>1. \A q \in Proc : pr'[q].read = pr[q].read
    BY Zenon, <1>2
  <2>2. ASSUME NEW q \in Proc, NEW x \in pr[q].read
        PROVE  flight'[x[1]].over /\ flight'[x[1]].res = x[2]
    <3>1. x[1] \in Flights
      BY <1>1 DEF Callers
    <3>2. flight[x[1]].over /\ flight[x[1]].res = x[2]
      BY Zenon, <1>1 DEF ReadInv, ReadsFinal
    <3>. QED  BY Zenon, <3>1, <3>2
  <2>3. ReadsFinal'
    BY Zenon, <2>1, <2>2 DEF ReadsFinal
  <2>. QED  BY Zenon, <2>3 DEF ReadInv
<1>5. ASSUME NEW q \in Proc \ {p} PROVE CallerInv(q)' /\ OwnedInv(q)' /\ Held(q)' = Held(q)
  <2>1. /\ pr'[q] = pr[q] /\ CallerInv(q) /\ OwnedInv(q) /\ pr[q].owned \in Seq(Flights)
        /\ Range(pr[q].owned) \subseteq Flights /\ \A f \in Range(pr[q].owned) : f[1] = q
    BY Zenon, <1>2, OwnFlights DEF IInv
  <2>2. \A f \in Range(pr[q].owned) : flight'[f] = flight[f]
    BY Zenon, <2>1
  <2>3. OwnedKeys(q)' = OwnedKeys(q)
    BY <2>1, <2>2 DEF OwnedKeys
  <2>4. CallerInv(q)'
    <3>1. CallerOK(pr[q])'
      BY Zenon, <2>1 DEF CallerInv, CallerOK
    <3>. QED  BY Zenon, <2>1, <2>3, <3>1 DEF CallerInv
  <2>5. \A n \in 1..Len(pr[q].owned) : flight'[pr[q].owned[n]] = flight[pr[q].owned[n]]
    BY <2>1, <2>2, RangeMember
  <2>6. pr[q].at = "wake" => flight'[Head(pr[q].owned)] = flight[Head(pr[q].owned)]
    <3>1. ASSUME pr[q].at = "wake" PROVE pr[q].owned # <<>>
      BY Zenon, <2>1, <3>1 DEF CallerInv, CallerOK, Owning
    <3>. QED  BY <2>1, <2>2, <3>1, RangeTail, SMTT(60)
  <2>7. OwnedInv(q)'
    BY <2>1, <2>5, <2>6, SMTT(60) DEF OwnedInv
  <2>8. Held(q)' = Held(q)
    BY <2>1 DEF Held
  <2>. QED  BY Zenon, <2>4, <2>7, <2>8
<1>. QED  BY Zenon, <1>3, <1>4, <1>5

\* A released flight is p's first, and is not among the rest.
LEMMA OwnedRest ==
  ASSUME IInv, NEW p \in Proc, pr[p].at \in Owning
  PROVE  /\ pr[p].owned # <<>> /\ Head(pr[p].owned) \in Flights /\ Head(pr[p].owned)[1] = p
         /\ Head(pr[p].owned) \notin Range(Tail(pr[p].owned))
         /\ Range(pr[p].owned) = Range(Tail(pr[p].owned)) \cup {Head(pr[p].owned)}
<1>1. pr[p].owned \in Seq(Flights) /\ CallerInv(p) /\ OwnedInv(p)
  BY Zenon DEF IInv, TypeOK, Callers
<1>2. pr[p].owned # <<>>
  BY Zenon, <1>1 DEF CallerInv, CallerOK
<1>3. /\ Len(pr[p].owned) >= 1 /\ Head(pr[p].owned) = pr[p].owned[1]
      /\ Head(pr[p].owned) \in Flights
      /\ Tail(pr[p].owned) \in Seq(Flights) /\ Len(Tail(pr[p].owned)) = Len(pr[p].owned) - 1
      /\ \A n \in 1..Len(pr[p].owned) - 1 : Tail(pr[p].owned)[n] = pr[p].owned[n + 1]
      /\ Range(pr[p].owned) = Range(Tail(pr[p].owned)) \cup {Head(pr[p].owned)}
  BY Zenon, <1>1, <1>2, RangeTail
<1>4. Len(pr[p].owned) \in Nat
  BY <1>1
<1>5. ASSUME Head(pr[p].owned) \in Range(Tail(pr[p].owned)) PROVE FALSE
  <2>. DEFINE t == Tail(pr[p].owned)
  <2>1. PICK n \in 1..Len(t) : t[n] = Head(pr[p].owned)
    <3>1. t \in Seq(Flights) /\ Head(pr[p].owned) \in Range(t)
      BY Zenon, <1>3, <1>5
    <3>. HIDE DEF t
    <3>. QED  BY Zenon, <3>1, RangeMember
  <2>2. pr[p].owned[n + 1] = pr[p].owned[1]
    BY Zenon, <1>3, <2>1
  <2>3. n + 1 \in 1..Len(pr[p].owned) /\ 1 \in 1..Len(pr[p].owned) /\ n + 1 # 1
    BY <1>3, <1>4
  <2>. QED  BY Zenon, <1>1, <2>2, <2>3 DEF OwnedInv
<1>6. Head(pr[p].owned)[1] = p
  BY Zenon, <1>2, <1>3, OwnFlights
<1>. QED  BY Zenon, <1>2, <1>3, <1>5, <1>6

\* A claim that finds no flight of its key registers a new one: the flight allocated
\* was never used, and the slot taken is free.
LEMMA NewFlightStep ==
  ASSUME IInv, NEW p \in Proc, pr[p].at = "claim", UNCHANGED mem,
         Running(pr[p].keys[pr[p].i]) = {}, NEW s \in 0..FlightSlots,
         s = 0 \/ slot[s] = <<>>,
         slot' = IF s = 0 THEN slot ELSE [slot EXCEPT ![s] = <<p, pr[p].i>>],
         spill' = IF s = 0 THEN spill \union {<<p, pr[p].i>>} ELSE spill,
         flight' = [flight EXCEPT ![<<p, pr[p].i>>] =
                      [NoFlight EXCEPT !.key = pr[p].keys[pr[p].i], !.at = s]],
         pr' = [pr EXCEPT ![p] = AfterKey([pr[p] EXCEPT !.owned = Append(@, <<p, pr[p].i>>)])]
  PROVE  IInv'
<1>. DEFINE k == pr[p].keys[pr[p].i]
            g == <<p, pr[p].i>>
            n == [NoFlight EXCEPT !.key = k, !.at = s]
            o == Append(pr[p].owned, g)
            x == [pr[p] EXCEPT !.owned = o]
            r == AfterKey(x)
<1>1. /\ TypeOK /\ CallerInv(p) /\ OwnedInv(p) /\ RegistryInv /\ ReadInv
      /\ pr \in [Proc -> Callers] /\ pr[p] \in Callers /\ pr[p].owned \in Seq(Flights)
      /\ pr[p].i \in Nat \ {0} /\ pr[p].keys \in Seq(Key)
      /\ slot \in [1..FlightSlots -> Flights \cup {<<>>}] /\ spill \in SUBSET Flights
      /\ flight \in [Flights -> FlightCalls]
  BY Zenon DEF IInv, TypeOK, Callers
<1>2. PICK c \in Calls : pr[p].keys = c.keys /\ pr[p].i \in 1..Len(c.keys)
  BY Zenon, <1>1 DEF CallerInv, CallerOK
<1>3. g \in Flights /\ g[1] = p /\ g[2] = pr[p].i /\ k \in Key /\ g # <<>>
  BY <1>1, <1>2, FlightIndex
<1>4. pr' = [pr EXCEPT ![p] = r] /\ flight' = [flight EXCEPT ![g] = n]
  BY Zenon
<1>5. slot' = (IF s = 0 THEN slot ELSE [slot EXCEPT ![s] = g])
       /\ spill' = IF s = 0 THEN spill \union {g} ELSE spill
  BY Zenon
<1>. HIDE DEF g
<1>6. /\ n \in FlightCalls /\ n.key = k /\ n.at = s /\ ~n.over /\ n.waiter = "nil"
  <2>1. NoFlight \in FlightCalls /\ ~NoFlight.over /\ NoFlight.waiter = "nil"
    BY Zenon, IdleTypes DEF NoFlight
  <2>. HIDE DEF k
  <2>. QED  BY Zenon, <1>3, <2>1 DEF FlightCalls, NoFlight
<1>7. ~flight[g].over
  BY <1>1, <1>3 DEF OwnedInv
<1>8. g \notin Range(pr[p].owned)
  <2>1. ASSUME NEW m \in 1..Len(pr[p].owned), pr[p].owned[m] = g PROVE FALSE
    <3>1. g[2] < pr[p].i
      BY Zenon, <1>1, <2>1 DEF OwnedInv
    <3>. QED  BY <1>1, <1>3, <3>1
  <2>. QED  BY ONLY <1>1, <2>1, RangeMember
<1>9. g \notin Registered /\ Registered \subseteq Flights
  <2>1. ASSUME NEW q \in Proc, g \in Held(q) PROVE FALSE
    <3>1. g \in Range(pr[q].owned) /\ q = p
      BY Zenon, <1>3, <2>1, OwnFlights
    <3>. QED  BY Zenon, <1>8, <3>1
  <2>2. g \notin Registered
    BY <1>1, <2>1 DEF RegistryInv
  <2>. QED  BY <1>1, <2>2, RegisteredMember
<1>10. /\ o \in Seq(Flights) /\ o # <<>> /\ Range(o) = Range(pr[p].owned) \cup {g}
      /\ Len(o) = Len(pr[p].owned) + 1 /\ o[Len(pr[p].owned) + 1] = g
      /\ \A m \in 1..Len(pr[p].owned) : o[m] = pr[p].owned[m]
  BY ONLY <1>1, <1>3, RangeAppend, SMTT(60)
<1>. HIDE DEF o, n
<1>11. /\ x \in Callers /\ x.owned = o /\ x.read = pr[p].read /\ x.keys = pr[p].keys /\ x.i = pr[p].i
  BY Zenon, <1>1, <1>10 DEF Callers
<1>. HIDE DEF x
<1>12. /\ r \in Callers /\ CallerOK(r) /\ r.owned = o /\ r.read = pr[p].read
       /\ r.at \notin {"finish", "wake", "idle", "loading"}
       /\ r.at \in {"look", "claim"} => r.i = pr[p].i + 1
  BY Zenon, <1>2, <1>11, AfterKeyProps
<1>. HIDE DEF r, k
<1>13. /\ flight'[g] = n /\ \A f \in Flights : f # g => flight'[f] = flight[f]
  BY <1>1, <1>3, <1>4, ZenonT(60)
<1>14. TypeOK'
  <2>1. slot' \in [1..FlightSlots -> Flights \cup {<<>>}] /\ spill' \in SUBSET Flights
    BY Zenon, <1>1, <1>3, <1>5
  <2>2. flight' \in [Flights -> FlightCalls]
    BY Zenon, <1>1, <1>6, <1>4
  <2>3. pr' \in [Proc -> Callers]
    BY Zenon, <1>1, <1>4, <1>12
  <2>4. mem' \in [Key -> Proc \cup {"none", "L2"}]
    BY Zenon, <1>1 DEF TypeOK
  <2>. QED  BY Zenon, <2>1, <2>2, <2>3, <2>4 DEF TypeOK
<1>15. OwnerStep(p, r)
  <2>1. \A f \in Flights : f[1] # p => flight'[f] = flight[f]
    BY Zenon, <1>3, <1>13
  <2>2. \A f \in Flights : flight[f].over => flight'[f].over /\ flight'[f].res = flight[f].res
    BY Zenon, <1>7, <1>13
  <2>3. \A f \in Flights : flight'[f].waiter = "closed" => flight'[f].over
    BY Zenon, <1>1, <1>6, <1>13 DEF ReadInv
  <2>. QED  BY Zenon, <1>4, <1>12, <1>14, <2>1, <2>2, <2>3 DEF OwnerStep
<1>16. /\ CallerInv(p)' /\ ReadInv'
       /\ \A q \in Proc \ {p} : CallerInv(q)' /\ OwnedInv(q)' /\ Held(q)' = Held(q)
  BY Zenon, <1>15, OthersKeep
<1>17. pr'[p] = r
  BY Zenon, <1>1, <1>4
<1>18. OwnedInv(p)'
  <2>. DEFINE N == Len(pr[p].owned)
  <2>1. N \in Nat /\ Len(o) = N + 1
    BY <1>1, <1>10, SMTT(60)
  <2>2. ASSUME NEW m \in 1..N
        PROVE  /\ o[m] = pr[p].owned[m] /\ o[m] # g /\ o[m] \in Flights /\ o[m][1] = p
               /\ flight'[o[m]].key \in Key /\ ~flight'[o[m]].over
               /\ o[m][2] < pr[p].i /\ o[m][2] \in Nat
    <3>1. o[m] = pr[p].owned[m] /\ o[m] \in Range(pr[p].owned) /\ o[m] \in Flights
      BY <1>1, <1>10, <2>2, RangeMember, SMTT(60)
    <3>2. flight'[o[m]] = flight[o[m]] /\ o[m] # g
      BY Zenon, <1>8, <1>13, <3>1
    <3>3. o[m][1] = p /\ flight[o[m]].key \in Key /\ ~flight[o[m]].over /\ o[m][2] < pr[p].i
      BY Zenon, <1>1, <2>2, <3>1 DEF OwnedInv
    <3>4. o[m][2] \in Nat
      BY Zenon, <3>1, FlightIndex
    <3>. QED  BY Zenon, <3>1, <3>2, <3>3, <3>4
  <2>3. o[N + 1] = g /\ g[1] = p /\ flight'[g].key \in Key /\ ~flight'[g].over /\ g[2] = pr[p].i
    BY Zenon, <1>3, <1>6, <1>10, <1>13
  <2>. HIDE DEF N
  <2>4. ASSUME NEW m \in 1..Len(o)
        PROVE  /\ o[m][1] = p /\ flight'[o[m]].key \in Key /\ ~flight'[o[m]].over
               /\ r.at \in {"look", "claim"} => o[m][2] < r.i
    <3>1. m \in 1..N \/ m = N + 1
      BY <2>1
    <3>2. CASE m \in 1..N
      BY <1>1, <1>12, <2>2, <3>2
    <3>3. CASE m = N + 1
      BY <1>1, <1>12, <2>3, <3>3
    <3>. QED  BY Zenon, <3>1, <3>2, <3>3
  <2>5. ASSUME NEW a \in 1..Len(o), NEW b \in 1..Len(o), o[a] = o[b] PROVE a = b
    <3>1. (a \in 1..N \/ a = N + 1) /\ (b \in 1..N \/ b = N + 1)
      BY <2>1
    <3>2. CASE a \in 1..N /\ b \in 1..N
      <4>1. pr[p].owned[a] = pr[p].owned[b]
        BY Zenon, <2>2, <2>5, <3>2
      <4>. QED  BY Zenon, <1>1, <3>2, <4>1 DEF OwnedInv, N
    <3>. QED  BY Zenon, <2>2, <2>3, <2>5, <3>1, <3>2
  <2>6. ASSUME r.at \in {"look", "claim"}, NEW f \in Flights, f[1] = p, f[2] >= r.i
        PROVE  ~flight'[f].over
    <3>1. f[2] \in Nat /\ f[2] >= pr[p].i
      BY <1>1, <1>12, <2>6, FlightIndex
    <3>2. ~flight[f].over
      BY Zenon, <1>1, <2>6, <3>1 DEF OwnedInv
    <3>. QED  BY Zenon, <1>6, <1>13, <3>2
  <2>7. r.owned = o /\ r.at # "wake" /\ r.at # "idle"
    BY Zenon, <1>12
  <2>. QED  BY ONLY Zenon, <1>17, <2>4, <2>5, <2>6, <2>7 DEF OwnedInv
<1>19. RegistryInv'
  <2>1. Registered' = Registered \cup {g}
    <3>1. \A f : f \in Registered' <=> f \in spill' \/ \E t \in 1..FlightSlots : slot'[t] = f /\ f # <<>>
      BY Zenon DEF Registered
    <3>2. CASE s = 0
      <4>1. slot' = slot /\ spill' = spill \cup {g}
        BY Zenon, <1>5, <3>2
      <4>. QED  BY <3>1, <4>1, RegisteredMember
    <3>3. CASE s # 0
      <4>1. spill' = spill /\ slot' = [slot EXCEPT ![s] = g] /\ slot[s] = <<>>
        BY Zenon, <1>5, <3>3
      <4>2. s \in 1..FlightSlots
        BY <3>3, SingleflightAssumption
      <4>3. slot'[s] = g /\ \A t \in 1..FlightSlots : t # s => slot'[t] = slot[t]
        BY Zenon, <1>1, <4>1, <4>2
      <4>. QED  BY <1>3, <3>1, <4>1, <4>2, <4>3, RegisteredMember
    <3>. QED  BY Zenon, <3>2, <3>3
  <2>2. Held(p)' = Held(p) \cup {g}
    BY Zenon, <1>10, <1>12, <1>17 DEF Held
  <2>3. Registered' = UNION {Held(q)' : q \in Proc}
    <3>1. \A f : f \in UNION {Held(q)' : q \in Proc} <=> f \in Registered \/ f = g
      BY <1>1, <1>16, <2>2, SMTT(60) DEF RegistryInv
    <3>. QED  BY Zenon, <2>1, <3>1
  <2>4. \A f \in Registered : f \in Flights /\ f # g /\ flight'[f] = flight[f]
    BY Zenon, <1>9, <1>13
  <2>5. \A t \in 1..FlightSlots : slot'[t] # <<>> => flight'[slot'[t]].at = t
    <3>1. ASSUME NEW t \in 1..FlightSlots, slot[t] # <<>> PROVE flight'[slot[t]].at = t
      <4>1. slot[t] \in Registered
        BY Zenon, <3>1, RegisteredMember
      <4>2. flight[slot[t]].at = t
        BY Zenon, <1>1, <3>1 DEF RegistryInv
      <4>. QED  BY Zenon, <2>4, <4>1, <4>2
    <3>2. CASE s = 0
      BY Zenon, <1>5, <3>1, <3>2
    <3>3. CASE s # 0
      <4>1. slot' = [slot EXCEPT ![s] = g]
        BY Zenon, <1>5, <3>3
      <4>2. \A t \in 1..FlightSlots : slot'[t] = IF t = s THEN g ELSE slot[t]
        BY Zenon, <1>1, <4>1
      <4>. QED  BY <1>6, <1>13, <3>1, <4>2
    <3>. QED  BY Zenon, <3>2, <3>3
  <2>6. \A f \in spill' : flight'[f].at = 0
    <3>1. \A f \in spill : flight'[f].at = 0
      BY Zenon, <1>1, <2>4, RegisteredMember DEF RegistryInv
    <3>. QED  BY Zenon, <1>6, <1>5, <1>13, <3>1
  <2>7. \A f \in Registered : flight[f].key # k
    BY Zenon DEF Running, k
  <2>8. \A a, b \in Registered' : flight'[a].key = flight'[b].key => a = b
    <3>1. \A a, b \in Registered : flight[a].key = flight[b].key => a = b
      BY Zenon, <1>1 DEF RegistryInv
    <3>2. flight'[g].key = k
      BY Zenon, <1>6, <1>13
    <3>. QED  BY ONLY <2>1, <2>4, <2>7, <3>1, <3>2
  <2>. QED  BY Zenon, <2>3, <2>5, <2>6, <2>8 DEF RegistryInv
<1>. QED  BY Zenon, <1>14, <1>16, <1>18, <1>19 DEF IInv

\* Where an owner goes when its first flight is released.
LEMMA AfterReleaseProps ==
  ASSUME NEW r \in Callers, r.owned # <<>>
  PROVE  /\ AfterRelease(r) \in Callers /\ CallerOK(AfterRelease(r))
         /\ AfterRelease(r).owned = Tail(r.owned) /\ AfterRelease(r).read = r.read
         /\ AfterRelease(r).at \in {"release", "wait", "done"}
<1>. DEFINE t == Tail(r.owned)
            y == IF t # <<>> THEN "release"
                 ELSE IF r.joined # <<>> /\ r.op = "batch" THEN "wait" ELSE "done"
            a == [r EXCEPT !.owned = t, !.at = y]
<1>1. AfterRelease(r) = a
  BY Zenon DEF AfterRelease
<1>2. t \in Seq(Flights)
  <2>1. r.owned \in Seq(Flights)
    BY Zenon DEF Callers
  <2>. QED  BY ONLY Zenon, <2>1, r.owned # <<>>, RangeTail
<1>3. /\ y \in {"release", "wait", "done"} /\ (y = "release" => t # <<>>)
      /\ (y = "wait" => r.joined # <<>>) /\ (y \in {"wait", "done"} => t = <<>>)
  BY Zenon
<1>. HIDE DEF t, y
<1>4. a \in Callers /\ a.owned = t /\ a.at = y /\ a.read = r.read /\ a.joined = r.joined
  BY <1>2, <1>3, ZenonT(60) DEF Callers, Owning, Waiting
<1>. HIDE DEF a
<1>5. CallerOK(a)
  BY Zenon, <1>3, <1>4 DEF CallerOK, Owning, Waiting
<1>. QED  BY Zenon, <1>1, <1>3, <1>4, <1>5 DEF t

\* The flights that are left once the first is released are as they were.
LEMMA OwnedTail ==
  ASSUME IInv, NEW p \in Proc, pr[p].at \in {"release", "wake"}, NEW r, pr'[p] = r,
         r.owned = Tail(pr[p].owned), r.at \in {"release", "wait", "done"},
         \A f \in Flights : flight'[f].key = flight[f].key /\ flight'[f].over = flight[f].over
  PROVE  OwnedInv(p)'
<1>. DEFINE o == pr[p].owned
            t == Tail(pr[p].owned)
<1>1. o \in Seq(Flights) /\ OwnedInv(p) /\ pr[p].at \in Owning
  BY Zenon DEF IInv, TypeOK, Callers, Owning
<1>2. o # <<>>
  BY Zenon, <1>1, OwnedRest
<1>3. /\ Len(t) = Len(o) - 1 /\ \A n \in 1..Len(o) - 1 : t[n] = o[n + 1]
  BY ONLY Zenon, <1>1, <1>2, RangeTail
<1>4. Len(o) \in Nat /\ \A n \in 1..Len(o) : o[n] \in Flights
  BY <1>1, SMTT(60)
<1>5. /\ \A n \in 1..Len(o) : o[n][1] = p /\ flight[o[n]].key \in Key /\ (flight[o[n]].over => n = 1)
      /\ \A m, n \in 1..Len(o) : o[m] = o[n] => m = n
  BY Zenon, <1>1 DEF OwnedInv
<1>. HIDE DEF o, t
<1>6. ASSUME NEW n \in 1..Len(t)
      PROVE  t[n][1] = p /\ flight'[t[n]].key \in Key /\ ~flight'[t[n]].over
  <2>1. n + 1 \in 1..Len(o) /\ n + 1 # 1 /\ t[n] = o[n + 1]
    BY <1>3, <1>4
  <2>. QED  BY <1>4, <1>5, <2>1
<1>7. ASSUME NEW m \in 1..Len(t), NEW n \in 1..Len(t), t[m] = t[n] PROVE m = n
  <2>1. m + 1 \in 1..Len(o) /\ n + 1 \in 1..Len(o) /\ o[m + 1] = o[n + 1]
    BY <1>3, <1>4, <1>7
  <2>2. m + 1 = n + 1
    BY Zenon, <1>5, <2>1
  <2>. QED  BY <2>2
<1>8. pr'[p].owned = t /\ pr'[p].at \notin {"wake", "idle", "look", "claim"}
  BY Zenon DEF t
<1>. QED  BY ONLY Zenon, <1>6, <1>7, <1>8 DEF OwnedInv

\* release takes the flight out of the slot or the overflow map that holds it, and
\* nothing else.
LEMMA Unregister ==
  ASSUME IInv, NEW f \in Registered, spill' = spill \ {f},
         slot' = IF flight[f].at = 0 THEN slot ELSE [slot EXCEPT ![flight[f].at] = <<>>]
  PROVE  /\ Registered' = Registered \ {f}
         /\ slot' \in [1..FlightSlots -> Flights \cup {<<>>}]
         /\ \A s \in 1..FlightSlots : slot'[s] # <<>> => slot'[s] = slot[s]
<1>. DEFINE a == flight[f].at
<1>1. /\ slot \in [1..FlightSlots -> Flights \cup {<<>>}] /\ spill \subseteq Flights
      /\ \A s \in 1..FlightSlots : slot[s] # <<>> => flight[slot[s]].at = s
      /\ \A g \in spill : flight[g].at = 0
  BY Zenon DEF IInv, TypeOK, RegistryInv
<1>2. \A g : g \in Registered' <=> g \in spill' \/ \E s \in 1..FlightSlots : slot'[s] = g /\ g # <<>>
  BY Zenon DEF Registered
<1>3. f \in Flights /\ f # <<>>
  BY <1>1, RegisteredMember, FlightIndex
<1>4. \A s \in 1..FlightSlots : slot[s] = f => s = a
  BY Zenon, <1>1, <1>3
<1>5. CASE a = 0
  <2>1. slot' = slot
    BY Zenon, <1>5
  <2>2. \A s \in 1..FlightSlots : slot[s] # f
    BY <1>4, <1>5
  <2>. QED  BY <1>1, <1>2, <2>1, <2>2, RegisteredMember
<1>6. CASE a # 0
  <2>1. slot' = [slot EXCEPT ![a] = <<>>]
    BY Zenon, <1>6
  <2>2. f \notin spill /\ a \in 1..FlightSlots /\ slot[a] = f
    BY Zenon, <1>1, <1>4, <1>6, RegisteredMember
  <2>. HIDE DEF a
  <2>3. \A s \in 1..FlightSlots : slot'[s] = IF s = a THEN <<>> ELSE slot[s]
    BY Zenon, <1>1, <2>1
  <2>4. slot' \in [1..FlightSlots -> Flights \cup {<<>>}]
    BY Zenon, <1>1, <2>1
  <2>5. \A g : g \in Registered' <=> g \in Registered /\ g # f
    BY <1>2, <1>3, <1>4, <2>2, <2>3, RegisteredMember
  <2>. QED  BY Zenon, <2>3, <2>4, <2>5
<1>. QED  BY Zenon, <1>5, <1>6

\* release drops the flight; it goes to finish when somebody joined.
LEMMA ReleaseStep ==
  ASSUME IInv, NEW p \in Proc, Release(p)
  PROVE  IInv'
<1>. DEFINE f == Head(pr[p].owned)
            r == IF flight[f].joined THEN [pr[p] EXCEPT !.at = "finish"] ELSE AfterRelease(pr[p])
<1>1. /\ TypeOK /\ CallerInv(p) /\ OwnedInv(p) /\ RegistryInv /\ ReadInv
      /\ pr \in [Proc -> Callers] /\ pr[p] \in Callers /\ pr[p].at = "release"
  BY Zenon DEF IInv, TypeOK, Release
<1>2. /\ pr[p].owned # <<>> /\ f \in Flights /\ f[1] = p /\ f \notin Range(Tail(pr[p].owned))
      /\ Range(pr[p].owned) = Range(Tail(pr[p].owned)) \cup {f}
  BY Zenon, <1>1, OwnedRest DEF Owning
<1>3. /\ pr' = [pr EXCEPT ![p] = r] /\ UNCHANGED <<mem, flight>> /\ spill' = spill \ {f}
      /\ slot' = IF flight[f].at = 0 THEN slot ELSE [slot EXCEPT ![flight[f].at] = <<>>]
  BY Zenon DEF Release
<1>4. /\ r \in Callers /\ CallerOK(r) /\ r.read = pr[p].read
      /\ \/ r.at = "finish" /\ r.owned = pr[p].owned
         \/ r.at \in {"release", "wait", "done"} /\ r.owned = Tail(pr[p].owned)
  <2>1. CASE flight[f].joined
    <3>. DEFINE a == [pr[p] EXCEPT !.at = "finish"]
    <3>1. r = a
      BY Zenon, <2>1
    <3>2. a \in Callers /\ a.at = "finish" /\ a.owned = pr[p].owned /\ a.read = pr[p].read
      BY Zenon, <1>1 DEF Callers, Owning
    <3>. HIDE DEF a
    <3>3. CallerOK(a)
      BY Zenon, <1>2, <3>2 DEF CallerOK, Owning, Waiting
    <3>. QED  BY Zenon, <3>1, <3>2, <3>3
  <2>2. CASE ~flight[f].joined
    <3>1. r = AfterRelease(pr[p])
      BY Zenon, <2>2
    <3>. HIDE DEF r
    <3>. QED  BY Zenon, <1>1, <1>2, <3>1, AfterReleaseProps
  <2>. QED  BY Zenon, <2>1, <2>2
<1>. HIDE DEF f, r
<1>5. Held(p) = Range(pr[p].owned)
  BY Zenon, <1>1 DEF Held
<1>6. f \in Registered
  BY <1>1, <1>2, <1>5, SMTT(60) DEF RegistryInv
<1>7. /\ Registered' = Registered \ {f} /\ slot' \in [1..FlightSlots -> Flights \cup {<<>>}]
      /\ \A s \in 1..FlightSlots : slot'[s] # <<>> => slot'[s] = slot[s]
  BY Zenon, <1>3, <1>6, Unregister
<1>8. TypeOK'
  BY Zenon, <1>1, <1>3, <1>4, <1>7 DEF TypeOK
<1>9. OwnerStep(p, r)
  BY Zenon, <1>1, <1>3, <1>4, <1>8 DEF OwnerStep, ReadInv
<1>10. /\ CallerInv(p)' /\ ReadInv'
       /\ \A q \in Proc \ {p} : CallerInv(q)' /\ OwnedInv(q)' /\ Held(q)' = Held(q)
  BY Zenon, <1>9, OthersKeep
<1>11. pr'[p] = r
  BY Zenon, <1>1, <1>3
<1>12. OwnedInv(p)'
  <2>1. CASE r.at = "finish" /\ r.owned = pr[p].owned
    <3>1. \A n \in 1..Len(pr[p].owned) : ~flight[pr[p].owned[n]].over
      BY Zenon, <1>1 DEF OwnedInv
    <3>. QED  BY <1>1, <1>3, <1>11, <2>1, <3>1, SMTT(60) DEF OwnedInv
  <2>2. CASE r.at \in {"release", "wait", "done"} /\ r.owned = Tail(pr[p].owned)
    BY Zenon, <1>1, <1>3, <1>11, <2>2, OwnedTail
  <2>. QED  BY Zenon, <1>4, <2>1, <2>2
<1>13. Held(p)' = Held(p) \ {f}
  <2>1. Held(p)' = Range(Tail(pr[p].owned))
    BY Zenon, <1>4, <1>11 DEF Held
  <2>. QED  BY Zenon, <1>2, <1>5, <2>1
<1>14. \A q \in Proc \ {p} : f \notin Held(q)
  BY Zenon, <1>2, OwnFlights
<1>15. RegistryInv'
  <2>1. \A g : g \in UNION {Held(q)' : q \in Proc} <=> g \in Registered /\ g # f
    <3>1. \A q \in Proc : Held(q)' = Held(q) \ {f}
      BY Zenon, <1>10, <1>13, <1>14
    <3>2. Registered = UNION {Held(q) : q \in Proc}
      BY Zenon, <1>1 DEF RegistryInv
    <3>. QED  BY ONLY <3>1, <3>2
  <2>2. Registered' = UNION {Held(q)' : q \in Proc}
    BY Zenon, <1>7, <2>1
  <2>3. \A s \in 1..FlightSlots : slot'[s] # <<>> => flight'[slot'[s]].at = s
    BY Zenon, <1>1, <1>3, <1>7 DEF RegistryInv
  <2>4. \A g \in spill' : flight'[g].at = 0
    BY Zenon, <1>1, <1>3 DEF RegistryInv
  <2>5. \A g, h \in Registered' : flight'[g].key = flight'[h].key => g = h
    BY Zenon, <1>1, <1>3, <1>7 DEF RegistryInv
  <2>. QED  BY Zenon, <2>2, <2>3, <2>4, <2>5 DEF RegistryInv
<1>. QED  BY Zenon, <1>8, <1>10, <1>12, <1>15 DEF IInv

\* A step of an owner that leaves the registry alone.
LEMMA RegistryKeeps ==
  ASSUME IInv, UNCHANGED <<slot, spill>>, \A q \in Proc : Held(q)' = Held(q),
         \A f \in Flights : flight'[f].key = flight[f].key /\ flight'[f].at = flight[f].at
  PROVE  RegistryInv'
<1>1. TypeOK /\ RegistryInv
  BY Zenon DEF IInv
<1>2. Registered' = Registered /\ Registered \subseteq Flights
  BY <1>1, RegisteredMember DEF Registered, TypeOK
<1>3. Registered' = UNION {Held(q)' : q \in Proc}
  BY <1>1, <1>2 DEF RegistryInv
<1>4. \A s \in 1..FlightSlots : slot[s] # <<>> => slot[s] \in Flights
  BY Zenon, <1>1 DEF TypeOK
<1>5. \A s \in 1..FlightSlots : slot'[s] # <<>> => flight'[slot'[s]].at = s
  BY Zenon, <1>1, <1>4 DEF RegistryInv
<1>6. \A f \in spill' : flight'[f].at = 0
  BY Zenon, <1>1 DEF RegistryInv, TypeOK
<1>7. \A f, g \in Registered' : flight'[f].key = flight'[g].key => f = g
  BY <1>1, <1>2 DEF RegistryInv
<1>. QED  BY Zenon, <1>3, <1>5, <1>6, <1>7 DEF RegistryInv

\* finish marks a flight that is no longer registered.
LEMMA FinishStep ==
  ASSUME IInv, NEW p \in Proc, Finish(p)
  PROVE  IInv'
<1>. DEFINE f == Head(pr[p].owned)
            r == [pr[p] EXCEPT !.at = "wake"]
            x == [flight[f] EXCEPT !.over = TRUE]
<1>1. /\ TypeOK /\ CallerInv(p) /\ OwnedInv(p) /\ ReadInv /\ pr[p].at = "finish"
      /\ pr \in [Proc -> Callers] /\ pr[p] \in Callers /\ flight \in [Flights -> FlightCalls]
  BY Zenon DEF IInv, TypeOK, Finish
<1>2. /\ pr[p].owned # <<>> /\ f \in Flights /\ f[1] = p /\ f \notin Range(Tail(pr[p].owned))
  BY Zenon, <1>1, OwnedRest DEF Owning
<1>3. /\ pr' = [pr EXCEPT ![p] = r] /\ UNCHANGED <<mem, slot, spill>>
      /\ flight' = [flight EXCEPT ![f] = x]
  BY Zenon DEF Finish
<1>4. /\ r \in Callers /\ r.read = pr[p].read /\ r.at = "wake" /\ r.owned = pr[p].owned
  BY Zenon, <1>1 DEF Callers, Owning
<1>. HIDE DEF r
<1>5. CallerOK(r)
  BY Zenon, <1>2, <1>4 DEF CallerOK, Owning, Waiting
<1>6. flight[f] \in FlightCalls
  BY Zenon, <1>1, <1>2
<1>. HIDE DEF f
<1>7. /\ x \in FlightCalls /\ x.over = TRUE /\ x.key = flight[f].key /\ x.at = flight[f].at
      /\ x.res = flight[f].res /\ x.waiter = flight[f].waiter
  BY Zenon, <1>6 DEF FlightCalls
<1>. HIDE DEF x
<1>8. flight'[f] = x /\ \A g \in Flights : g # f => flight'[g] = flight[g]
  BY Zenon, <1>1, <1>2, <1>3
<1>9. TypeOK'
  BY Zenon, <1>1, <1>3, <1>4, <1>7 DEF TypeOK
<1>10. OwnerStep(p, r)
  <2>1. \A g \in Flights : g[1] # p => flight'[g] = flight[g]
    BY Zenon, <1>2, <1>8
  <2>2. \A g \in Flights : flight[g].over => flight'[g].over /\ flight'[g].res = flight[g].res
    BY Zenon, <1>7, <1>8
  <2>3. \A g \in Flights : flight'[g].waiter = "closed" => flight'[g].over
    BY Zenon, <1>1, <1>7, <1>8 DEF ReadInv
  <2>. QED  BY Zenon, <1>3, <1>4, <1>5, <1>9, <2>1, <2>2, <2>3 DEF OwnerStep
<1>11. /\ CallerInv(p)' /\ ReadInv'
       /\ \A q \in Proc \ {p} : CallerInv(q)' /\ OwnedInv(q)' /\ Held(q)' = Held(q)
  BY Zenon, <1>10, OthersKeep
<1>12. pr'[p] = r
  BY Zenon, <1>1, <1>3
<1>13. Held(p)' = Held(p)
  BY Zenon, <1>1, <1>4, <1>12 DEF Held
<1>14. RegistryInv'
  <2>1. \A q \in Proc : Held(q)' = Held(q)
    BY Zenon, <1>11, <1>13
  <2>2. \A g \in Flights : flight'[g].key = flight[g].key /\ flight'[g].at = flight[g].at
    BY Zenon, <1>7, <1>8
  <2>. QED  BY Zenon, <1>3, <2>1, <2>2, RegistryKeeps
<1>15. OwnedInv(p)'
  <2>. DEFINE o == pr[p].owned
  <2>1. o \in Seq(Flights) /\ Len(o) \in Nat /\ \A n \in 1..Len(o) : o[n] \in Flights
    BY <1>1, SMTT(60) DEF Callers
  <2>2. 1 \in 1..Len(o) /\ o[1] = f /\ Head(o) = f
    BY <1>2, <2>1, SMTT(60) DEF f
  <2>3. /\ \A n \in 1..Len(o) : o[n][1] = p /\ flight[o[n]].key \in Key /\ ~flight[o[n]].over
        /\ \A m, n \in 1..Len(o) : o[m] = o[n] => m = n
    BY Zenon, <1>1 DEF OwnedInv
  <2>4. pr'[p].owned = o /\ pr'[p].at = "wake"
    BY Zenon, <1>4, <1>12
  <2>. HIDE DEF o
  <2>5. \A n \in 1..Len(o) : flight'[o[n]].key \in Key /\ (flight'[o[n]].over => n = 1)
    BY <1>7, <1>8, <2>1, <2>2, <2>3
  <2>6. flight'[Head(o)].over
    BY Zenon, <1>7, <1>8, <2>2
  <2>. QED  BY ONLY <2>3, <2>4, <2>5, <2>6, SMTT(60) DEF OwnedInv
<1>. QED  BY Zenon, <1>9, <1>11, <1>14, <1>15 DEF IInv

\* finish then closes the channel of that flight, which is over, and the owner goes on.
LEMMA WakeStep ==
  ASSUME IInv, NEW p \in Proc, Wake(p)
  PROVE  IInv'
<1>. DEFINE f == Head(pr[p].owned)
            r == AfterRelease(pr[p])
            w == IF flight[f].waiter = "nil" THEN flight[f].waiter ELSE "closed"
            x == [flight[f] EXCEPT !.waiter = w]
<1>1. /\ TypeOK /\ CallerInv(p) /\ OwnedInv(p) /\ ReadInv /\ pr[p].at = "wake"
      /\ pr \in [Proc -> Callers] /\ pr[p] \in Callers /\ flight \in [Flights -> FlightCalls]
  BY Zenon DEF IInv, TypeOK, Wake
<1>2. /\ pr[p].owned # <<>> /\ f \in Flights /\ f[1] = p
  BY Zenon, <1>1, OwnedRest DEF Owning
<1>3. /\ pr' = [pr EXCEPT ![p] = r] /\ UNCHANGED <<mem, slot, spill>>
      /\ flight' = [flight EXCEPT ![f] = x]
  BY Zenon DEF Wake
<1>. HIDE DEF r
<1>4. /\ r \in Callers /\ CallerOK(r) /\ r.read = pr[p].read /\ r.owned = Tail(pr[p].owned)
      /\ r.at \in {"release", "wait", "done"}
  BY Zenon, <1>1, <1>2, AfterReleaseProps DEF r
<1>5. flight[f].over
  BY Zenon, <1>1 DEF OwnedInv
<1>6. flight[f] \in FlightCalls
  BY Zenon, <1>1, <1>2
<1>7. w \in {"nil", "closed"}
  BY Zenon
<1>. HIDE DEF f, w
<1>8. /\ x \in FlightCalls /\ x.over = flight[f].over /\ x.key = flight[f].key
      /\ x.at = flight[f].at /\ x.res = flight[f].res
  BY Zenon, <1>6, <1>7 DEF FlightCalls
<1>. HIDE DEF x
<1>9. flight'[f] = x /\ \A g \in Flights : g # f => flight'[g] = flight[g]
  BY Zenon, <1>1, <1>2, <1>3
<1>10. TypeOK'
  BY Zenon, <1>1, <1>3, <1>4, <1>8 DEF TypeOK
<1>11. \A g \in Flights : /\ flight'[g].key = flight[g].key /\ flight'[g].over = flight[g].over
                          /\ flight'[g].at = flight[g].at /\ flight'[g].res = flight[g].res
  BY Zenon, <1>8, <1>9
<1>12. OwnerStep(p, r)
  <2>1. \A g \in Flights : g[1] # p => flight'[g] = flight[g]
    BY Zenon, <1>2, <1>9
  <2>2. \A g \in Flights : flight[g].over => flight'[g].over /\ flight'[g].res = flight[g].res
    BY Zenon, <1>11
  <2>3. \A g \in Flights : flight'[g].waiter = "closed" => flight'[g].over
    BY Zenon, <1>1, <1>5, <1>9, <1>11 DEF ReadInv
  <2>. QED  BY Zenon, <1>3, <1>4, <1>10, <2>1, <2>2, <2>3 DEF OwnerStep
<1>13. /\ CallerInv(p)' /\ ReadInv'
       /\ \A q \in Proc \ {p} : CallerInv(q)' /\ OwnedInv(q)' /\ Held(q)' = Held(q)
  BY Zenon, <1>12, OthersKeep
<1>14. pr'[p] = r
  BY Zenon, <1>1, <1>3
<1>15. Held(p)' = Held(p)
  BY Zenon, <1>1, <1>4, <1>14 DEF Held
<1>16. RegistryInv'
  BY Zenon, <1>3, <1>11, <1>13, <1>15, RegistryKeeps
<1>17. OwnedInv(p)'
  BY Zenon, <1>1, <1>4, <1>11, <1>14, OwnedTail
<1>. QED  BY Zenon, <1>10, <1>13, <1>16, <1>17 DEF IInv

-----------------------------------------------------------------------------
(***************************************************************************)
(* The theorems.                                                           *)
(***************************************************************************)

\* Every step of a call, every eviction and every stutter keeps the invariant.
LEMMA NextIInv == IInv /\ [Next]_vars => IInv'
<1>. SUFFICES ASSUME IInv, [Next]_vars PROVE IInv'
  BY Zenon
<1>1. mem \in [Key -> Proc \cup {"none", "L2"}]
  BY Zenon DEF IInv, TypeOK
<1>2. ASSUME NEW p \in Proc, Claim(p) PROVE IInv'
  <2>1. CASE \E f \in Running(pr[p].keys[pr[p].i]) :
               /\ flight' = [flight EXCEPT ![f].joined = TRUE]
               /\ pr' = [pr EXCEPT ![p] = AfterKey([pr[p] EXCEPT !.joined = Append(@, f)])]
               /\ UNCHANGED <<slot, spill>>
    <3>1. PICK f \in Registered :
               /\ flight' = [flight EXCEPT ![f].joined = TRUE]
               /\ pr' = [pr EXCEPT ![p] = AfterKey([pr[p] EXCEPT !.joined = Append(@, f)])]
               /\ UNCHANGED <<slot, spill>>
      BY Zenon, <2>1 DEF Running
    <3>2. pr[p].at = "claim" /\ UNCHANGED mem
      BY Zenon, <1>2 DEF Claim
    <3>. QED  BY Zenon, <3>1, <3>2, JoinStep
  <2>2. CASE /\ Running(pr[p].keys[pr[p].i]) = {}
             /\ \E s \in 0..FlightSlots :
                  /\ IF FreeSlots = {} THEN s = 0 ELSE s \in FreeSlots /\ \A x \in FreeSlots : s <= x
                  /\ slot' = IF s = 0 THEN slot ELSE [slot EXCEPT ![s] = <<p, pr[p].i>>]
                  /\ spill' = IF s = 0 THEN spill \union {<<p, pr[p].i>>} ELSE spill
                  /\ flight' = [flight EXCEPT ![<<p, pr[p].i>>] =
                                  [NoFlight EXCEPT !.key = pr[p].keys[pr[p].i], !.at = s]]
             /\ pr' = [pr EXCEPT ![p] = AfterKey([pr[p] EXCEPT !.owned = Append(@, <<p, pr[p].i>>)])]
    <3>1. PICK s \in 0..FlightSlots :
                  /\ IF FreeSlots = {} THEN s = 0 ELSE s \in FreeSlots /\ \A x \in FreeSlots : s <= x
                  /\ slot' = IF s = 0 THEN slot ELSE [slot EXCEPT ![s] = <<p, pr[p].i>>]
                  /\ spill' = IF s = 0 THEN spill \union {<<p, pr[p].i>>} ELSE spill
                  /\ flight' = [flight EXCEPT ![<<p, pr[p].i>>] =
                                  [NoFlight EXCEPT !.key = pr[p].keys[pr[p].i], !.at = s]]
      BY Zenon, <2>2
    <3>2. s = 0 \/ slot[s] = <<>>
      BY ONLY Zenon, <3>1 DEF FreeSlots
    <3>3. pr[p].at = "claim" /\ UNCHANGED mem
      BY Zenon, <1>2 DEF Claim
    <3>. QED  BY Zenon, <2>2, <3>1, <3>2, <3>3, NewFlightStep
  <2>. QED  BY Zenon, <1>2, <2>1, <2>2 DEF Claim
<1>3. ASSUME NEW p \in Proc, Step(p) PROVE IInv'
  <2>1. Look(p) \/ Recheck(p) \/ Release(p) \/ Finish(p) \/ Wake(p) \/ LoaderPanics(p) => IInv'
    BY Zenon, LookStep, RecheckStep, ReleaseStep, FinishStep, WakeStep, LoaderPanicsStep
  <2>2. (\E hits \in SUBSET Key : AskL2(p, hits)) => IInv'
    BY Zenon, AskL2Step
  <2>3. (\E got \in SUBSET Key, err \in {"absent", "error"} : Loaded(p, got, err)) => IInv'
    BY Zenon, LoadedStep
  <2>4. WaitOver(p) \/ WaitPublish(p) \/ WaitAgain(p) \/ WaitWoken(p) => IInv'
    BY Zenon, WaitStep
  <2>. QED  BY Zenon, <1>2, <1>3, <2>1, <2>2, <2>3, <2>4 DEF Step
<1>4. ASSUME NEW p \in Proc, WaitCanceled(p) PROVE IInv'
  BY Zenon, <1>4, WaitStep
<1>5. ASSUME NEW p \in Proc, NEW c \in Calls, Begin(p, c) PROVE IInv'
  BY Zenon, <1>5, BeginStep
<1>6. ASSUME NEW k \in Key, Forget(k) PROVE IInv'
  <2>1. UNCHANGED <<slot, spill, flight, pr>> /\ mem' \in [Key -> Proc \cup {"none", "L2"}]
    BY Zenon, <1>1, <1>6 DEF Forget
  <2>. QED  BY Zenon, <2>1, MemoryStep
<1>7. ASSUME UNCHANGED vars PROVE IInv'
  <2>1. UNCHANGED <<slot, spill, flight, pr>> /\ mem' \in [Key -> Proc \cup {"none", "L2"}]
    BY Zenon, <1>1, <1>7 DEF vars
  <2>. QED  BY Zenon, <2>1, MemoryStep
<1>. QED  BY Zenon, <1>3, <1>4, <1>5, <1>6, <1>7 DEF Next

\* The invariant behind the four results below holds in every reachable state.
THEOREM Inductive == Spec => []IInv
BY InitIInv, NextIInv, PTL DEF Spec

\* claim and release keep the registry exact, for any number of slots: it holds the
\* flights whose owners have not released them, each where its at says, one per key.
THEOREM RegistryIsExact == Spec => []RegistryExact
<1>1. IInv => RegistryExact
  <2>. SUFFICES ASSUME IInv PROVE RegistryExact
    BY Zenon
  <2>1. RegistryInv /\ TypeOK
    BY Zenon DEF IInv
  <2>2. \A f \in Registered : IF flight[f].at = 0 THEN f \in spill ELSE slot[flight[f].at] = f
    <3>. SUFFICES ASSUME NEW f \in Registered
                  PROVE  IF flight[f].at = 0 THEN f \in spill ELSE slot[flight[f].at] = f
      BY Zenon
    <3>1. CASE f \in spill
      BY Zenon, <2>1, <3>1 DEF RegistryInv
    <3>2. CASE f \notin spill
      <4>1. PICK s \in 1..FlightSlots : slot[s] = f /\ f # <<>>
        BY Zenon, <3>2, RegisteredMember
      <4>2. flight[f].at = s /\ s # 0
        BY <2>1, <4>1 DEF RegistryInv
      <4>. QED  BY Zenon, <4>1, <4>2
    <3>. QED  BY Zenon, <3>1, <3>2
  <2>3. Registered = UNION {IF pr[p].at \in {"finish", "wake"} THEN Range(Tail(pr[p].owned))
                            ELSE Range(pr[p].owned) : p \in Proc}
    BY Zenon, <2>1 DEF RegistryInv, Held
  <2>. QED  BY Zenon, <2>1, <2>2, <2>3 DEF RegistryExact, RegistryInv
<1>. QED  BY <1>1, Inductive, PTL

\* At most one loader runs for a key at a time, whichever of GetOrLoad, BatchGetOrLoad
\* and the refreshes started it: both owners would have their flight in the registry,
\* which holds one per key.
THEOREM LoadsCoalesce == Spec => []OneLoader
<1>1. ASSUME IInv, NEW p \in Proc, pr[p].at = "loading", NEW k \in pr[p].todo
      PROVE  \E f \in Registered : flight[f].key = k /\ f[1] = p
  <2>1. CallerInv(p) /\ RegistryInv
    BY Zenon, <1>1 DEF IInv
  <2>2. k \in OwnedKeys(p)
    BY Zenon, <1>1, <2>1 DEF CallerInv
  <2>3. PICK f \in Range(pr[p].owned) : flight[f].key = k
    BY Zenon, <2>2 DEF OwnedKeys
  <2>4. f \in Held(p) /\ f[1] = p
    BY Zenon, <1>1, <2>3, OwnFlights DEF Held
  <2>. QED  BY Zenon, <2>1, <2>3, <2>4 DEF RegistryInv
<1>2. IInv => OneLoader
  <2>1. ASSUME IInv, NEW p \in Proc, NEW q \in Proc, pr[p].at = "loading", pr[q].at = "loading",
               NEW k \in Key, k \in pr[p].todo, k \in pr[q].todo
        PROVE  p = q
    <3>1. PICK f \in Registered : flight[f].key = k /\ f[1] = p
      BY Zenon, <1>1, <2>1
    <3>2. PICK g \in Registered : flight[g].key = k /\ g[1] = q
      BY Zenon, <1>1, <2>1
    <3>. QED  BY Zenon, <2>1, <3>1, <3>2 DEF IInv, RegistryInv
  <2>. QED  BY Zenon, <2>1 DEF OneLoader
<1>. QED  BY <1>2, Inductive, PTL

\* release drops a flight before finish marks it over, so a claim never joins one that
\* is over.
THEOREM JoinsAreFresh == Spec => []JoinsFresh
<1>1. ASSUME IInv, NEW f \in Registered PROVE ~flight[f].over
  <2>1. PICK p \in Proc : f \in Held(p)
    BY <1>1 DEF IInv, RegistryInv
  <2>2. OwnedInv(p) /\ pr[p].owned \in Seq(Flights) /\ f \in Range(pr[p].owned)
    BY Zenon, <1>1, <2>1, OwnFlights DEF IInv
  <2>3. PICK n \in 1..Len(pr[p].owned) : pr[p].owned[n] = f
    BY Zenon, <2>2, RangeMember
  <2>4. ASSUME flight[f].over PROVE FALSE
    <3>1. pr[p].at = "wake" /\ n = 1
      BY Zenon, <2>2, <2>3, <2>4 DEF OwnedInv
    <3>2. Head(pr[p].owned) \notin Range(Tail(pr[p].owned))
      BY Zenon, <1>1, <3>1, OwnedRest DEF Owning
    <3>3. f = Head(pr[p].owned)
      BY <2>2, <2>3, <3>1
    <3>. QED  BY Zenon, <2>1, <3>1, <3>2, <3>3 DEF Held
  <2>. QED  BY Zenon, <2>4
<1>2. IInv => JoinsFresh
  BY Zenon, <1>1 DEF JoinsFresh
<1>. QED  BY <1>2, Inductive, PTL

\* A waiter takes a result only when its flight is over, and the owner never writes
\* it afterwards.
THEOREM ReadsAreFinal == Spec => []ReadsFinal
<1>1. IInv => ReadsFinal
  BY Zenon DEF IInv, ReadInv
<1>. QED  BY <1>1, Inductive, PTL
=============================================================================
