---------------------------- MODULE Singleflight ----------------------------
(***************************************************************************)
(* Loads of one key are coalesced (singleflight.go and its users: GetOrLoad *)
(* in cache.go, BatchGetOrLoad in batch.go, GetAndRefresh and              *)
(* BatchGetAndRefresh in getandrefresh.go): a call that misses memory      *)
(* claims the key's flight in a registry bucket or joins the one running;  *)
(* an owner loads, releases its flights and wakes whoever joined.          *)
(*                                                                         *)
(* Each goroutine makes one call.  It stands for the value its loader      *)
(* returns; flight <<p, i>> is the one p allocates for its i-th key.       *)
(***************************************************************************)
EXTENDS Integers, Sequences, Functions

CONSTANTS Key, Proc,
          Calls,       \* the calls made: [op, keys]
          FlightSlots, \* flightSlots, the inline capacity of a bucket
          HasL2,       \* a second level is configured
          CanCancel    \* a waiting caller's context may end

Ops == {"load", "batch", "refresh", "brefresh"}

ASSUME SingleflightAssumption ==
  /\ FlightSlots \in Nat \ {0} /\ HasL2 \in BOOLEAN /\ CanCancel \in BOOLEAN
  /\ \A c \in Calls : c.op \in Ops /\ c.keys \in Seq(Key) \ {<<>>}

Flights == Proc \X UNION {DOMAIN c.keys : c \in Calls}

VARIABLES mem,    \* the value of each key in the first level, or "none"
          slot,   \* the bucket's slots: a flight or <<>>
          spill,  \* the bucket's overflow map
          flight, \* every flightCall, and the slot it was parked in (0: spill)
          pr      \* where each goroutine is

vars == <<mem, slot, spill, flight, pr>>

NoFlight == [key |-> "none", res |-> "panic", joined |-> FALSE, over |-> FALSE,
             waiter |-> "nil", at |-> 0]

\* owned holds the flights still to be released, joined those to be waited
\* for, todo the keys the loader runs for, hits those the second level had,
\* and read what was taken from the flights joined.
Idle == [at |-> "idle", op |-> "none", keys |-> <<>>, i |-> 1, owned |-> <<>>,
         joined |-> <<>>, todo |-> {}, hits |-> {}, read |-> {}]

Init ==
  /\ mem = [k \in Key |-> "none"]
  /\ slot = [s \in 1..FlightSlots |-> <<>>] /\ spill = {}
  /\ flight = [f \in Flights |-> NoFlight]
  /\ pr = [p \in Proc |-> Idle]

\* The flights the registry holds.
Registered == spill \union {slot[s] : s \in {s \in 1..FlightSlots : slot[s] # <<>>}}

OwnedKeys(p) == {flight[f].key : f \in Range(pr[p].owned)}

Begin(p, c) ==
  /\ pr[p].at = "idle"
  /\ pr' = [pr EXCEPT ![p] = [Idle EXCEPT !.op = c.op, !.keys = c.keys,
               !.at = IF c.op \in {"load", "batch"} THEN "look" ELSE "claim"]]
  /\ UNCHANGED <<mem, slot, spill, flight>>

\* Where a call goes once key i is settled: to the next key, to its load, or
\* to the flights it joined.
AfterKey(r) ==
  IF r.i < Len(r.keys)
  THEN [r EXCEPT !.i = @ + 1, !.at = IF r.op = "brefresh" THEN "claim" ELSE "look"]
  ELSE IF r.owned # <<>> THEN [r EXCEPT !.at = IF r.op = "load" THEN "recheck" ELSE "resolve"]
  ELSE IF r.joined # <<>> /\ r.op \in {"load", "batch"} THEN [r EXCEPT !.at = "wait"]
  ELSE [r EXCEPT !.at = "done"]

\* getMemory on the next key.
Look(p) ==
  /\ pr[p].at = "look"
  /\ pr' = [pr EXCEPT ![p] = IF mem[pr[p].keys[pr[p].i]] = "none" THEN [@ EXCEPT !.at = "claim"]
                             ELSE AfterKey(@)]
  /\ UNCHANGED <<mem, slot, spill, flight>>

\* Variant: the overflow map is not searched.
RunningInline(k) == {f \in Registered \ spill : flight[f].key = k}

\* Variant: a flight somebody joined is not found again.
RunningUnjoined(k) == {f \in Registered : flight[f].key = k /\ ~flight[f].joined}

\* The flights a claim of k finds in the bucket.
Running(k) == {f \in Registered : flight[f].key = k}

FreeSlots == {s \in 1..FlightSlots : slot[s] = <<>>}

\* claim: join the flight that is running for the key, or register a new one
\* in the lowest free slot, or in the overflow map.
Claim(p) ==
  LET r == pr[p]
      k == r.keys[r.i]
      g == <<p, r.i>>
  IN  /\ r.at = "claim"
      /\ \/ \E f \in Running(k) :
              /\ flight' = [flight EXCEPT ![f].joined = TRUE]
              /\ pr' = [pr EXCEPT ![p] = AfterKey([r EXCEPT !.joined = Append(@, f)])]
              /\ UNCHANGED <<slot, spill>>
         \/ /\ Running(k) = {}
            /\ \E s \in 0..FlightSlots :
                 /\ IF FreeSlots = {} THEN s = 0
                    ELSE s \in FreeSlots /\ \A x \in FreeSlots : s <= x
                 /\ slot' = IF s = 0 THEN slot ELSE [slot EXCEPT ![s] = g]
                 /\ spill' = IF s = 0 THEN spill \union {g} ELSE spill
                 /\ flight' = [flight EXCEPT ![g] = [NoFlight EXCEPT !.key = k, !.at = s]]
            /\ pr' = [pr EXCEPT ![p] = AfterKey([r EXCEPT !.owned = Append(@, g)])]
      /\ UNCHANGED mem
-----------------------------------------------------------------------------
(***************************************************************************)
(* An owner resolves its keys.                                             *)
(***************************************************************************)

\* doLoad looks at memory again: a flight may have ended before the claim.
Recheck(p) ==
  LET f == Head(pr[p].owned)
      v == mem[flight[f].key]
  IN  /\ pr[p].at = "recheck"
      /\ IF v = "none" THEN pr' = [pr EXCEPT ![p].at = "resolve"] /\ UNCHANGED flight
         ELSE /\ flight' = [flight EXCEPT ![f].res = v]
              /\ pr' = [pr EXCEPT ![p].at = "release"]
      /\ UNCHANGED <<mem, slot, spill>>

\* The second level answers for some of the keys (a refresh does not ask it),
\* and the loader starts on the rest.
AskL2(p, hits) ==
  LET r == pr[p]
  IN  /\ r.at = "resolve"
      /\ hits \subseteq OwnedKeys(p)
      /\ (~HasL2 \/ r.op \in {"refresh", "brefresh"}) => hits = {}
      /\ mem' = [k \in Key |-> IF k \in hits THEN "L2" ELSE mem[k]]
      /\ flight' = IF hits = OwnedKeys(p)
                   THEN [f \in Flights |-> IF f \in Range(r.owned)
                                           THEN [flight[f] EXCEPT !.res = "L2"] ELSE flight[f]]
                   ELSE flight
      /\ pr' = [pr EXCEPT ![p].hits = hits, ![p].todo = OwnedKeys(p) \ hits,
                          ![p].at = IF hits = OwnedKeys(p) THEN "release" ELSE "loading"]
      /\ UNCHANGED <<slot, spill>>

\* The loader returns values for the keys in got and err for the rest, "absent"
\* where it merely left them out; memory is filled and the flights get their
\* results, by assignLoaded for a batch.
Loaded(p, got, err) ==
  LET r == pr[p]
      ResultOf(k) == IF k \in got THEN p ELSE IF k \in r.hits THEN "L2" ELSE err
  IN  /\ r.at = "loading"
      /\ got \subseteq r.todo
      /\ r.op \in {"load", "refresh"} => (err = "absent" <=> got = r.todo)
      /\ mem' = [k \in Key |-> IF k \in got THEN p ELSE mem[k]]
      /\ flight' = [f \in Flights |-> IF f \in Range(r.owned)
                       THEN [flight[f] EXCEPT !.res = ResultOf(flight[f].key)] ELSE flight[f]]
      /\ pr' = [pr EXCEPT ![p].at = "release", ![p].todo = {}]
      /\ UNCHANGED <<slot, spill>>

\* The loader panics, or the second level when it is asked: no result is
\* assigned, the flights keep ErrLoaderPanic.
\* Under a synchronous call the panic goes on to the caller once the deferred
\* releases have run, so it waits for nobody.
LoaderPanics(p) ==
  /\ \/ pr[p].at = "loading"
     \/ pr[p].at = "resolve" /\ HasL2 /\ pr[p].op \notin {"refresh", "brefresh"}
  /\ pr' = [pr EXCEPT ![p].at = "release", ![p].todo = {}, ![p].joined = <<>>]
  /\ UNCHANGED <<mem, slot, spill, flight>>
-----------------------------------------------------------------------------
(***************************************************************************)
(* release and finish.                                                     *)
(***************************************************************************)

\* Where an owner goes when its first flight is released.
AfterRelease(r) ==
  LET rest == Tail(r.owned)
  IN  [r EXCEPT !.owned = rest,
                !.at = IF rest # <<>> THEN "release"
                       ELSE IF r.joined # <<>> /\ r.op = "batch" THEN "wait" ELSE "done"]

\* Variant: waiters are woken before the flight is unregistered.
ReleaseLate(p) ==
  LET f == Head(pr[p].owned)
      s == flight[f].at
  IN  /\ pr[p].at = "release"
      /\ IF flight[f].joined /\ ~flight[f].over
         THEN flight' = [flight EXCEPT ![f].over = TRUE] /\ UNCHANGED <<slot, spill, pr>>
         ELSE /\ slot' = IF s = 0 THEN slot ELSE [slot EXCEPT ![s] = <<>>]
              /\ spill' = spill \ {f}
              /\ pr' = [pr EXCEPT ![p] = IF flight[f].joined THEN [@ EXCEPT !.at = "finish"]
                                         ELSE AfterRelease(@)]
              /\ UNCHANGED flight
      /\ UNCHANGED mem

\* release, under the bucket's lock; a flight nobody joined is not finished.
Release(p) ==
  LET f == Head(pr[p].owned)
      s == flight[f].at
  IN  /\ pr[p].at = "release"
      /\ slot' = IF s = 0 THEN slot ELSE [slot EXCEPT ![s] = <<>>]
      /\ spill' = spill \ {f}
      /\ pr' = [pr EXCEPT ![p] = IF flight[f].joined THEN [@ EXCEPT !.at = "finish"]
                                 ELSE AfterRelease(@)]
      /\ UNCHANGED <<mem, flight>>

\* finish stores over ...
Finish(p) ==
  /\ pr[p].at = "finish"
  /\ flight' = [flight EXCEPT ![Head(pr[p].owned)].over = TRUE]
  /\ pr' = [pr EXCEPT ![p].at = "wake"]
  /\ UNCHANGED <<mem, slot, spill>>

\* ... and then closes the channel if a waiter has published one.
Wake(p) ==
  LET f == Head(pr[p].owned)
  IN  /\ pr[p].at = "wake"
      /\ flight' = [flight EXCEPT ![f].waiter = IF @ = "nil" THEN @ ELSE "closed"]
      /\ pr' = [pr EXCEPT ![p] = AfterRelease(@)]
      /\ UNCHANGED <<mem, slot, spill>>
-----------------------------------------------------------------------------
(***************************************************************************)
(* wait.                                                                   *)
(***************************************************************************)

\* A waiter takes the result of the flight it waited for.
TakeResult(r) ==
  LET f    == Head(r.joined)
      rest == Tail(r.joined)
  IN  [r EXCEPT !.read = @ \union {<<f, flight[f].res>>}, !.joined = rest,
                !.at = IF rest = <<>> THEN "done" ELSE "wait"]

WaitOver(p) ==
  /\ pr[p].at = "wait"
  /\ pr' = [pr EXCEPT ![p] = IF flight[Head(@.joined)].over THEN TakeResult(@)
                             ELSE [@ EXCEPT !.at = "publish"]]
  /\ UNCHANGED <<mem, slot, spill, flight>>

\* Variant: over is not read again once the channel is published.
WaitPublishParks(p) ==
  LET f == Head(pr[p].joined)
  IN  /\ pr[p].at = "publish"
      /\ flight' = [flight EXCEPT ![f].waiter = IF @ = "nil" THEN "open" ELSE @]
      /\ pr' = [pr EXCEPT ![p].at = "park"]
      /\ UNCHANGED <<mem, slot, spill>>

\* The first waiter publishes a channel, the others find it.
WaitPublish(p) ==
  LET f == Head(pr[p].joined)
  IN  /\ pr[p].at = "publish"
      /\ flight' = [flight EXCEPT ![f].waiter = IF @ = "nil" THEN "open" ELSE @]
      /\ pr' = [pr EXCEPT ![p].at = "again"]
      /\ UNCHANGED <<mem, slot, spill>>

WaitAgain(p) ==
  /\ pr[p].at = "again"
  /\ pr' = [pr EXCEPT ![p] = IF flight[Head(@.joined)].over THEN TakeResult(@)
                             ELSE [@ EXCEPT !.at = "park"]]
  /\ UNCHANGED <<mem, slot, spill, flight>>

\* The channel was closed.
WaitWoken(p) ==
  /\ pr[p].at = "park" /\ flight[Head(pr[p].joined)].waiter = "closed"
  /\ pr' = [pr EXCEPT ![p] = TakeResult(@)]
  /\ UNCHANGED <<mem, slot, spill, flight>>

\* Variant: a canceled waiter returns what the flight holds.
WaitCanceledReads(p) ==
  /\ CanCancel /\ pr[p].at = "park"
  /\ pr' = [pr EXCEPT ![p] = TakeResult(@)]
  /\ UNCHANGED <<mem, slot, spill, flight>>

\* The waiter's context ends: its call returns.
WaitCanceled(p) ==
  /\ CanCancel /\ pr[p].at = "park"
  /\ pr' = [pr EXCEPT ![p].at = "done", ![p].joined = <<>>]
  /\ UNCHANGED <<mem, slot, spill, flight>>
-----------------------------------------------------------------------------
\* An eviction, an expiration or a Delete takes a value out of memory.
Forget(k) ==
  /\ mem[k] # "none"
  /\ mem' = [mem EXCEPT ![k] = "none"]
  /\ UNCHANGED <<slot, spill, flight, pr>>

Step(p) ==
  \/ Look(p) \/ Claim(p) \/ Recheck(p) \/ Release(p) \/ Finish(p) \/ Wake(p)
  \/ \E hits \in SUBSET Key : AskL2(p, hits)
  \/ \E got \in SUBSET Key, err \in {"absent", "error"} : Loaded(p, got, err)
  \/ LoaderPanics(p)
  \/ WaitOver(p) \/ WaitPublish(p) \/ WaitAgain(p) \/ WaitWoken(p)

Next == \/ \E p \in Proc : Step(p) \/ WaitCanceled(p) \/ \E c \in Calls : Begin(p, c)
        \/ \E k \in Key : Forget(k)

Spec == Init /\ [][Next]_vars

\* Goroutines are scheduled, and the second level and the loaders return.  No
\* context has to end.
FairSpec == Spec /\ \A p \in Proc : WF_vars(Step(p))
-----------------------------------------------------------------------------
(***************************************************************************)
(* Properties.                                                             *)
(***************************************************************************)

\* The registry holds exactly the flights whose owners have not released them,
\* each where its at says, and one flight per key.
RegistryExact ==
  /\ Registered = UNION {IF pr[p].at \in {"finish", "wake"} THEN Range(Tail(pr[p].owned))
                         ELSE Range(pr[p].owned) : p \in Proc}
  /\ \A f \in Registered : IF flight[f].at = 0 THEN f \in spill ELSE slot[flight[f].at] = f
  /\ \A f, g \in Registered : flight[f].key = flight[g].key => f = g

\* "Concurrent calls for the same key are coalesced (singleflight): load runs
\* once" (comment of GetOrLoad): no two loaders run for one key, whichever of
\* the four operations started them.
OneLoader ==
  \A p, q \in Proc : \A k \in Key :
    (pr[p].at = "loading" /\ pr[q].at = "loading" /\ k \in pr[p].todo /\ k \in pr[q].todo) => p = q

\* "release drops the flight before waking its waiters, so the next call starts
\* a fresh one": a flight that can be joined is not over.
JoinsFresh == \A f \in Registered : ~flight[f].over

\* What a waiter took from a flight is that flight's final result: the owner
\* had finished with it, and never writes it again.
ReadsFinal == \A p \in Proc : \A x \in pr[p].read : flight[x[1]].over /\ flight[x[1]].res = x[2]

\* Every call returns: no waiter misses its wake-up, a panicking loader leaves
\* no flight stuck, and batches that joined each other's (or their own) flights
\* do not wait in a circle.
CallsReturn == \A p \in Proc : (pr[p].at # "idle") ~> (pr[p].at = "done")

=============================================================================
