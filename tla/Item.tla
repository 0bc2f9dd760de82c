-------------------------------- MODULE Item --------------------------------
(***************************************************************************)
(* One item of the slot table (internal/itemstore/item.go) between the     *)
(* holder of the shard mutex, who publishes, overwrites, kills and         *)
(* releases it word by word, and lock-free readers, who copy it word by    *)
(* word and validate the copy by the generation in the meta word.          *)
(*                                                                         *)
(* An atomic operation on the meta word is one step, and so is each load   *)
(* or store of a machine word of the Entry; the loads of a copy, and the   *)
(* stores of a write, take any order.  The fence of item_other.go and the  *)
(* total store order that item_amd64.go relies on keep them between the    *)
(* two loads of the meta word.                                             *)
(***************************************************************************)
EXTENDS Integers

CONSTANTS Reader, Key, Value, NoKey, NoValue,
          Builds,      \* the caches the item may belong to: see build
          GenMod,      \* generations are taken modulo GenMod (2^28)
          MaxWrites    \* bound of the model: generations written

ASSUME ItemAssumption ==
  /\ NoKey \notin Key /\ NoValue \notin Value
  /\ \A b \in Builds : /\ "key" \notin b.word /\ b.word # {}
                       /\ b.offset = {0} \/ (b.offset # {} /\ 0 \notin b.offset)
                       /\ b.refreshOnGet \in BOOLEAN
  /\ GenMod \in Nat /\ GenMod >= 6 /\ GenMod % 2 = 0
  /\ MaxWrites \in Nat

VARIABLES
  build,   \* the machine words of a value, the expiration offsets ({0}
           \* without a TTL) and WithRefreshTTLOnGet
  meta,    \* the meta word
  entry,   \* entry[f]: the word f of the Entry; its key is the word "key"
  wr,      \* the holder of the shard mutex
  rd,      \* rd[r]: reader r
  writes,  \* how many generations were completed
  cur      \* the pair the item holds, as the writers see it

vars == <<build, meta, entry, wr, rd, writes, cur>>

Word == build.word

Offset == build.offset

Field == {"key"} \cup Word

\* unsafe.Sizeof(value) > 8: a value takes more than one word, the machine word
\* being 8 bytes as on every 64-bit GOARCH. (On a 32-bit one a value of 8 bytes is
\* two words that the code still treats as one; that build is not modelled.)
Wide == \E f, g \in Word : f # g

NoPair == <<NoKey, NoValue>>

\* The words of a pair.
Words(p) == [f \in Field |-> IF f = "key" THEN p[1] ELSE p[2]]

\* The meta word: Dead, Free, the two chance bits, expireOff and gen.
Meta == [dead : BOOLEAN, free : BOOLEAN, second : BOOLEAN, third : BOOLEAN,
         exp : Offset \cup {0}, gen : 0..GenMod-1]

ZeroMeta == [dead |-> FALSE, free |-> FALSE, second |-> FALSE, third |-> FALSE,
             exp |-> 0, gen |-> 0]

\* Variant: generation 0 is not skipped.
LiveGenZero(g) == g % GenMod

LiveGen(g) == IF g % GenMod = 0 THEN 2 ELSE g % GenMod

Reusable(m) == m.dead /\ m.free

IdleWriter == [pc |-> "idle", todo |-> {}, pair |-> NoPair, word |-> ZeroMeta]
IdleReader == [pc |-> "idle", key |-> NoKey, word |-> ZeroMeta, copy |-> <<>>,
               start |-> 0, seen |-> {}]

Init ==
  /\ build \in Builds
  /\ meta = ZeroMeta
  /\ entry = Words(NoPair)
  /\ wr = IdleWriter
  /\ rd = [r \in Reader |-> IdleReader]
  /\ writes = 0
  /\ cur = NoPair

\* The item holds pair p from now on: readers under way may return it.
Becomes(p) ==
  /\ cur' = p
  /\ rd' = [r \in Reader |-> [rd[r] EXCEPT !.seen = IF rd[r].pc = "idle" THEN {} ELSE @ \cup {p}]]

-----------------------------------------------------------------------------
(***************************************************************************)
(* The holder of the shard mutex.                                          *)
(***************************************************************************)

\* setMemory claims an empty or released slot, or the tombstone of its key.
BeginPublish(k, v) ==
  /\ wr.pc = "idle" /\ writes < MaxWrites
  /\ meta = ZeroMeta \/ Reusable(meta) \/ (meta.dead /\ entry["key"] = k)
  /\ wr' = [IdleWriter EXCEPT !.pc = "publish", !.todo = Field, !.pair = <<k, v>>]
  /\ UNCHANGED <<meta, entry, rd, writes, cur>>

\* One machine word of the pair is stored, in Publish, SetValue or MakeFree.
StoreWord(f) ==
  /\ f \in wr.todo
  /\ entry' = [entry EXCEPT ![f] = Words(wr.pair)[f]]
  /\ wr' = [wr EXCEPT !.todo = @ \ {f}]
  /\ IF wr.pc = "narrow" THEN Becomes(wr.pair) ELSE UNCHANGED <<rd, cur>>
  /\ UNCHANGED <<meta, writes>>

\* Variant: the generation advances by one, to an odd one.
PublishMetaOdd(off) ==
  /\ wr.pc = "publish" /\ wr.todo = {}
  /\ meta' = [ZeroMeta EXCEPT !.exp = off, !.gen = LiveGen(2 * (meta.gen \div 2) + 1)]
  /\ wr' = IdleWriter
  /\ writes' = writes + 1
  /\ Becomes(wr.pair)
  /\ UNCHANGED entry

\* The end of Publish: the meta word goes live once the Entry is in place.
PublishMeta(off) ==
  /\ wr.pc = "publish" /\ wr.todo = {}
  /\ meta' = [ZeroMeta EXCEPT !.exp = off, !.gen = LiveGen(2 * ((meta.gen + 2) \div 2))]
  /\ wr' = IdleWriter
  /\ writes' = writes + 1
  /\ Becomes(wr.pair)
  /\ UNCHANGED entry

\* Variant: values of several words are written without the odd marker.
BeginWriteUnmarked(v) ==
  /\ wr.pc = "idle" /\ meta # ZeroMeta /\ ~meta.dead /\ Wide /\ writes < MaxWrites
  /\ meta' = meta
  /\ wr' = [IdleWriter EXCEPT !.pc = "wide", !.todo = Word, !.pair = <<entry["key"], v>>]
  /\ UNCHANGED <<entry, rd, writes, cur>>

\* SetValue of a wide value: beginWrite makes the generation odd (its CAS loop
\* ends with one that meets an unchanged word).
BeginWrite(v) ==
  /\ wr.pc = "idle" /\ meta # ZeroMeta /\ ~meta.dead /\ Wide /\ writes < MaxWrites
  /\ meta' = [meta EXCEPT !.gen = (@ + 1) % GenMod]
  /\ wr' = [IdleWriter EXCEPT !.pc = "wide", !.todo = Word, !.pair = <<entry["key"], v>>]
  /\ UNCHANGED <<entry, rd, writes, cur>>

\* SetValue of a value of one word stores it without a new generation.
SetNarrow(v) ==
  /\ wr.pc = "idle" /\ meta # ZeroMeta /\ ~meta.dead /\ ~Wide
  /\ wr' = [IdleWriter EXCEPT !.pc = "narrow", !.todo = Word, !.pair = <<entry["key"], v>>]
  /\ UNCHANGED <<meta, entry, rd, writes, cur>>

\* endWrite: a load and a store, so that a touch between them is lost.
EndWriteLoad ==
  /\ wr.pc = "wide" /\ wr.todo = {}
  /\ wr' = [wr EXCEPT !.pc = "end", !.word = meta]
  /\ UNCHANGED <<meta, entry, rd, writes, cur>>

EndWrite ==
  /\ wr.pc = "end"
  /\ meta' = [wr.word EXCEPT !.gen = LiveGen(wr.word.gen + 1)]
  /\ wr' = [wr EXCEPT !.pc = "refresh"]
  /\ writes' = writes + 1
  /\ Becomes(wr.pair)
  /\ UNCHANGED entry

\* RefreshExpire, again a load and a store; skipped without a TTL.
RefreshLoad ==
  /\ wr.pc = "refresh" \/ (wr.pc = "narrow" /\ wr.todo = {})
  /\ wr' = [wr EXCEPT !.pc = "store", !.word = meta]
  /\ UNCHANGED <<meta, entry, rd, writes, cur>>

RefreshStore(off) ==
  /\ wr.pc = "store"
  /\ meta' = IF off = 0 THEN meta ELSE [wr.word EXCEPT !.exp = off]
  /\ wr' = IdleWriter
  /\ UNCHANGED <<entry, rd, writes, cur>>

\* Kill of a live item.
Kill ==
  /\ wr.pc = "idle" /\ meta # ZeroMeta /\ ~meta.dead
  /\ meta' = [meta EXCEPT !.dead = TRUE]
  /\ Becomes(NoPair)
  /\ UNCHANGED <<entry, wr, writes>>

\* MakeFree of a tombstone: the Entry is zeroed, then the slot is released.
BeginFree ==
  /\ wr.pc = "idle" /\ meta.dead /\ ~meta.free
  /\ wr' = [IdleWriter EXCEPT !.pc = "free", !.todo = Field]
  /\ UNCHANGED <<meta, entry, rd, writes, cur>>

MakeFree ==
  /\ wr.pc = "free" /\ wr.todo = {}
  /\ meta' = [meta EXCEPT !.free = TRUE]
  /\ wr' = IdleWriter
  /\ UNCHANGED <<entry, rd, writes, cur>>

\* The policy looks at the meta word and withdraws a chance.
PolicyLoad ==
  /\ wr.pc = "idle" /\ ~meta.dead
  /\ meta.second \/ meta.third
  /\ wr' = [IdleWriter EXCEPT !.pc = "policy", !.word = meta]
  /\ UNCHANGED <<meta, entry, rd, writes, cur>>

RevokeChance ==
  /\ wr.pc = "policy"
  /\ meta' = IF wr.word.third THEN [meta EXCEPT !.third = FALSE]
                              ELSE [meta EXCEPT !.second = FALSE]
  /\ wr' = IdleWriter
  /\ UNCHANGED <<entry, rd, writes, cur>>

ResetChances ==
  /\ wr.pc = "policy"
  /\ meta' = [meta EXCEPT !.second = FALSE, !.third = FALSE]
  /\ wr' = IdleWriter
  /\ UNCHANGED <<entry, rd, writes, cur>>

-----------------------------------------------------------------------------
(***************************************************************************)
(* A reader: the inner loop of getMemory for one slot.  Tags are dropped:  *)
(* every live item is a candidate, and the keys are compared.              *)
(***************************************************************************)

\* The load of the meta word; a zero or dead word is not a candidate.
Load(r, k) ==
  /\ \/ rd[r].pc = "idle"
     \/ rd[r].pc = "load" /\ rd[r].key = k
  /\ rd' = [rd EXCEPT ![r] =
              IF meta = ZeroMeta \/ meta.dead THEN IdleReader
              ELSE [pc |-> "copy", key |-> k, word |-> meta, copy |-> <<>>,
                    start |-> writes, seen |-> {cur}]]
  /\ UNCHANGED <<meta, entry, wr, writes, cur>>

\* snapshotEntryInto copies one machine word.
CopyWord(r, f) ==
  /\ rd[r].pc = "copy" /\ f \notin DOMAIN rd[r].copy
  /\ rd' = [rd EXCEPT ![r].copy = [g \in DOMAIN @ \cup {f} |-> IF g = f THEN entry[f] ELSE @[g]]]
  /\ UNCHANGED <<meta, entry, wr, writes, cur>>

\* SnapshotInto's verdict on a copy taken under word w, when the item reads m.
Consistent(m, w) == m.dead = w.dead /\ m.gen = w.gen /\ w.gen % 2 = 0

Validate(r) ==
  /\ rd[r].pc = "copy" /\ DOMAIN rd[r].copy = Field
  /\ rd' = [rd EXCEPT ![r] =
              IF ~Consistent(meta, rd[r].word) THEN [@ EXCEPT !.pc = "load"]
              ELSE IF rd[r].copy["key"] # rd[r].key THEN IdleReader
              ELSE [@ EXCEPT !.pc = "hit"]]
  /\ UNCHANGED <<meta, entry, wr, writes, cur>>

\* The item with the next chance granted, given the word the reader loaded.
Touched(m, w) ==
  IF ~w.second THEN [m EXCEPT !.second = TRUE]
  ELSE IF ~w.third THEN [m EXCEPT !.third = TRUE]
  ELSE m

\* TouchWith; its idle reader has returned the value.
TouchWith(r) ==
  /\ rd[r].pc = "hit"
  /\ meta' = Touched(meta, rd[r].word)
  /\ rd' = [rd EXCEPT ![r] = IdleReader]
  /\ UNCHANGED <<entry, wr, writes, cur>>

\* Variant: a store in place of the compare-and-swap.
TouchAndRefreshExpireStore(r, off) ==
  /\ build.refreshOnGet /\ rd[r].pc = "hit" /\ off # rd[r].word.exp
  /\ meta' = [Touched(rd[r].word, rd[r].word) EXCEPT !.exp = off]
  /\ rd' = [rd EXCEPT ![r] = IdleReader]
  /\ UNCHANGED <<entry, wr, writes, cur>>

\* TouchAndRefreshExpire succeeds when the whole word is still the loaded one;
\* when it fails the reader goes on to TouchWith.
TouchAndRefreshExpire(r, off) ==
  /\ build.refreshOnGet /\ rd[r].pc = "hit" /\ off # rd[r].word.exp
  /\ meta = rd[r].word
  /\ meta' = [Touched(rd[r].word, rd[r].word) EXCEPT !.exp = off]
  /\ rd' = [rd EXCEPT ![r] = IdleReader]
  /\ UNCHANGED <<entry, wr, writes, cur>>

\* The loaded word shows an elapsed TTL: the reader leaves for dropExpired.
HitExpired(r) ==
  /\ rd[r].pc = "hit" /\ rd[r].word.exp # 0
  /\ rd' = [rd EXCEPT ![r] = IdleReader]
  /\ UNCHANGED <<meta, entry, wr, writes, cur>>

Writer ==
  \/ \E f \in Field : StoreWord(f)
  \/ \E off \in Offset : PublishMeta(off) \/ RefreshStore(off)
  \/ EndWriteLoad \/ EndWrite \/ RefreshLoad \/ MakeFree \/ RevokeChance \/ ResetChances

Reads(r) ==
  \/ rd[r].pc = "load" /\ Load(r, rd[r].key)
  \/ \E f \in Field : CopyWord(r, f)
  \/ Validate(r) \/ TouchWith(r) \/ HitExpired(r)
  \/ \E off \in Offset : TouchAndRefreshExpire(r, off)

Step ==
  \/ \E k \in Key, v \in Value : BeginPublish(k, v)
  \/ \E v \in Value : BeginWrite(v) \/ SetNarrow(v)
  \/ Kill \/ BeginFree \/ PolicyLoad
  \/ Writer
  \/ \E r \in Reader : Reads(r) \/ \E k \in Key : rd[r].pc = "idle" /\ Load(r, k)

Next == Step /\ UNCHANGED build

Spec == Init /\ [][Next]_vars
-----------------------------------------------------------------------------
(***************************************************************************)
(* Properties.                                                             *)
(***************************************************************************)

\* How often the generation may advance before it comes around.
Period == (GenMod \div 2) - 1

\* A reader that validated its snapshot returns one whole pair, under its own
\* key, that the item held at some moment of the read: never half of an
\* overwritten, killed, zeroed or recycled one.  The 28 bits of the generation
\* limit this to reads during which it does not come around.
ReadsWhole ==
  \A r \in Reader :
    (rd[r].pc = "hit" /\ writes - rd[r].start < Period)
      => \E p \in rd[r].seen : p # NoPair /\ p[1] = rd[r].key /\ rd[r].copy = Words(p)

\* Only Publish brings a tombstone back to life, and nothing else takes the
\* Free bit: no touch or TTL refresh by a reader that saw the item alive undoes
\* a Kill or a MakeFree.
DeadStaysDead ==
  [][\A m \in {meta} : (m.dead /\ ~meta'.dead) \/ (m.free /\ ~meta'.free) => wr.pc = "publish"]_vars

\* An occupied slot never reads as a never-occupied one, which would end the
\* probe chains that lead past it, even as the generation comes around.
NeverZeroAgain == [][meta # ZeroMeta => meta' # ZeroMeta]_vars

\* The generation is odd only while a writer is between beginWrite and endWrite:
\* no write leaves behind an item on which readers would retry for ever.
OddOnlyInWrite == meta.gen % 2 = 1 => wr.pc \in {"wide", "end"}
=============================================================================
