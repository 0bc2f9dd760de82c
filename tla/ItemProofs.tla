----------------------------- MODULE ItemProofs -----------------------------
(***************************************************************************)
(* The seqlock of Item, for any number of readers, keys, values and words, *)
(* and any even modulus of the generations: what a reader validates is one *)
(* whole pair, a dead item stays dead, an occupied one never reads as      *)
(* empty.                                                                  *)
(***************************************************************************)
EXTENDS Item, TLAPS

Atoms == Key \cup {NoKey} \cup Value \cup {NoValue}

Pairs == (Key \cup {NoKey}) \X (Value \cup {NoValue})

\* The copies of some words of the Entry.
Copies == UNION {[d -> Atoms] : d \in SUBSET Field}

Writers ==
  [pc : {"idle", "publish", "wide", "narrow", "end", "refresh", "store", "free", "policy"},
   todo : SUBSET Field, pair : Pairs, word : Meta]

Readers ==
  [pc : {"idle", "load", "copy", "hit"}, key : Key \cup {NoKey}, word : Meta,
   copy : Copies, start : Nat, seen : SUBSET Pairs]

TypeOK ==
  /\ build \in Builds
  /\ meta \in Meta
  /\ entry \in [Field -> Atoms]
  /\ wr \in Writers
  /\ rd \in [Reader -> Readers]
  /\ writes \in Nat
  /\ cur \in Pairs

Live == meta # ZeroMeta /\ ~meta.dead

\* What the meta word says while the writer is at wr.pc.
MetaInv ==
  /\ meta.free => meta.dead
  /\ meta # ZeroMeta => meta.gen # 0
  /\ meta.gen % 2 = 1 <=> wr.pc \in {"wide", "end"}
  /\ wr.pc \in {"wide", "end", "refresh", "store", "narrow", "policy"} => Live
  /\ wr.pc \in {"publish", "free"} => ~Live
  /\ wr.pc = "free" => meta # ZeroMeta
  /\ wr.pc \in {"end", "store"} => wr.word.gen = meta.gen /\ ~wr.word.dead /\ ~wr.word.free

\* What the Entry holds while the writer is at wr.pc.
EntryInv ==
  /\ wr.pc \in {"idle", "end", "refresh", "store", "policy"} => wr.todo = {}
  /\ wr.pc \in {"wide", "narrow"} => wr.todo \subseteq Word
  /\ wr.pc = "narrow" => ~Wide /\ wr.pair[1] = cur[1]
  /\ wr.pc \in {"publish", "wide", "narrow", "end"} => wr.pair \in Key \X Value
  /\ wr.pc \in {"publish", "wide", "end"} => \A f \in Field \ wr.todo : entry[f] = Words(wr.pair)[f]
  /\ Live => cur \in Key \X Value
  /\ Live /\ wr.pc \notin {"wide", "end"} => entry = Words(cur)

\* The last even generation.
Even == IF meta.gen % 2 = 1 THEN meta.gen - 1 ELSE meta.gen

\* The generations from g on, as far as they do not come around.
Advanced(g, n) == IF g + 2 * n < GenMod THEN g + 2 * n ELSE g + 2 * n - (GenMod - 2)

\* How far the generation is past the one that reader r loaded.
GenInv(r) ==
  LET n == writes - rd[r].start
  IN  rd[r].word.gen % 2 = 0 /\ n < Period => Even = Advanced(rd[r].word.gen, n)

\* While the generation is still the loaded one, the words copied so far belong
\* to one pair the item held since.  Of a wide pair there has been only one.
CopyInv(r) ==
  rd[r].start = writes /\ meta.gen = rd[r].word.gen /\ meta.gen % 2 = 0 /\ ~meta.dead =>
    \E p \in rd[r].seen : /\ p \in Key \X Value /\ p[1] = cur[1]
                          /\ Wide => p = cur
                          /\ \A f \in DOMAIN rd[r].copy : rd[r].copy[f] = Words(p)[f]

ReaderInv(r) ==
  /\ rd[r].pc # "idle" => meta # ZeroMeta
  /\ rd[r].pc \in {"copy", "hit"} => rd[r].start <= writes /\ rd[r].word.gen # 0
  /\ rd[r].pc = "copy" => ~rd[r].word.dead /\ cur \in rd[r].seen /\ GenInv(r) /\ CopyInv(r)
  /\ rd[r].pc = "hit" /\ writes - rd[r].start < Period =>
       \E p \in rd[r].seen : p # NoPair /\ p[1] = rd[r].key /\ rd[r].copy = Words(p)

IInv == TypeOK /\ MetaInv /\ EntryInv /\ \A r \in Reader : ReaderInv(r)

\* A step that changes at most the chance bits and the expiration of an occupied
\* item.
SoftMeta ==
  /\ meta' \in Meta /\ meta'.dead = meta.dead /\ meta'.free = meta.free /\ meta'.gen = meta.gen
  /\ meta' = ZeroMeta <=> meta = ZeroMeta

-----------------------------------------------------------------------------
(***************************************************************************)
(* Generations.                                                            *)
(***************************************************************************)

\* Publish and endWrite (liveGen) take an even generation to the next one, and
\* the last one to 2; beginWrite takes it to the odd one in between.
LEMMA NextGen ==
  ASSUME NEW g \in 0..GenMod-1, g % 2 = 0
  PROVE  /\ g + 2 <= GenMod
         /\ (g + 1) % GenMod = g + 1 /\ (g + 1) % 2 = 1
         /\ LiveGen(2 * ((g + 2) \div 2)) = IF g + 2 < GenMod THEN g + 2 ELSE 2
         /\ LiveGen(g + 2) = IF g + 2 < GenMod THEN g + 2 ELSE 2
<1>1. GenMod \in Nat /\ GenMod >= 6 /\ GenMod % 2 = 0
  BY Zenon, ItemAssumption
<1>2. g + 2 <= GenMod
  BY <1>1
<1>3. (g + 1) % GenMod = g + 1 /\ (g + 1) % 2 = 1
  BY <1>1, <1>2
<1>4. 2 * ((g + 2) \div 2) = g + 2
  BY <1>1
<1>5. CASE g + 2 < GenMod
  BY <1>1, <1>2, <1>4, <1>5, (g + 2) % GenMod = g + 2 DEF LiveGen
<1>6. CASE g + 2 = GenMod
  <2>1. GenMod % GenMod = 0
    BY <1>1
  <2>. QED  BY <1>1, <1>3, <1>4, <1>6, <2>1 DEF LiveGen
<1>. QED  BY <1>1, <1>2, <1>3, <1>5, <1>6

-----------------------------------------------------------------------------
(***************************************************************************)
(* The inductive invariant, conjunct by conjunct.                          *)
(***************************************************************************)

\* The cache never changes the type of its items.
LEMMA SameBuild ==
  ASSUME UNCHANGED build
  PROVE  /\ Word' = Word /\ Offset' = Offset /\ Field' = Field /\ Wide' = Wide /\ Meta' = Meta
         /\ Copies' = Copies /\ Writers' = Writers /\ Readers' = Readers
         /\ \A p : Words(p)' = Words(p)
BY Zenon DEF Word, Offset, Field, Wide, Meta, Copies, Writers, Readers, Words

\* Nothing is copied before the first CopyWord, one word more after each.
LEMMA CopyTypes ==
  /\ <<>> \in Copies /\ DOMAIN <<>> = {}
  /\ \A c \in Copies : /\ DOMAIN c \subseteq Field
                       /\ \A f \in Field, a \in Atoms :
                            [g \in DOMAIN c \cup {f} |-> IF g = f THEN a ELSE c[g]] \in Copies
<1>1. <<>> \in [{} -> Atoms] /\ DOMAIN <<>> = {}
  OBVIOUS
<1>2. <<>> \in Copies
  BY Zenon, <1>1 DEF Copies
<1>3. ASSUME NEW c \in Copies PROVE
        /\ DOMAIN c \subseteq Field
        /\ \A f \in Field, a \in Atoms :
             [g \in DOMAIN c \cup {f} |-> IF g = f THEN a ELSE c[g]] \in Copies
  <2>1. PICK d \in SUBSET Field : c \in [d -> Atoms]
    BY Zenon DEF Copies
  <2>2. ASSUME NEW f \in Field, NEW a \in Atoms
        PROVE  [g \in DOMAIN c \cup {f} |-> IF g = f THEN a ELSE c[g]] \in Copies
    <3>1. [g \in DOMAIN c \cup {f} |-> IF g = f THEN a ELSE c[g]] \in [d \cup {f} -> Atoms]
      BY Zenon, <2>1
    <3>2. d \cup {f} \in SUBSET Field
      BY Zenon
    <3>. QED  BY Zenon, <3>1, <3>2 DEF Copies
  <2>. QED  BY Zenon, <2>1, <2>2
<1>. QED  BY Zenon, <1>1, <1>2, <1>3

\* The invariant holds of a slot that nothing was stored in.
LEMMA InitIInv == Init => IInv
<1>. SUFFICES ASSUME Init PROVE IInv
  BY Zenon
<1>. USE DEF Init, IdleWriter, IdleReader, NoPair
<1>1. ZeroMeta \in Meta /\ ZeroMeta.gen = 0 /\ ~ZeroMeta.free /\ ~ZeroMeta.dead
  BY ItemAssumption DEF ZeroMeta, Meta
<1>2. TypeOK
  BY Zenon, <1>1, CopyTypes DEF TypeOK, Writers, Readers, Words, Pairs, Atoms
<1>3. MetaInv
  BY <1>1 DEF MetaInv, Live
<1>4. EntryInv
  BY Zenon, <1>1 DEF EntryInv, Live
<1>5. \A r \in Reader : ReaderInv(r)
  BY Zenon DEF ReaderInv
<1>. QED  BY Zenon, <1>2, <1>3, <1>4, <1>5 DEF IInv

\* The constant words and pairs, and what is stored, are well-typed.
LEMMA BaseTypes ==
  ASSUME TypeOK
  PROVE  /\ ZeroMeta \in Meta /\ ZeroMeta.gen = 0 /\ ~ZeroMeta.free /\ ~ZeroMeta.dead
         /\ NoPair \in Pairs /\ Key \X Value \subseteq Pairs
         /\ IdleWriter \in Writers /\ IdleReader \in Readers
         /\ "key" \in Field /\ Word \subseteq Field /\ "key" \notin Word /\ Word # {}
         /\ \A p \in Pairs : Words(p) \in [Field -> Atoms]
<1>1. ZeroMeta \in Meta /\ ZeroMeta.gen = 0 /\ ~ZeroMeta.free /\ ~ZeroMeta.dead
  BY ItemAssumption DEF ZeroMeta, Meta
<1>2. NoPair \in Pairs /\ Key \X Value \subseteq Pairs
  BY Zenon DEF NoPair, Pairs
<1>3. IdleWriter \in Writers
  BY Zenon, <1>1, <1>2 DEF IdleWriter, Writers
<1>4. IdleReader \in Readers
  BY Zenon, <1>1, CopyTypes DEF IdleReader, Readers
<1>5. "key" \in Field /\ Word \subseteq Field /\ "key" \notin Word /\ Word # {}
  BY Zenon, ItemAssumption DEF TypeOK, Field, Word
<1>6. \A p \in Pairs : Words(p) \in [Field -> Atoms]
  BY Zenon DEF Pairs, Atoms, Words
<1>. QED  BY Zenon, <1>1, <1>2, <1>3, <1>4, <1>5, <1>6

\* When the item becomes p, the readers under way see p, and nothing else of
\* them changes.
LEMMA BecomesReaders ==
  ASSUME TypeOK, NEW p \in Pairs, Becomes(p)
  PROVE  /\ cur' = p /\ rd' \in [Reader -> Readers]
         /\ \A r \in Reader :
              /\ rd'[r].pc = rd[r].pc /\ rd'[r].key = rd[r].key /\ rd'[r].word = rd[r].word
              /\ rd'[r].copy = rd[r].copy /\ rd'[r].start = rd[r].start
              /\ rd[r].pc # "idle" => rd'[r].seen = rd[r].seen \cup {p}
<1>1. cur' = p
  BY Zenon DEF Becomes
<1>2. ASSUME NEW r \in Reader
      PROVE  /\ rd'[r] \in Readers
             /\ rd'[r].pc = rd[r].pc /\ rd'[r].key = rd[r].key /\ rd'[r].word = rd[r].word
             /\ rd'[r].copy = rd[r].copy /\ rd'[r].start = rd[r].start
             /\ rd[r].pc # "idle" => rd'[r].seen = rd[r].seen \cup {p}
  <2>1. rd[r] \in Readers
    BY Zenon DEF TypeOK
  <2>2. rd'[r] = [rd[r] EXCEPT !.seen = IF rd[r].pc = "idle" THEN {} ELSE rd[r].seen \cup {p}]
    BY Zenon DEF Becomes
  <2>. QED  BY <2>1, <2>2 DEF Readers
<1>3. rd' = [r \in Reader |-> rd'[r]]
  BY Zenon DEF Becomes
<1>4. rd' \in [Reader -> Readers]
  BY Zenon, <1>2, <1>3
<1>. QED  BY Zenon, <1>1, <1>2, <1>4

\* PublishMeta makes an item live that was zero or dead: its word is a word
\* with the next generation.
LEMMA PublishedMeta ==
  ASSUME TypeOK, MetaInv, NEW off \in Offset, PublishMeta(off)
  PROVE  /\ meta' \in Meta /\ ~meta'.dead /\ ~meta'.free
         /\ meta.gen % 2 = 0 /\ meta.gen + 2 <= GenMod
         /\ meta'.gen = IF meta.gen + 2 < GenMod THEN meta.gen + 2 ELSE 2
<1>1. meta.gen \in 0..GenMod-1 /\ meta.gen % 2 = 0
  BY DEF TypeOK, MetaInv, Meta, PublishMeta
<1>2. meta' = [dead |-> FALSE, free |-> FALSE, second |-> FALSE, third |-> FALSE, exp |-> off,
               gen |-> LiveGen(2 * ((meta.gen + 2) \div 2))]
  BY Zenon DEF PublishMeta, ZeroMeta
<1>3. /\ meta.gen + 2 <= GenMod
      /\ LiveGen(2 * ((meta.gen + 2) \div 2)) = IF meta.gen + 2 < GenMod THEN meta.gen + 2 ELSE 2
  BY Zenon, <1>1, NextGen
<1>4. LiveGen(2 * ((meta.gen + 2) \div 2)) \in 0..GenMod-1
  BY <1>1, <1>3, ItemAssumption
<1>. QED  BY Zenon, <1>1, <1>2, <1>3, <1>4 DEF Meta

\* EndWrite leaves the word loaded by endWrite, with the next even generation.
LEMMA EndedMeta ==
  ASSUME TypeOK, MetaInv, EndWrite
  PROVE  /\ meta' \in Meta /\ ~meta'.dead /\ ~meta'.free
         /\ meta.gen % 2 = 1 /\ meta.gen - 1 + 2 <= GenMod
         /\ meta'.gen = IF meta.gen - 1 + 2 < GenMod THEN meta.gen - 1 + 2 ELSE 2
<1>1. /\ wr.word \in Meta /\ wr.word.gen = meta.gen /\ ~wr.word.dead /\ ~wr.word.free
      /\ meta.gen \in 0..GenMod-1 /\ meta.gen % 2 = 1
  BY Zenon DEF TypeOK, MetaInv, Meta, Writers, EndWrite
<1>2. meta.gen - 1 \in 0..GenMod-1 /\ (meta.gen - 1) % 2 = 0 /\ wr.word.gen + 1 = meta.gen - 1 + 2
  BY <1>1, ItemAssumption
<1>3. /\ meta.gen - 1 + 2 <= GenMod
      /\ LiveGen(wr.word.gen + 1) = IF meta.gen - 1 + 2 < GenMod THEN meta.gen - 1 + 2 ELSE 2
  BY Zenon, <1>2, NextGen
<1>4. LiveGen(wr.word.gen + 1) \in 0..GenMod-1
  BY <1>1, <1>2, <1>3, ItemAssumption
<1>5. meta' = [wr.word EXCEPT !.gen = LiveGen(wr.word.gen + 1)]
  BY Zenon DEF EndWrite
<1>. QED  BY Zenon, <1>1, <1>3, <1>4, <1>5 DEF Meta

\* Refreshing the TTL, granting and withdrawing chances are soft.
LEMMA SoftSteps ==
  ASSUME IInv
  PROVE  /\ UNCHANGED meta => SoftMeta
         /\ \A off \in Offset : RefreshStore(off) => SoftMeta
         /\ RevokeChance => SoftMeta
         /\ ResetChances => SoftMeta
         /\ \A r \in Reader : TouchWith(r) => SoftMeta
         /\ \A r \in Reader, off \in Offset : TouchAndRefreshExpire(r, off) => SoftMeta
<1>. USE DEF SoftMeta
<1>1. meta \in Meta /\ (meta # ZeroMeta => meta.gen # 0) /\ ZeroMeta.gen = 0
  BY Zenon, BaseTypes DEF IInv, TypeOK, MetaInv
<1>2. UNCHANGED meta => SoftMeta
  BY Zenon, <1>1
<1>3. ASSUME NEW off \in Offset, RefreshStore(off) PROVE SoftMeta
  <2>1. /\ wr.word \in Meta /\ wr.word.gen = meta.gen /\ ~wr.word.dead /\ ~wr.word.free
        /\ meta # ZeroMeta /\ ~meta.dead /\ ~meta.free
    BY Zenon, <1>3 DEF IInv, TypeOK, MetaInv, Live, Writers, RefreshStore
  <2>2. CASE off = 0
    BY Zenon, <1>1, <1>3, <2>2 DEF RefreshStore
  <2>3. CASE off # 0
    <3>1. meta' = [wr.word EXCEPT !.exp = off]
      BY Zenon, <1>3, <2>3 DEF RefreshStore
    <3>2. meta' \in Meta /\ meta'.gen = meta.gen /\ ~meta'.dead /\ ~meta'.free
      BY Zenon, <2>1, <3>1 DEF Meta
    <3>3. meta.dead = FALSE /\ meta.free = FALSE /\ meta'.dead = FALSE /\ meta'.free = FALSE
      BY Zenon, <1>1, <2>1, <3>2 DEF Meta
    <3>. QED  BY Zenon, <1>1, <2>1, <3>2, <3>3
  <2>. QED  BY Zenon, <2>2, <2>3
<1>4. ASSUME wr.pc = "policy" PROVE meta # ZeroMeta
  BY Zenon, <1>4 DEF IInv, MetaInv, Live
<1>5. RevokeChance => SoftMeta
  <2>1. ASSUME NEW m, m \in Meta, m.dead = meta.dead, m.free = meta.free, m.gen = meta.gen,
               RevokeChance, meta' = m
        PROVE  SoftMeta
    <3>1. meta # ZeroMeta
      BY Zenon, <1>4, <2>1 DEF RevokeChance
    <3>. QED  BY Zenon, <1>1, <2>1, <3>1
  <2>2. CASE wr.word.third
    <3>. DEFINE m == [meta EXCEPT !.third = FALSE]
    <3>1. m \in Meta /\ m.dead = meta.dead /\ m.free = meta.free /\ m.gen = meta.gen
      BY Zenon, <1>1 DEF Meta
    <3>. QED  BY Zenon, <2>1, <2>2, <3>1 DEF RevokeChance
  <2>3. CASE ~wr.word.third
    <3>. DEFINE m == [meta EXCEPT !.second = FALSE]
    <3>1. m \in Meta /\ m.dead = meta.dead /\ m.free = meta.free /\ m.gen = meta.gen
      BY Zenon, <1>1 DEF Meta
    <3>. QED  BY Zenon, <2>1, <2>3, <3>1 DEF RevokeChance
  <2>. QED  BY Zenon, <2>2, <2>3
<1>6. ResetChances => SoftMeta
  <2>1. ResetChances => /\ meta' \in Meta /\ meta'.dead = meta.dead /\ meta'.free = meta.free
                        /\ meta'.gen = meta.gen
    BY Zenon, <1>1 DEF ResetChances, Meta
  <2>2. ResetChances => meta # ZeroMeta
    BY Zenon, <1>4 DEF ResetChances
  <2>. QED  BY Zenon, <1>1, <2>1, <2>2
<1>7. ASSUME NEW r \in Reader, rd[r].pc = "hit" PROVE meta # ZeroMeta
  BY Zenon, <1>7 DEF IInv, ReaderInv
<1>8. ASSUME NEW r \in Reader, TouchWith(r) PROVE SoftMeta
  BY <1>1, <1>7, <1>8, ZenonT(60) DEF TouchWith, Touched, Meta
<1>9. ASSUME NEW r \in Reader, NEW off \in Offset, TouchAndRefreshExpire(r, off) PROVE SoftMeta
  <2>1. meta # ZeroMeta /\ meta' = [Touched(meta, meta) EXCEPT !.exp = off]
    BY Zenon, <1>7, <1>9 DEF TouchAndRefreshExpire
  <2>2. Touched(meta, meta) \in Meta /\ Touched(meta, meta).gen = meta.gen
        /\ Touched(meta, meta).dead = meta.dead /\ Touched(meta, meta).free = meta.free
    BY Zenon, <1>1 DEF Touched, Meta
  <2>3. meta' \in Meta /\ meta'.gen = meta.gen /\ meta'.dead = meta.dead /\ meta'.free = meta.free
    BY Zenon, <2>1, <2>2 DEF Meta
  <2>. QED  BY Zenon, <1>1, <2>1, <2>3
<1>. QED  BY Zenon, <1>2, <1>3, <1>5, <1>6, <1>8, <1>9

\* SetValue finds the key and the value of the live item in its Entry.
LEMMA LiveEntry ==
  ASSUME IInv, wr.pc = "idle", meta # ZeroMeta, ~meta.dead, NEW v \in Value
  PROVE  /\ entry = Words(cur) /\ cur \in Key \X Value
         /\ entry["key"] = cur[1] /\ <<entry["key"], v>> \in Key \X Value
<1>1. entry = Words(cur) /\ cur \in Key \X Value
  BY Zenon DEF IInv, EntryInv, Live
<1>2. entry["key"] = cur[1]
  BY Zenon, <1>1, BaseTypes DEF Words, IInv
<1>. QED  BY Zenon, <1>1, <1>2

\* Every step keeps the types.
LEMMA TypeStep ==
  ASSUME IInv, Next
  PROVE  TypeOK'
<1>1. /\ build \in Builds /\ meta \in Meta /\ entry \in [Field -> Atoms] /\ wr \in Writers
      /\ rd \in [Reader -> Readers] /\ writes \in Nat /\ cur \in Pairs
      /\ IdleWriter \in Writers /\ IdleReader \in Readers /\ ZeroMeta \in Meta /\ NoPair \in Pairs
      /\ "key" \in Field /\ Word \subseteq Field /\ Key \X Value \subseteq Pairs
  BY Zenon, BaseTypes DEF IInv, TypeOK
<1>2. /\ build' = build /\ Field' = Field /\ Meta' = Meta /\ Writers' = Writers /\ Readers' = Readers
  BY Zenon, SameBuild DEF Next
<1>3. ASSUME meta' \in Meta, entry' \in [Field -> Atoms], wr' \in Writers,
             rd' \in [Reader -> Readers], writes' \in Nat, cur' \in Pairs
      PROVE  TypeOK'
  BY Zenon, <1>1, <1>2, <1>3 DEF TypeOK
<1>4. TypeOK /\ MetaInv
  BY Zenon DEF IInv
<1>5. ASSUME NEW k \in Key, NEW v \in Value, BeginPublish(k, v) PROVE TypeOK'
  BY Zenon, <1>1, <1>3, <1>5 DEF BeginPublish, Writers, IdleWriter
<1>6. ASSUME NEW v \in Value, BeginWrite(v) PROVE TypeOK'
  <2>1. <<entry["key"], v>> \in Pairs
    BY Zenon, <1>1, <1>6, LiveEntry DEF BeginWrite
  <2>2. wr' \in Writers
    BY Zenon, <1>1, <1>6, <2>1 DEF BeginWrite, Writers, IdleWriter
  <2>3. (meta.gen + 1) % GenMod \in 0..GenMod-1
    BY <1>1, ItemAssumption DEF Meta
  <2>4. meta' \in Meta
    BY Zenon, <1>1, <1>6, <2>3 DEF BeginWrite, Meta
  <2>. QED  BY Zenon, <1>1, <1>3, <1>6, <2>2, <2>4 DEF BeginWrite
<1>7. ASSUME NEW v \in Value, SetNarrow(v) PROVE TypeOK'
  <2>1. <<entry["key"], v>> \in Pairs
    BY Zenon, <1>1, <1>7, LiveEntry DEF SetNarrow
  <2>2. wr' \in Writers
    BY Zenon, <1>1, <1>7, <2>1 DEF SetNarrow, Writers, IdleWriter
  <2>. QED  BY Zenon, <1>1, <1>3, <1>7, <2>2 DEF SetNarrow
<1>8. ASSUME Kill PROVE TypeOK'
  <2>1. rd' \in [Reader -> Readers] /\ cur' \in Pairs
    BY Zenon, <1>1, <1>4, <1>8, BecomesReaders DEF Kill
  <2>2. meta' \in Meta
    BY Zenon, <1>1, <1>8 DEF Kill, Meta
  <2>. QED  BY Zenon, <1>1, <1>3, <1>8, <2>1, <2>2 DEF Kill
<1>9. BeginFree => TypeOK'
  BY Zenon, <1>1, <1>3 DEF BeginFree, Writers, IdleWriter
<1>10. PolicyLoad => TypeOK'
  BY Zenon, <1>1, <1>3 DEF PolicyLoad, Writers, IdleWriter
<1>11. ASSUME NEW f \in Field, StoreWord(f) PROVE TypeOK'
  <2>1. wr.pair \in Pairs /\ wr' \in Writers
    BY Zenon, <1>1, <1>11 DEF StoreWord, Writers
  <2>2. entry' \in [Field -> Atoms]
    BY Zenon, <1>1, <1>4, <1>11, <2>1, BaseTypes DEF StoreWord
  <2>3. rd' \in [Reader -> Readers] /\ cur' \in Pairs
    BY Zenon, <1>1, <1>4, <1>11, <2>1, BecomesReaders DEF StoreWord
  <2>. QED  BY Zenon, <1>1, <1>3, <1>11, <2>1, <2>2, <2>3 DEF StoreWord
<1>12. ASSUME NEW off \in Offset, PublishMeta(off) PROVE TypeOK'
  <2>1. rd' \in [Reader -> Readers] /\ cur' \in Pairs
    BY Zenon, <1>1, <1>4, <1>12, BecomesReaders DEF PublishMeta, Writers
  <2>2. meta' \in Meta
    BY Zenon, <1>4, <1>12, PublishedMeta
  <2>3. entry' = entry /\ wr' = IdleWriter /\ writes' = writes + 1
    BY Zenon, <1>12 DEF PublishMeta
  <2>. QED  BY <1>1, <1>3, <2>1, <2>2, <2>3
<1>13. ASSUME EndWrite PROVE TypeOK'
  <2>1. rd' \in [Reader -> Readers] /\ cur' \in Pairs
    BY Zenon, <1>1, <1>4, <1>13, BecomesReaders DEF EndWrite, Writers
  <2>2. wr' \in Writers
    BY Zenon, <1>1, <1>13 DEF EndWrite, Writers
  <2>. QED  BY <1>1, <1>3, <1>4, <1>13, <2>1, <2>2, EndedMeta DEF EndWrite
<1>14. EndWriteLoad => TypeOK'
  BY Zenon, <1>1, <1>3 DEF EndWriteLoad, Writers
<1>15. RefreshLoad => TypeOK'
  BY Zenon, <1>1, <1>3 DEF RefreshLoad, Writers
<1>16. ASSUME NEW off \in Offset, RefreshStore(off) PROVE TypeOK'
  <2>1. meta' \in Meta
    BY Zenon, <1>16, SoftSteps DEF SoftMeta
  <2>. QED  BY Zenon, <1>1, <1>3, <1>16, <2>1 DEF RefreshStore
<1>17. MakeFree => TypeOK'
  <2>1. MakeFree => meta' \in Meta
    BY <1>1, ZenonT(60) DEF MakeFree, Meta
  <2>. QED  BY Zenon, <1>1, <1>3, <2>1 DEF MakeFree
<1>18. RevokeChance => TypeOK'
  <2>1. RevokeChance => meta' \in Meta
    BY Zenon, SoftSteps DEF SoftMeta
  <2>. QED  BY Zenon, <1>1, <1>3, <2>1 DEF RevokeChance
<1>19. ResetChances => TypeOK'
  <2>1. ResetChances => meta' \in Meta
    BY Zenon, SoftSteps DEF SoftMeta
  <2>. QED  BY Zenon, <1>1, <1>3, <2>1 DEF ResetChances
<1>20. ASSUME NEW r \in Reader, NEW k \in Key \cup {NoKey}, Load(r, k) PROVE TypeOK'
  <2>1. [pc |-> "copy", key |-> k, word |-> meta, copy |-> <<>>, start |-> writes, seen |-> {cur}]
          \in Readers
    BY Zenon, <1>1, CopyTypes DEF Readers
  <2>2. rd' \in [Reader -> Readers]
    BY Zenon, <1>1, <1>20, <2>1 DEF Load
  <2>. QED  BY Zenon, <1>1, <1>3, <1>20, <2>2 DEF Load
<1>21. ASSUME NEW r \in Reader, NEW f \in Field, CopyWord(r, f) PROVE TypeOK'
  <2>1. rd[r] \in Readers /\ rd[r].copy \in Copies /\ entry[f] \in Atoms
    BY Zenon, <1>1 DEF Readers
  <2>2. [g \in DOMAIN rd[r].copy \cup {f} |-> IF g = f THEN entry[f] ELSE rd[r].copy[g]] \in Copies
    BY Zenon, <2>1, CopyTypes
  <2>3. rd'[r] \in Readers
    BY Zenon, <1>1, <1>21, <2>1, <2>2 DEF CopyWord, Readers
  <2>4. rd' \in [Reader -> Readers]
    BY Zenon, <1>1, <1>21, <2>3 DEF CopyWord
  <2>. QED  BY Zenon, <1>1, <1>3, <1>21, <2>4 DEF CopyWord
<1>22. ASSUME NEW r \in Reader, Validate(r) PROVE TypeOK'
  <2>1. \A pc \in {"load", "hit"} : [rd[r] EXCEPT !.pc = pc] \in Readers
    BY Zenon, <1>1 DEF Readers
  <2>2. rd' \in [Reader -> Readers]
    BY Zenon, <1>1, <1>22, <2>1 DEF Validate
  <2>. QED  BY Zenon, <1>1, <1>3, <1>22, <2>2 DEF Validate
<1>23. ASSUME NEW r \in Reader, TouchWith(r) PROVE TypeOK'
  <2>1. meta' \in Meta
    BY Zenon, <1>23, SoftSteps DEF SoftMeta
  <2>. QED  BY Zenon, <1>1, <1>3, <1>23, <2>1 DEF TouchWith
<1>24. ASSUME NEW r \in Reader, HitExpired(r) PROVE TypeOK'
  BY Zenon, <1>1, <1>3, <1>24 DEF HitExpired
<1>25. ASSUME NEW r \in Reader, NEW off \in Offset, TouchAndRefreshExpire(r, off) PROVE TypeOK'
  <2>1. meta' \in Meta
    BY Zenon, <1>25, SoftSteps DEF SoftMeta
  <2>. QED  BY Zenon, <1>1, <1>3, <1>25, <2>1 DEF TouchAndRefreshExpire
<1>26. \A r \in Reader : rd[r].key \in Key \cup {NoKey}
  BY Zenon, <1>1 DEF Readers
<1>. QED  BY Zenon, <1>5, <1>6, <1>7, <1>8, <1>9, <1>10, <1>11, <1>12, <1>13, <1>14, <1>15, <1>16,
     <1>17, <1>18, <1>19, <1>20, <1>21, <1>22, <1>23, <1>24, <1>25, <1>26 DEF Next, Step, Writer,
     Reads

\* Every step keeps what the meta word says of the writer.
LEMMA MetaStep ==
  ASSUME IInv, Next
  PROVE  MetaInv'
<1>1. /\ meta \in Meta /\ wr \in Writers /\ meta.gen \in 0..GenMod-1
      /\ ZeroMeta.gen = 0 /\ ~ZeroMeta.dead /\ ~ZeroMeta.free
      /\ IdleWriter.pc = "idle" /\ IdleWriter \in Writers
  BY Zenon, BaseTypes DEF IInv, TypeOK, Meta, IdleWriter
<1>2. TypeOK /\ MetaInv
  BY Zenon DEF IInv
<1>3. ASSUME SoftMeta, wr'.pc = wr.pc, wr'.word = wr.word PROVE MetaInv'
  BY Zenon, <1>2, <1>3 DEF MetaInv, Live, SoftMeta
<1>4. ASSUME SoftMeta, wr.pc \notin {"wide", "end"}, wr'.pc = "idle" PROVE MetaInv'
  BY Zenon, <1>2, <1>4 DEF MetaInv, Live, SoftMeta
<1>5. ASSUME NEW k \in Key, NEW v \in Value, BeginPublish(k, v) PROVE MetaInv'
  <2>1. wr'.pc = "publish" /\ meta' = meta /\ wr.pc = "idle" /\ (meta = ZeroMeta \/ meta.dead)
    BY Zenon, <1>1, <1>5 DEF BeginPublish, Reusable, Writers
  <2>. QED  BY Zenon, <1>2, <2>1 DEF MetaInv, Live
<1>6. ASSUME NEW v \in Value, BeginWrite(v) PROVE MetaInv'
  <2>1. wr'.pc = "wide" /\ wr.pc = "idle" /\ meta # ZeroMeta /\ ~meta.dead
    BY Zenon, <1>1, <1>6 DEF BeginWrite, Writers
  <2>2. meta.gen % 2 = 0 /\ ~meta.free
    BY <1>1, <1>2, <2>1 DEF MetaInv
  <2>3. (meta.gen + 1) % GenMod = meta.gen + 1 /\ (meta.gen + 1) % 2 = 1
    BY Zenon, <1>1, <2>2, NextGen
  <2>4. meta'.gen = meta.gen + 1 /\ meta'.dead = meta.dead /\ meta'.free = meta.free
    BY Zenon, <1>1, <1>6, <2>3 DEF BeginWrite, Meta
  <2>5. meta'.gen # 0
    BY <1>1, <2>4
  <2>. QED  BY Zenon, <1>1, <2>1, <2>2, <2>3, <2>4, <2>5 DEF MetaInv, Live
<1>7. ASSUME NEW v \in Value, SetNarrow(v) PROVE MetaInv'
  <2>1. wr'.pc = "narrow" /\ meta' = meta /\ wr.pc = "idle" /\ meta # ZeroMeta /\ ~meta.dead
    BY Zenon, <1>1, <1>7 DEF SetNarrow, Writers
  <2>. QED  BY Zenon, <1>2, <2>1 DEF MetaInv, Live
<1>8. ASSUME Kill PROVE MetaInv'
  <2>1. /\ wr' = wr /\ wr.pc = "idle" /\ meta # ZeroMeta
        /\ meta'.dead /\ meta'.free = meta.free /\ meta'.gen = meta.gen
    BY Zenon, <1>1, <1>8 DEF Kill, Meta
  <2>. QED  BY Zenon, <1>1, <1>2, <2>1 DEF MetaInv, Live
<1>9. ASSUME BeginFree PROVE MetaInv'
  <2>1. wr'.pc = "free" /\ meta' = meta /\ wr.pc = "idle" /\ meta.dead
    BY Zenon, <1>1, <1>9 DEF BeginFree, Writers
  <2>. QED  BY Zenon, <1>1, <1>2, <2>1 DEF MetaInv, Live
<1>10. ASSUME PolicyLoad PROVE MetaInv'
  <2>1. wr'.pc = "policy" /\ meta' = meta /\ wr.pc = "idle" /\ ~meta.dead /\ (meta.second \/ meta.third)
    BY Zenon, <1>1, <1>10 DEF PolicyLoad, Writers
  <2>2. meta # ZeroMeta
    BY <2>1 DEF ZeroMeta
  <2>. QED  BY Zenon, <1>2, <2>1, <2>2 DEF MetaInv, Live
<1>11. ASSUME NEW f \in Field, StoreWord(f) PROVE MetaInv'
  BY Zenon, <1>1, <1>3, <1>11, SoftSteps DEF StoreWord, Writers
<1>12. ASSUME NEW off \in Offset, PublishMeta(off) PROVE MetaInv'
  <2>1. wr'.pc = "idle"
    BY Zenon, <1>1, <1>12 DEF PublishMeta
  <2>2. /\ ~meta'.dead /\ ~meta'.free /\ meta.gen % 2 = 0
        /\ meta'.gen = IF meta.gen + 2 < GenMod THEN meta.gen + 2 ELSE 2
    BY Zenon, <1>2, <1>12, PublishedMeta
  <2>3. meta'.gen # 0 /\ meta'.gen % 2 = 0
    BY <1>1, <2>2, ItemAssumption
  <2>. QED  BY <2>1, <2>2, <2>3 DEF MetaInv, Live
<1>13. ASSUME EndWrite PROVE MetaInv'
  <2>1. wr'.pc = "refresh"
    BY Zenon, <1>1, <1>13 DEF EndWrite, Writers
  <2>2. /\ ~meta'.dead /\ ~meta'.free /\ meta.gen % 2 = 1
        /\ meta'.gen = IF meta.gen - 1 + 2 < GenMod THEN meta.gen - 1 + 2 ELSE 2
    BY Zenon, <1>2, <1>13, EndedMeta
  <2>3. meta'.gen # 0 /\ meta'.gen % 2 = 0
    BY <1>1, <2>2, ItemAssumption
  <2>. QED  BY <1>1, <2>1, <2>2, <2>3 DEF MetaInv, Live
<1>14. ASSUME EndWriteLoad PROVE MetaInv'
  <2>1. wr.pc = "wide" /\ wr'.pc = "end" /\ wr'.word = meta /\ meta' = meta
    BY Zenon, <1>1, <1>14 DEF EndWriteLoad, Writers
  <2>. QED  BY Zenon, <1>2, <2>1 DEF MetaInv, Live
<1>15. ASSUME RefreshLoad PROVE MetaInv'
  <2>1. wr.pc \in {"refresh", "narrow"} /\ wr'.pc = "store" /\ wr'.word = meta /\ meta' = meta
    BY Zenon, <1>1, <1>15 DEF RefreshLoad, Writers
  <2>. QED  BY Zenon, <1>2, <2>1 DEF MetaInv, Live
<1>16. ASSUME NEW off \in Offset, RefreshStore(off) PROVE MetaInv'
  BY Zenon, <1>1, <1>4, <1>16, SoftSteps DEF RefreshStore
<1>17. ASSUME MakeFree PROVE MetaInv'
  <2>1. /\ wr.pc = "free" /\ wr'.pc = "idle"
        /\ meta'.dead = meta.dead /\ meta'.gen = meta.gen
    BY Zenon, <1>1, <1>17 DEF MakeFree, Meta
  <2>. QED  BY Zenon, <1>1, <1>2, <2>1 DEF MetaInv, Live
<1>18. RevokeChance => MetaInv'
  BY Zenon, <1>1, <1>4, SoftSteps DEF RevokeChance
<1>19. ResetChances => MetaInv'
  BY Zenon, <1>1, <1>4, SoftSteps DEF ResetChances
<1>20. ASSUME NEW r \in Reader, NEW k, Load(r, k) PROVE MetaInv'
  BY Zenon, <1>3, <1>20, SoftSteps DEF Load
<1>21. ASSUME NEW r \in Reader, NEW f \in Field, CopyWord(r, f) PROVE MetaInv'
  BY Zenon, <1>3, <1>21, SoftSteps DEF CopyWord
<1>22. ASSUME NEW r \in Reader, Validate(r) PROVE MetaInv'
  BY Zenon, <1>3, <1>22, SoftSteps DEF Validate
<1>23. ASSUME NEW r \in Reader, TouchWith(r) PROVE MetaInv'
  BY Zenon, <1>3, <1>23, SoftSteps DEF TouchWith
<1>24. ASSUME NEW r \in Reader, HitExpired(r) PROVE MetaInv'
  BY Zenon, <1>3, <1>24, SoftSteps DEF HitExpired
<1>25. ASSUME NEW r \in Reader, NEW off \in Offset, TouchAndRefreshExpire(r, off) PROVE MetaInv'
  BY Zenon, <1>3, <1>25, SoftSteps DEF TouchAndRefreshExpire
<1>. QED  BY Zenon, <1>5, <1>6, <1>7, <1>8, <1>9, <1>10, <1>11, <1>12, <1>13, <1>14, <1>15, <1>16,
     <1>17, <1>18, <1>19, <1>20, <1>21, <1>22, <1>23, <1>24, <1>25 DEF Next, Step, Writer, Reads

\* A value that is not wide is one machine word.
LEMMA NarrowWord ==
  ASSUME TypeOK, ~Wide, NEW f \in Word
  PROVE  Word = {f}
BY Zenon DEF Wide

\* SetValue of one word stores the whole new pair at once.
LEMMA NarrowStore ==
  ASSUME IInv, wr.pc = "narrow", NEW f \in Field, StoreWord(f)
  PROVE  /\ Word = {f} /\ entry' = Words(wr.pair) /\ Becomes(wr.pair)
         /\ wr.pair \in Key \X Value /\ wr.pair[1] = cur[1] /\ ~Wide
<1>1. /\ wr.pair \in Key \X Value /\ wr.pair[1] = cur[1] /\ ~Wide
      /\ wr.todo \subseteq Word /\ entry = Words(cur)
  BY Zenon DEF IInv, EntryInv, MetaInv
<1>2. Word = {f}
  BY Zenon, <1>1, NarrowWord DEF IInv, StoreWord
<1>3. Field = {"key", f} /\ f # "key"
  BY Zenon, <1>2, BaseTypes DEF Field, IInv
<1>4. entry' = [entry EXCEPT ![f] = Words(wr.pair)[f]]
  BY Zenon DEF StoreWord
<1>5. Words(wr.pair)["key"] = entry["key"]
  BY Zenon, <1>1, <1>3 DEF Words
<1>6. entry' = Words(wr.pair)
  BY Zenon, <1>1, <1>3, <1>4, <1>5 DEF Words
<1>. QED  BY Zenon, <1>1, <1>2, <1>6 DEF StoreWord

\* Every step keeps what the Entry holds.
LEMMA EntryStep ==
  ASSUME IInv, Next
  PROVE  EntryInv'
<1>1. /\ entry \in [Field -> Atoms] /\ wr \in Writers
      /\ IdleWriter.pc = "idle" /\ IdleWriter.todo = {} /\ IdleWriter \in Writers
      /\ "key" \in Field /\ Word \subseteq Field /\ "key" \notin Word
  BY Zenon, BaseTypes DEF IInv, TypeOK, IdleWriter
<1>2. /\ Word' = Word /\ Field' = Field /\ Wide' = Wide /\ \A p : Words(p)' = Words(p)
  BY Zenon, SameBuild DEF Next
<1>3. TypeOK /\ MetaInv /\ EntryInv
  BY Zenon DEF IInv
<1>4. ASSUME SoftMeta, UNCHANGED <<entry, wr, cur>> PROVE EntryInv'
  <2>1. Live' <=> Live
    BY Zenon, <1>4 DEF SoftMeta, Live
  <2>2. Words(wr.pair)' = Words(wr.pair) /\ Words(cur)' = Words(cur)
    BY Zenon, <1>2, <1>4 DEF Words
  <2>. QED  BY Zenon, <1>2, <1>3, <1>4, <2>1, <2>2 DEF EntryInv
<1>5. ASSUME SoftMeta, UNCHANGED <<entry, cur>>, wr' = IdleWriter, wr.pc \notin {"wide", "end"}
      PROVE  EntryInv'
  <2>1. Live' <=> Live
    BY Zenon, <1>5 DEF SoftMeta, Live
  <2>2. Words(cur)' = Words(cur)
    BY Zenon, <1>2, <1>5 DEF Words
  <2>. QED  BY Zenon, <1>1, <1>3, <1>5, <2>1, <2>2 DEF EntryInv
<1>6. ASSUME ~Live', wr'.pc \in {"idle", "free"}, wr'.pc = "idle" => wr'.todo = {} PROVE EntryInv'
  BY Zenon, <1>6 DEF EntryInv
<1>7. ASSUME NEW k \in Key, NEW v \in Value, BeginPublish(k, v) PROVE EntryInv'
  <2>1. wr'.pc = "publish" /\ wr'.todo = Field /\ wr'.pair = <<k, v>>
    BY Zenon, <1>1, <1>7 DEF BeginPublish, Writers
  <2>2. ~Live'
    BY Zenon, <1>7 DEF BeginPublish, Live, Reusable
  <2>. QED  BY <1>2, <2>1, <2>2 DEF EntryInv
<1>8. ASSUME NEW v \in Value, BeginWrite(v) PROVE EntryInv'
  <2>1. /\ wr'.pc = "wide" /\ wr'.todo = Word /\ wr'.pair = <<entry["key"], v>> /\ entry' = entry
        /\ cur' = cur
    BY Zenon, <1>1, <1>8 DEF BeginWrite, Writers
  <2>2. entry["key"] = cur[1] /\ wr'.pair \in Key \X Value /\ cur \in Key \X Value
    BY Zenon, <1>8, <2>1, LiveEntry DEF BeginWrite
  <2>3. \A f \in Field \ Word : f = "key"
    BY Zenon DEF Field
  <2>4. ASSUME NEW f \in (Field \ wr.todo)' PROVE (entry[f] = Words(wr.pair)[f])'
    BY <1>1, <1>2, <2>1, <2>3, <2>4 DEF Words
  <2>. QED  BY Zenon, <1>2, <2>1, <2>2, <2>4 DEF EntryInv
<1>9. ASSUME NEW v \in Value, SetNarrow(v) PROVE EntryInv'
  <2>1. /\ wr'.pc = "narrow" /\ wr'.todo = Word /\ wr'.pair = <<entry["key"], v>> /\ entry' = entry
        /\ cur' = cur /\ ~Wide
    BY Zenon, <1>1, <1>9 DEF SetNarrow, Writers
  <2>2. entry = Words(cur) /\ entry["key"] = cur[1] /\ wr'.pair \in Key \X Value /\ cur \in Key \X Value
    BY Zenon, <1>9, <2>1, LiveEntry DEF SetNarrow
  <2>3. wr'.pair[1] = cur'[1]
    BY <2>1, <2>2
  <2>4. entry' = Words(cur)'
    BY Zenon, <1>2, <2>1, <2>2 DEF Words
  <2>. QED  BY Zenon, <1>2, <2>1, <2>2, <2>3, <2>4 DEF EntryInv
<1>10. ASSUME Kill PROVE EntryInv'
  BY Zenon, <1>3, <1>6, <1>10 DEF Kill, Live, EntryInv, TypeOK, Meta
<1>11. ASSUME BeginFree PROVE EntryInv'
  BY Zenon, <1>1, <1>6, <1>11 DEF BeginFree, Live, Writers
<1>12. ASSUME PolicyLoad PROVE EntryInv'
  <2>1. wr.pc = "idle" /\ wr'.pc = "policy" /\ wr'.todo = {} /\ UNCHANGED <<meta, entry, cur>>
    BY Zenon, <1>1, <1>12 DEF PolicyLoad, Writers
  <2>2. Words(cur)' = Words(cur) /\ (Live' <=> Live)
    BY Zenon, <1>2, <2>1 DEF Words, Live
  <2>. QED  BY Zenon, <1>3, <2>1, <2>2 DEF EntryInv
<1>13. ASSUME NEW off \in Offset, PublishMeta(off) PROVE EntryInv'
  <2>1. /\ wr.todo = {} /\ wr.pc = "publish" /\ wr' = IdleWriter /\ entry' = entry /\ cur' = wr.pair
    BY Zenon, <1>13 DEF PublishMeta, Becomes
  <2>2. wr.pair \in Key \X Value /\ \A f \in Field : entry[f] = Words(wr.pair)[f]
    BY Zenon, <1>3, <2>1 DEF EntryInv
  <2>3. entry = Words(wr.pair)
    BY Zenon, <1>1, <2>2 DEF Words
  <2>4. entry' = Words(cur)'
    BY Zenon, <1>2, <2>1, <2>3 DEF Words
  <2>. QED  BY Zenon, <1>1, <2>1, <2>2, <2>4 DEF EntryInv
<1>14. ASSUME EndWrite PROVE EntryInv'
  <2>1. /\ wr.todo = {} /\ wr.pc = "end" /\ wr'.pc = "refresh" /\ wr'.todo = {} /\ entry' = entry
        /\ cur' = wr.pair
    BY Zenon, <1>1, <1>3, <1>14 DEF EndWrite, Becomes, EntryInv, Writers
  <2>2. wr.pair \in Key \X Value /\ \A f \in Field : entry[f] = Words(wr.pair)[f]
    BY Zenon, <1>3, <2>1 DEF EntryInv
  <2>3. entry = Words(wr.pair)
    BY Zenon, <1>1, <2>2 DEF Words
  <2>4. entry' = Words(cur)'
    BY Zenon, <1>2, <2>1, <2>3 DEF Words
  <2>. QED  BY Zenon, <2>1, <2>2, <2>4 DEF EntryInv
<1>15. ASSUME EndWriteLoad PROVE EntryInv'
  <2>1. /\ wr.pc = "wide" /\ wr.todo = {} /\ wr'.pc = "end" /\ wr'.todo = {} /\ wr'.pair = wr.pair
        /\ UNCHANGED <<meta, entry, cur>>
    BY Zenon, <1>1, <1>15 DEF EndWriteLoad, Writers
  <2>2. Words(wr.pair)' = Words(wr.pair) /\ (Live' <=> Live)
    BY Zenon, <1>2, <2>1 DEF Words, Live
  <2>. QED  BY Zenon, <1>2, <1>3, <2>1, <2>2 DEF EntryInv
<1>16. ASSUME RefreshLoad PROVE EntryInv'
  <2>1. /\ wr.pc \in {"refresh", "narrow"} /\ wr.todo = {} /\ wr'.pc = "store" /\ wr'.todo = {}
        /\ UNCHANGED <<meta, entry, cur>>
    BY Zenon, <1>1, <1>3, <1>16 DEF RefreshLoad, Writers, EntryInv
  <2>2. Words(cur)' = Words(cur) /\ (Live' <=> Live)
    BY Zenon, <1>2, <2>1 DEF Words, Live
  <2>. QED  BY Zenon, <1>3, <2>1, <2>2 DEF EntryInv
<1>17. ASSUME NEW f \in Field, StoreWord(f) PROVE EntryInv'
  <2>1. /\ wr'.pc = wr.pc /\ wr'.todo = wr.todo \ {f} /\ wr'.pair = wr.pair /\ meta' = meta
        /\ wr'.todo \subseteq wr.todo
    BY Zenon, <1>1, <1>17 DEF StoreWord, Writers
  <2>2. wr.pc \in {"publish", "wide", "narrow", "free"}
    BY Zenon, <1>1, <1>3, <1>17 DEF StoreWord, EntryInv, Writers
  <2>3. CASE wr.pc = "narrow"
    <3>1. /\ entry' = Words(wr.pair) /\ cur' = wr.pair /\ wr.pair \in Key \X Value /\ ~Wide
      BY Zenon, <1>17, <2>3, NarrowStore DEF Becomes
    <3>2. entry' = Words(cur)'
      BY Zenon, <1>2, <3>1 DEF Words
    <3>3. wr'.todo \subseteq Word
      BY Zenon, <1>3, <2>1, <2>3 DEF EntryInv
    <3>. QED  BY Zenon, <1>2, <2>1, <2>3, <3>1, <3>2, <3>3 DEF EntryInv
  <2>4. CASE wr.pc # "narrow"
    <3>1. cur' = cur /\ entry' = [entry EXCEPT ![f] = Words(wr.pair)[f]]
      BY Zenon, <1>17, <2>4 DEF StoreWord
    <3>2. Words(wr.pair)' = Words(wr.pair)
      BY Zenon, <1>2, <2>1 DEF Words
    <3>3. ASSUME wr.pc # "free", NEW g \in (Field \ wr.todo)' PROVE (entry[g] = Words(wr.pair)[g])'
      BY Zenon, <1>1, <1>2, <1>3, <2>1, <2>2, <2>4, <3>1, <3>2, <3>3 DEF EntryInv
    <3>4. Live' <=> Live
      BY Zenon, <2>1 DEF Live
    <3>5. wr.pc \in {"publish", "free"} => ~Live
      BY Zenon, <1>3 DEF MetaInv
    <3>. QED  BY Zenon, <1>2, <1>3, <2>1, <2>2, <2>4, <3>1, <3>3, <3>4, <3>5 DEF EntryInv
  <2>. QED  BY Zenon, <2>3, <2>4
<1>18. ASSUME NEW off \in Offset, RefreshStore(off) PROVE EntryInv'
  BY Zenon, <1>5, <1>18, SoftSteps DEF RefreshStore
<1>19. ASSUME MakeFree PROVE EntryInv'
  <2>1. meta.dead /\ meta \in Meta
    BY Zenon, <1>3, <1>19 DEF MakeFree, MetaInv, Live, TypeOK
  <2>2. meta'.dead /\ wr' = IdleWriter
    BY Zenon, <1>19, <2>1 DEF MakeFree, Meta
  <2>. QED  BY Zenon, <1>1, <1>6, <2>2 DEF Live
<1>20. RevokeChance => EntryInv'
  BY Zenon, <1>5, SoftSteps DEF RevokeChance
<1>21. ResetChances => EntryInv'
  BY Zenon, <1>5, SoftSteps DEF ResetChances
<1>22. ASSUME NEW r \in Reader, NEW k, Load(r, k) PROVE EntryInv'
  BY Zenon, <1>4, <1>22, SoftSteps DEF Load
<1>23. ASSUME NEW r \in Reader, NEW f \in Field, CopyWord(r, f) PROVE EntryInv'
  BY Zenon, <1>4, <1>23, SoftSteps DEF CopyWord
<1>24. ASSUME NEW r \in Reader, Validate(r) PROVE EntryInv'
  BY Zenon, <1>4, <1>24, SoftSteps DEF Validate
<1>25. ASSUME NEW r \in Reader, TouchWith(r) PROVE EntryInv'
  BY Zenon, <1>4, <1>25, SoftSteps DEF TouchWith
<1>26. ASSUME NEW r \in Reader, HitExpired(r) PROVE EntryInv'
  BY Zenon, <1>4, <1>26, SoftSteps DEF HitExpired
<1>27. ASSUME NEW r \in Reader, NEW off \in Offset, TouchAndRefreshExpire(r, off) PROVE EntryInv'
  BY Zenon, <1>4, <1>27, SoftSteps DEF TouchAndRefreshExpire
<1>. QED  BY Zenon, <1>7, <1>8, <1>9, <1>10, <1>11, <1>12, <1>13, <1>14, <1>15, <1>16, <1>17, <1>18,
     <1>19, <1>20, <1>21, <1>22, <1>23, <1>24, <1>25, <1>26, <1>27 DEF Next, Step, Writer, Reads

\* A generation completed by Publish or endWrite is one generation further from
\* what a reader loaded; it does not come around within Period.
LEMMA AdvanceGen ==
  ASSUME NEW g \in 0..GenMod-1, g % 2 = 0, g # 0, NEW n \in Nat, n + 1 < Period,
         NEW e, e = Advanced(g, n), NEW h, h = IF e + 2 < GenMod THEN e + 2 ELSE 2
  PROVE  h = Advanced(g, n + 1)
<1>1. GenMod \in Nat /\ GenMod >= 6 /\ GenMod % 2 = 0 /\ 2 * Period = GenMod - 2 /\ Period \in Nat
  BY ItemAssumption DEF Period
<1>2. 2 * (n + 1) < GenMod - 2 /\ g >= 2
  BY <1>1
<1>3. CASE g + 2 * n + 2 < GenMod
  BY <1>1, <1>2, <1>3 DEF Advanced
<1>4. CASE g + 2 * n < GenMod /\ ~(g + 2 * n + 2 < GenMod)
  <2>1. (g + 2 * n) % 2 = 0
    BY <1>1
  <2>2. g + 2 * n + 2 = GenMod
    BY <1>1, <1>4, <2>1
  <2>. QED  BY <1>1, <1>2, <1>4, <2>2 DEF Advanced
<1>5. CASE ~(g + 2 * n < GenMod)
  BY <1>1, <1>2, <1>5 DEF Advanced
<1>. QED  BY Zenon, <1>1, <1>3, <1>4, <1>5

\* The generation a reader loaded is the current one again only if none was
\* completed meanwhile.
LEMMA SameGen ==
  ASSUME NEW g \in 0..GenMod-1, NEW n \in Nat, n < Period, g = Advanced(g, n)
  PROVE  n = 0
<1>1. GenMod \in Nat /\ GenMod >= 6 /\ 2 * Period = GenMod - 2 /\ Period \in Nat
  BY ItemAssumption DEF Period
<1>. QED  BY <1>1 DEF Advanced

\* A step that completes no generation leaves the distance as it is.
LEMMA SameDistance ==
  ASSUME NEW q \in Reader, rd'[q].word = rd[q].word, rd'[q].start = rd[q].start,
         writes' = writes, Even' = Even, GenInv(q)
  PROVE  GenInv(q)'
BY Zenon DEF GenInv, Advanced

\* A step that leaves reader q, the pair, and the generation alone.
LEMMA ReaderKept ==
  ASSUME IInv, Next, NEW q \in Reader, rd'[q] = rd[q], UNCHANGED <<writes, cur>>,
         meta'.dead = meta.dead, meta'.gen = meta.gen, meta # ZeroMeta => meta' # ZeroMeta
  PROVE  ReaderInv(q)'
<1>1. ReaderInv(q)
  BY Zenon DEF IInv
<1>2. Wide' = Wide /\ \A p : Words(p)' = Words(p)
  BY Zenon, SameBuild DEF Next
<1>3. GenInv(q) => GenInv(q)'
  <2>1. Even' = Even
    BY Zenon DEF Even
  <2>. QED  BY Zenon, <2>1, SameDistance
<1>4. CopyInv(q) => CopyInv(q)'
  BY <1>2 DEF CopyInv
<1>. QED  BY Zenon, <1>1, <1>2, <1>3, <1>4 DEF ReaderInv

\* A reader that has just left is idle.
LEMMA ReaderIdle ==
  ASSUME NEW q \in Reader, rd'[q].pc \in {"idle", "load"}, meta' # ZeroMeta \/ rd'[q].pc = "idle"
  PROVE  ReaderInv(q)'
BY Zenon DEF ReaderInv

\* Publish and endWrite, which complete a generation, as reader q sees them.
LEMMA ReaderAdvances ==
  ASSUME IInv, Next, NEW q \in Reader, Becomes(wr.pair), writes' = writes + 1,
         Even + 2 <= GenMod, meta'.gen = IF Even + 2 < GenMod THEN Even + 2 ELSE 2
  PROVE  ReaderInv(q)'
<1>1. /\ ReaderInv(q) /\ TypeOK /\ wr.pair \in Pairs /\ writes \in Nat /\ rd[q].start \in Nat
      /\ rd[q].word.gen \in 0..GenMod-1 /\ meta.gen \in 0..GenMod-1
  BY Zenon DEF IInv, TypeOK, Writers, Readers, Meta
<1>2. Wide' = Wide /\ \A p : Words(p)' = Words(p)
  BY Zenon, SameBuild DEF Next
<1>3. /\ rd'[q].pc = rd[q].pc /\ rd'[q].key = rd[q].key /\ rd'[q].word = rd[q].word
      /\ rd'[q].copy = rd[q].copy /\ rd'[q].start = rd[q].start /\ cur' = wr.pair
      /\ rd[q].pc # "idle" => rd'[q].seen = rd[q].seen \cup {wr.pair}
  BY Zenon, <1>1, BecomesReaders
<1>4. GenMod \in Nat /\ GenMod >= 6 /\ GenMod % 2 = 0 /\ Period \in Nat
  BY ItemAssumption, SMTT(60) DEF Period
<1>5. Even \in 0..GenMod-1 /\ Even % 2 = 0
  BY <1>1, <1>4 DEF Even
<1>6. meta'.gen # 0 /\ meta'.gen % 2 = 0 /\ meta'.gen \in Nat
  BY <1>4, <1>5, SMTT(60)
<1>7. meta' # ZeroMeta /\ Even' = meta'.gen
  BY <1>1, <1>6, BaseTypes, SMTT(60) DEF Even
<1>8. ASSUME rd[q].pc = "copy" PROVE GenInv(q)'
  <2>. DEFINE g == rd[q].word.gen
              n == writes + 1 - rd[q].start
  <2>6. GenInv(q)' <=> (g % 2 = 0 /\ n < Period => Even' = Advanced(g, n))
    <3>1. rd'[q].word.gen = g /\ writes' - rd'[q].start = n
      BY <1>1, <1>3
    <3>. QED  BY Zenon, <3>1 DEF GenInv, Advanced
  <2>. SUFFICES ASSUME g % 2 = 0, n < Period PROVE meta'.gen = Advanced(g, n)
    BY Zenon, <1>7, <2>6
  <2>1. rd[q].start <= writes /\ rd[q].word.gen # 0 /\ GenInv(q)
    BY Zenon, <1>1, <1>8 DEF ReaderInv
  <2>2. writes - rd[q].start \in Nat /\ writes - rd[q].start + 1 = writes + 1 - rd[q].start
    BY <1>1, <2>1
  <2>3. Even = Advanced(rd[q].word.gen, writes - rd[q].start)
    BY <1>4, <2>1, <2>2 DEF GenInv
  <2>4. writes - rd[q].start + 1 < Period
    BY Zenon, <2>2
  <2>5. meta'.gen = Advanced(rd[q].word.gen, writes - rd[q].start + 1)
    BY <1>1, <2>1, <2>2, <2>3, <2>4, AdvanceGen, SMTT(60)
  <2>. QED  BY Zenon, <2>2, <2>5
<1>9. ASSUME rd[q].pc = "copy" PROVE CopyInv(q)'
  <2>1. rd[q].start # writes + 1
    BY <1>1, <1>9 DEF ReaderInv
  <2>. QED  BY Zenon, <1>3, <2>1 DEF CopyInv
<1>10. rd[q].pc \in {"copy", "hit"} => rd[q].start <= writes'
  BY <1>1 DEF ReaderInv
<1>11. ASSUME rd[q].pc = "hit", writes + 1 - rd[q].start < Period
       PROVE  \E p \in rd'[q].seen : p # NoPair /\ p[1] = rd'[q].key /\ rd'[q].copy = Words(p)'
  <2>1. writes - rd[q].start < Period
    BY <1>1, <1>4, <1>11, SMTT(60)
  <2>2. PICK p \in rd[q].seen : p # NoPair /\ p[1] = rd[q].key /\ rd[q].copy = Words(p)
    BY Zenon, <1>1, <1>11, <2>1 DEF ReaderInv
  <2>. QED  BY Zenon, <1>2, <1>3, <1>11, <2>2
<1>. QED  BY <1>1, <1>3, <1>7, <1>8, <1>9, <1>10, <1>11 DEF ReaderInv, NoPair

\* The writer's steps that complete no generation but change the pair or the
\* generation: beginWrite, Kill and the store of a narrow value.
LEMMA ReaderUnderWrite ==
  ASSUME IInv, Next, NEW q \in Reader,
         \/ \E v \in Value : BeginWrite(v)
         \/ Kill
         \/ wr.pc = "narrow" /\ \E f \in Field : StoreWord(f)
  PROVE  ReaderInv(q)'
<1>1. /\ ReaderInv(q) /\ TypeOK /\ NoPair \in Pairs /\ wr.pair \in Pairs
      /\ meta \in Meta /\ meta.gen \in 0..GenMod-1
  BY Zenon, BaseTypes DEF IInv, TypeOK, Writers, Meta
<1>2. Wide' = Wide /\ \A p : Words(p)' = Words(p)
  BY Zenon, SameBuild DEF Next
<1>3. ASSUME NEW v \in Value, BeginWrite(v) PROVE ReaderInv(q)'
  <2>1. meta.gen % 2 = 0 /\ UNCHANGED <<rd, writes, cur>>
    <3>1. meta.gen % 2 # 1
      BY Zenon, <1>3 DEF IInv, MetaInv, BeginWrite
    <3>2. meta.gen % 2 = 0
      BY <1>1, <3>1
    <3>. QED  BY Zenon, <1>3, <3>2 DEF BeginWrite
  <2>2. (meta.gen + 1) % GenMod = meta.gen + 1 /\ (meta.gen + 1) % 2 = 1
    BY Zenon, <1>1, <2>1, NextGen
  <2>3. meta'.gen = meta.gen + 1
    BY Zenon, <1>1, <1>3, <2>2 DEF BeginWrite, Meta
  <2>4. Even' = Even
    BY <1>1, <2>1, <2>2, <2>3, SMTT(60) DEF Even
  <2>5. meta' # ZeroMeta
    BY <1>1, <2>3, BaseTypes
  <2>6. GenInv(q) => GenInv(q)'
    BY Zenon, <2>1, <2>4, SameDistance
  <2>7. meta'.gen % 2 # 0
    BY <2>2, <2>3
  <2>8. CopyInv(q)'
    BY Zenon, <2>7 DEF CopyInv
  <2>. QED  BY Zenon, <1>1, <1>2, <2>1, <2>5, <2>6, <2>8 DEF ReaderInv
<1>4. ASSUME NEW p \in Pairs, Becomes(p), writes' = writes, meta'.gen = meta.gen, meta' # ZeroMeta,
             rd[q].pc = "copy" => CopyInv(q)'
      PROVE  ReaderInv(q)'
  <2>1. /\ rd'[q].pc = rd[q].pc /\ rd'[q].key = rd[q].key /\ rd'[q].word = rd[q].word
        /\ rd'[q].copy = rd[q].copy /\ rd'[q].start = rd[q].start /\ cur' = p
        /\ rd[q].pc # "idle" => rd'[q].seen = rd[q].seen \cup {p}
    BY Zenon, <1>1, <1>4, BecomesReaders
  <2>2. GenInv(q) => GenInv(q)'
    <3>1. Even' = Even
      BY Zenon, <1>4 DEF Even
    <3>. QED  BY Zenon, <1>4, <2>1, <3>1, SameDistance
  <2>3. ASSUME rd[q].pc = "hit", writes - rd[q].start < Period
        PROVE  \E x \in rd'[q].seen : x # NoPair /\ x[1] = rd'[q].key /\ rd'[q].copy = Words(x)'
    <3>1. PICK x \in rd[q].seen : x # NoPair /\ x[1] = rd[q].key /\ rd[q].copy = Words(x)
      BY Zenon, <1>1, <2>3 DEF ReaderInv
    <3>. QED  BY Zenon, <1>2, <2>1, <2>3, <3>1
  <2>. QED  BY Zenon, <1>1, <1>4, <2>1, <2>2, <2>3 DEF ReaderInv, NoPair
<1>5. ASSUME Kill PROVE ReaderInv(q)'
  <2>1. meta'.dead /\ meta'.gen = meta.gen /\ Becomes(NoPair) /\ writes' = writes
    BY Zenon, <1>1, <1>5 DEF Kill, Meta
  <2>2. meta' # ZeroMeta
    BY Zenon, <1>1, <2>1, BaseTypes
  <2>3. CopyInv(q)'
    BY Zenon, <2>1 DEF CopyInv
  <2>. QED  BY Zenon, <1>1, <1>4, <2>1, <2>2, <2>3
<1>6. ASSUME wr.pc = "narrow", NEW f \in Field, StoreWord(f) PROVE ReaderInv(q)'
  <2>1. Becomes(wr.pair) /\ wr.pair[1] = cur[1] /\ ~Wide
    BY Zenon, <1>6, NarrowStore
  <2>2. meta' = meta /\ writes' = writes
    BY Zenon, <1>6 DEF StoreWord
  <2>3. meta' # ZeroMeta
    BY Zenon, <1>6, <2>2 DEF IInv, MetaInv, Live
  <2>4. /\ rd'[q].word = rd[q].word /\ rd'[q].copy = rd[q].copy /\ rd'[q].start = rd[q].start
        /\ cur' = wr.pair /\ (rd[q].pc # "idle" => rd'[q].seen = rd[q].seen \cup {wr.pair})
    BY Zenon, <1>1, <2>1, BecomesReaders
  <2>5. ASSUME rd[q].pc = "copy" PROVE CopyInv(q)'
    <3>1. CopyInv(q)
      BY Zenon, <1>1, <2>5 DEF ReaderInv
    <3>. QED  BY <1>2, <2>1, <2>2, <2>4, <2>5, <3>1, SMTT(60) DEF CopyInv
  <2>. QED  BY Zenon, <1>1, <1>4, <2>1, <2>2, <2>3, <2>5
<1>. QED  BY Zenon, <1>3, <1>5, <1>6

\* The load of the meta word of a live item starts a copy of its current pair.
LEMMA ReaderLoads ==
  ASSUME IInv, Next, NEW q \in Reader, NEW k, Load(q, k)
  PROVE  ReaderInv(q)'
<1>1. /\ TypeOK /\ MetaInv /\ EntryInv /\ meta \in Meta /\ meta.gen \in 0..GenMod-1
      /\ rd \in [Reader -> Readers] /\ writes \in Nat
  BY Zenon DEF IInv, TypeOK, Meta
<1>2. CASE meta = ZeroMeta \/ meta.dead
  <2>1. rd'[q] = IdleReader
    BY Zenon, <1>1, <1>2 DEF Load
  <2>. QED  BY <2>1, ReaderIdle DEF IdleReader
<1>3. CASE Live
  <2>1. rd'[q] = [pc |-> "copy", key |-> k, word |-> meta, copy |-> <<>>, start |-> writes, seen |-> {cur}]
    BY Zenon, <1>1, <1>3 DEF Load, Live
  <2>2. /\ rd'[q].pc = "copy" /\ rd'[q].word = meta /\ DOMAIN rd'[q].copy = {}
        /\ rd'[q].start = writes /\ rd'[q].seen = {cur}
    BY <2>1, CopyTypes
  <2>3. UNCHANGED <<meta, writes, cur>>
    BY Zenon DEF Load
  <2>4. meta.gen # 0 /\ cur \in Key \X Value
    BY Zenon, <1>1, <1>3 DEF MetaInv, EntryInv, Live
  <2>5. GenInv(q)'
    <3>1. writes - writes = 0 /\ meta.gen + 2 * 0 = meta.gen
      BY <1>1
    <3>2. Advanced(meta.gen, writes - writes) = meta.gen
      BY <1>1, <3>1, ItemAssumption DEF Advanced
    <3>3. (LET n == writes' - rd'[q].start
           IN  rd'[q].word.gen % 2 = 0 /\ n < Period => Even' = Advanced(rd'[q].word.gen, n))
      BY <1>1, <2>2, <2>3, <3>2, SMTT(60) DEF Even
    <3>. QED  BY Zenon, <3>3 DEF GenInv, Advanced
  <2>6. CopyInv(q)'
    BY Zenon, <2>2, <2>3, <2>4 DEF CopyInv
  <2>. QED  BY <1>1, <1>3, <2>2, <2>3, <2>4, <2>5, <2>6 DEF ReaderInv, Live
<1>. QED  BY Zenon, <1>2, <1>3 DEF Live

\* One more word is copied: while the generation is still the loaded one it is a
\* word of the pair the item holds.
LEMMA ReaderCopies ==
  ASSUME IInv, Next, NEW q \in Reader, NEW f \in Field, CopyWord(q, f)
  PROVE  ReaderInv(q)'
<1>1. /\ TypeOK /\ MetaInv /\ EntryInv /\ ReaderInv(q) /\ rd[q] \in Readers /\ rd[q].copy \in Copies
      /\ rd[q].pc = "copy" /\ meta # ZeroMeta
  BY Zenon DEF IInv, TypeOK, CopyWord, Readers, ReaderInv
<1>2. Wide' = Wide /\ \A p : Words(p)' = Words(p)
  BY Zenon, SameBuild DEF Next
<1>3. rd'[q] = [rd[q] EXCEPT !.copy = [g \in DOMAIN rd[q].copy \cup {f} |->
                                         IF g = f THEN entry[f] ELSE rd[q].copy[g]]]
  BY Zenon DEF CopyWord, IInv, TypeOK
<1>4. /\ rd'[q].pc = "copy" /\ rd'[q].word = rd[q].word /\ rd'[q].start = rd[q].start
      /\ rd'[q].seen = rd[q].seen
      /\ rd'[q].copy = [g \in DOMAIN rd[q].copy \cup {f} |-> IF g = f THEN entry[f] ELSE rd[q].copy[g]]
  BY Zenon, <1>1, <1>3 DEF Readers
<1>5. UNCHANGED <<meta, writes, cur>>
  BY Zenon DEF CopyWord
<1>6. GenInv(q)'
  <2>1. Even' = Even
    BY Zenon, <1>5 DEF Even
  <2>2. GenInv(q)
    BY Zenon, <1>1 DEF ReaderInv
  <2>. QED  BY Zenon, <1>4, <1>5, <2>1, <2>2, SameDistance
<1>7. CopyInv(q)'
  <2>. SUFFICES ASSUME rd[q].start = writes, meta.gen = rd[q].word.gen, meta.gen % 2 = 0, ~meta.dead
                PROVE  \E p \in rd[q].seen : /\ p \in Key \X Value /\ p[1] = cur[1]
                                             /\ Wide => p = cur
                                             /\ \A g \in DOMAIN rd[q].copy \cup {f} :
                                                  rd'[q].copy[g] = Words(p)[g]
    BY <1>2, <1>4, <1>5, ZenonT(60) DEF CopyInv
  <2>1. /\ entry = Words(cur) /\ cur \in Key \X Value /\ cur \in rd[q].seen
        /\ rd'[q].copy[f] = Words(cur)[f]
    <3>1. meta.gen % 2 # 1
      OBVIOUS
    <3>2. Live /\ wr.pc \notin {"wide", "end"}
      BY Zenon, <1>1, <3>1 DEF MetaInv, Live
    <3>3. entry = Words(cur) /\ cur \in Key \X Value
      BY Zenon, <1>1, <3>2 DEF EntryInv
    <3>4. cur \in rd[q].seen
      BY Zenon, <1>1 DEF ReaderInv
    <3>5. rd'[q].copy[f] = entry[f]
      BY Zenon, <1>4
    <3>. QED  BY Zenon, <3>3, <3>4, <3>5
  <2>2. PICK p \in rd[q].seen : /\ p \in Key \X Value /\ p[1] = cur[1]
                                /\ Wide => p = cur
                                /\ \A g \in DOMAIN rd[q].copy : rd[q].copy[g] = Words(p)[g]
    BY Zenon, <1>1 DEF ReaderInv, CopyInv
  <2>3. \A g \in DOMAIN rd[q].copy : g # f => rd'[q].copy[g] = Words(p)[g]
    BY Zenon, <1>4, <2>2
  <2>4. CASE Words(p)[f] = Words(cur)[f]
    BY <2>1, <2>2, <2>3, <2>4, SMTT(60)
  <2>5. CASE Words(p)[f] # Words(cur)[f]
    <3>1. f # "key" /\ ~Wide
      BY Zenon, <2>2, <2>5 DEF Words
    <3>2. Word = {f} /\ Field = {"key", f}
      BY Zenon, <1>1, <3>1, NarrowWord DEF Field
    <3>3. \A g \in DOMAIN rd[q].copy : g # f => g = "key"
      BY Zenon, <1>1, <3>2, CopyTypes
    <3>4. \A g \in DOMAIN rd[q].copy : g # f => rd'[q].copy[g] = Words(cur)[g]
      BY Zenon, <2>2, <2>3, <3>2, <3>3 DEF Words
    <3>. QED  BY Zenon, <2>1, <3>1, <3>4
  <2>. QED  BY Zenon, <2>4, <2>5
<1>. QED  BY Zenon, <1>1, <1>4, <1>5, <1>6, <1>7 DEF ReaderInv

\* A consistent copy, with the key sought, is a whole pair of the item.
LEMMA ReaderValidates ==
  ASSUME IInv, Next, NEW q \in Reader, Validate(q)
  PROVE  ReaderInv(q)'
<1>1. /\ TypeOK /\ ReaderInv(q) /\ rd[q] \in Readers /\ rd[q].copy \in Copies
      /\ rd[q].pc = "copy" /\ meta # ZeroMeta /\ DOMAIN rd[q].copy = Field
      /\ meta.gen \in 0..GenMod-1 /\ writes \in Nat /\ rd[q].start \in Nat
  BY Zenon DEF IInv, TypeOK, Validate, Readers, ReaderInv, Meta
<1>2. UNCHANGED <<meta, writes, cur>> /\ \A p : Words(p)' = Words(p)
  BY Zenon, SameBuild DEF Validate, Next
<1>3. CASE ~Consistent(meta, rd[q].word)
  <2>1. rd'[q] = [rd[q] EXCEPT !.pc = "load"]
    BY Zenon, <1>3 DEF Validate, IInv, TypeOK
  <2>2. rd'[q].pc = "load"
    BY Zenon, <1>1, <2>1 DEF Readers
  <2>. QED  BY Zenon, <1>1, <1>2, <2>2, ReaderIdle
<1>4. CASE Consistent(meta, rd[q].word) /\ rd[q].copy["key"] # rd[q].key
  <2>1. rd'[q] = IdleReader
    BY Zenon, <1>4 DEF Validate, IInv, TypeOK
  <2>. QED  BY <2>1, ReaderIdle DEF IdleReader
<1>5. CASE Consistent(meta, rd[q].word) /\ rd[q].copy["key"] = rd[q].key
  <2>1. rd'[q] = [rd[q] EXCEPT !.pc = "hit"]
    BY Zenon, <1>5 DEF Validate, IInv, TypeOK
  <2>2. /\ rd'[q].pc = "hit" /\ rd'[q].word = rd[q].word /\ rd'[q].start = rd[q].start
        /\ rd'[q].seen = rd[q].seen /\ rd'[q].copy = rd[q].copy /\ rd'[q].key = rd[q].key
    BY Zenon, <1>1, <2>1 DEF Readers
  <2>3. /\ rd[q].start <= writes /\ rd[q].word.gen # 0 /\ ~rd[q].word.dead /\ GenInv(q) /\ CopyInv(q)
    BY Zenon, <1>1 DEF ReaderInv
  <2>4. meta.gen = rd[q].word.gen /\ meta.gen % 2 = 0 /\ ~meta.dead
    BY Zenon, <1>5, <2>3 DEF Consistent
  <2>5. ASSUME writes - rd[q].start < Period
        PROVE  \E p \in rd[q].seen : p # NoPair /\ p[1] = rd[q].key /\ rd[q].copy = Words(p)
    <3>1. Even = Advanced(rd[q].word.gen, writes - rd[q].start)
      BY Zenon, <2>3, <2>4, <2>5 DEF GenInv
    <3>2. Even = meta.gen
      BY <1>1, <2>4 DEF Even
    <3>3. writes - rd[q].start \in Nat
      BY <1>1, <2>3, SMTT(60)
    <3>4. writes - rd[q].start = 0
      BY Zenon, <1>1, <2>4, <2>5, <3>1, <3>2, <3>3, SameGen
    <3>5. rd[q].start = writes
      BY <1>1, <3>4, SMTT(60)
    <3>6. PICK p \in rd[q].seen : /\ p \in Key \X Value
                                  /\ \A f \in Field : rd[q].copy[f] = Words(p)[f]
      BY Zenon, <1>1, <2>3, <2>4, <3>5 DEF CopyInv
    <3>7. rd[q].copy = Words(p)
      <4>1. rd[q].copy = [f \in Field |-> rd[q].copy[f]]
        BY Zenon, <1>1 DEF Copies
      <4>. QED  BY Zenon, <3>6, <4>1 DEF Words
    <3>8. p[1] = rd[q].key
      BY Zenon, <1>5, <3>6, BaseTypes, <1>1 DEF Words
    <3>9. p # NoPair
      BY <3>6, ItemAssumption, SMTT(60) DEF NoPair
    <3>. QED  BY Zenon, <3>6, <3>7, <3>8, <3>9
  <2>. QED  BY Zenon, <1>1, <1>2, <2>2, <2>3, <2>5 DEF ReaderInv, NoPair
<1>. QED  BY Zenon, <1>3, <1>4, <1>5

\* Every step keeps what holds of a reader, its own steps and the others'.
LEMMA ReaderStep ==
  ASSUME IInv, Next, NEW q \in Reader
  PROVE  ReaderInv(q)'
<1>1. /\ TypeOK /\ MetaInv /\ meta \in Meta /\ meta.gen \in 0..GenMod-1 /\ rd \in [Reader -> Readers]
      /\ IdleReader.pc = "idle"
  BY Zenon DEF IInv, TypeOK, Meta, IdleReader
<1>2. ASSUME SoftMeta, rd'[q] = rd[q], UNCHANGED <<writes, cur>> PROVE ReaderInv(q)'
  BY Zenon, <1>2, ReaderKept DEF SoftMeta
<1>3. ASSUME rd'[q] = IdleReader PROVE ReaderInv(q)'
  BY Zenon, <1>1, <1>3, ReaderIdle
<1>4. ASSUME NEW k \in Key, NEW v \in Value, BeginPublish(k, v) PROVE ReaderInv(q)'
  BY Zenon, <1>2, <1>4, SoftSteps DEF BeginPublish
<1>5. ASSUME NEW v \in Value, SetNarrow(v) PROVE ReaderInv(q)'
  BY Zenon, <1>2, <1>5, SoftSteps DEF SetNarrow
<1>6. BeginFree => ReaderInv(q)'
  BY Zenon, <1>2, SoftSteps DEF BeginFree
<1>7. PolicyLoad => ReaderInv(q)'
  BY Zenon, <1>2, SoftSteps DEF PolicyLoad
<1>8. ASSUME NEW f \in Field, StoreWord(f) PROVE ReaderInv(q)'
  <2>1. CASE wr.pc = "narrow"
    BY Zenon, <1>8, <2>1, ReaderUnderWrite
  <2>2. CASE wr.pc # "narrow"
    BY Zenon, <1>2, <1>8, <2>2, SoftSteps DEF StoreWord
  <2>. QED  BY Zenon, <2>1, <2>2
<1>9. ASSUME NEW off \in Offset, PublishMeta(off) PROVE ReaderInv(q)'
  <2>1. /\ meta.gen % 2 = 0 /\ meta.gen + 2 <= GenMod
        /\ meta'.gen = IF meta.gen + 2 < GenMod THEN meta.gen + 2 ELSE 2
    BY Zenon, <1>1, <1>9, PublishedMeta
  <2>2. Even = meta.gen
    BY <2>1 DEF Even
  <2>. QED  BY Zenon, <1>9, <2>1, <2>2, ReaderAdvances DEF PublishMeta
<1>10. ASSUME EndWrite PROVE ReaderInv(q)'
  <2>1. /\ meta.gen % 2 = 1 /\ meta.gen - 1 + 2 <= GenMod
        /\ meta'.gen = IF meta.gen - 1 + 2 < GenMod THEN meta.gen - 1 + 2 ELSE 2
    BY Zenon, <1>1, <1>10, EndedMeta
  <2>2. Even = meta.gen - 1
    BY Zenon, <2>1 DEF Even
  <2>. QED  BY Zenon, <1>10, <2>1, <2>2, ReaderAdvances DEF EndWrite
<1>11. EndWriteLoad => ReaderInv(q)'
  BY Zenon, <1>2, SoftSteps DEF EndWriteLoad
<1>12. RefreshLoad => ReaderInv(q)'
  BY Zenon, <1>2, SoftSteps DEF RefreshLoad
<1>13. ASSUME NEW off \in Offset, RefreshStore(off) PROVE ReaderInv(q)'
  BY Zenon, <1>2, <1>13, SoftSteps DEF RefreshStore
<1>14. ASSUME MakeFree PROVE ReaderInv(q)'
  <2>1. meta'.dead = meta.dead /\ meta'.gen = meta.gen /\ UNCHANGED <<rd, writes, cur>>
    BY Zenon, <1>1, <1>14 DEF MakeFree, Meta
  <2>2. meta # ZeroMeta => meta' # ZeroMeta
    BY Zenon, <1>1, <2>1, BaseTypes DEF MetaInv
  <2>. QED  BY Zenon, <2>1, <2>2, ReaderKept
<1>15. RevokeChance => ReaderInv(q)'
  BY Zenon, <1>2, SoftSteps DEF RevokeChance
<1>16. ResetChances => ReaderInv(q)'
  BY Zenon, <1>2, SoftSteps DEF ResetChances
<1>17. ASSUME NEW r \in Reader, NEW k, Load(r, k) PROVE ReaderInv(q)'
  <2>1. CASE r = q
    BY Zenon, <1>17, <2>1, ReaderLoads
  <2>2. CASE r # q
    BY Zenon, <1>1, <1>2, <1>17, <2>2, SoftSteps DEF Load
  <2>. QED  BY Zenon, <2>1, <2>2
<1>18. ASSUME NEW r \in Reader, NEW f \in Field, CopyWord(r, f) PROVE ReaderInv(q)'
  <2>1. CASE r = q
    BY Zenon, <1>18, <2>1, ReaderCopies
  <2>2. CASE r # q
    BY Zenon, <1>1, <1>2, <1>18, <2>2, SoftSteps DEF CopyWord
  <2>. QED  BY Zenon, <2>1, <2>2
<1>19. ASSUME NEW r \in Reader, Validate(r) PROVE ReaderInv(q)'
  <2>1. CASE r = q
    BY Zenon, <1>19, <2>1, ReaderValidates
  <2>2. CASE r # q
    BY Zenon, <1>1, <1>2, <1>19, <2>2, SoftSteps DEF Validate
  <2>. QED  BY Zenon, <2>1, <2>2
<1>20. ASSUME NEW r \in Reader, rd' = [rd EXCEPT ![r] = IdleReader], SoftMeta, UNCHANGED <<writes, cur>>
       PROVE  ReaderInv(q)'
  <2>1. rd'[q] = IdleReader \/ rd'[q] = rd[q]
    BY Zenon, <1>1, <1>20
  <2>. QED  BY Zenon, <1>2, <1>3, <1>20, <2>1
<1>21. ASSUME NEW r \in Reader, TouchWith(r) PROVE ReaderInv(q)'
  BY Zenon, <1>20, <1>21, SoftSteps DEF TouchWith
<1>22. ASSUME NEW r \in Reader, HitExpired(r) PROVE ReaderInv(q)'
  BY Zenon, <1>20, <1>22, SoftSteps DEF HitExpired
<1>23. ASSUME NEW r \in Reader, NEW off \in Offset, TouchAndRefreshExpire(r, off) PROVE ReaderInv(q)'
  BY Zenon, <1>20, <1>23, SoftSteps DEF TouchAndRefreshExpire
<1>24. (Kill \/ \E v \in Value : BeginWrite(v)) => ReaderInv(q)'
  BY Zenon, ReaderUnderWrite
<1>25. Writer => ReaderInv(q)'
  BY Zenon, <1>8, <1>9, <1>10, <1>11, <1>12, <1>13, <1>14, <1>15, <1>16 DEF Writer
<1>26. ASSUME NEW r \in Reader, Reads(r) PROVE ReaderInv(q)'
  BY Zenon, <1>17, <1>18, <1>19, <1>21, <1>22, <1>23, <1>26 DEF Reads
<1>. QED  BY Zenon, <1>4, <1>5, <1>6, <1>7, <1>17, <1>24, <1>25, <1>26 DEF Next, Step

-----------------------------------------------------------------------------
(***************************************************************************)
(* The theorems.                                                           *)
(***************************************************************************)

\* The invariant holds in every state of the item.
THEOREM Inductive == Spec => []IInv
<1>1. IInv /\ [Next]_vars => IInv'
  <2>. SUFFICES ASSUME IInv, [Next]_vars PROVE IInv'
    BY Zenon
  <2>1. CASE Next
    BY Zenon, <2>1, TypeStep, MetaStep, EntryStep, ReaderStep DEF IInv
  <2>2. CASE UNCHANGED vars
    <3>1. UNCHANGED <<build, meta, entry, wr, rd, writes, cur>>
      BY Zenon, <2>2 DEF vars
    <3>2. /\ Word' = Word /\ Field' = Field /\ Wide' = Wide /\ Meta' = Meta
          /\ Writers' = Writers /\ Readers' = Readers /\ \A p : Words(p)' = Words(p)
      BY Zenon, <3>1, SameBuild
    <3>3. TypeOK'
      BY Zenon, <3>1, <3>2 DEF IInv, TypeOK
    <3>4. MetaInv'
      BY Zenon, <3>1 DEF IInv, MetaInv, Live
    <3>5. Words(wr.pair)' = Words(wr.pair) /\ Words(cur)' = Words(cur)
      BY Zenon, <3>1 DEF Words, Field, Word
    <3>6. EntryInv'
      BY Zenon, <3>1, <3>2, <3>5 DEF IInv, EntryInv, Live
    <3>7. ASSUME NEW r \in Reader PROVE ReaderInv(r)'
      <4>1. GenInv(r) => GenInv(r)'
        <5>1. Even' = Even
          BY Zenon, <3>1 DEF Even
        <5>. QED  BY Zenon, <3>1, <5>1, SameDistance
      <4>2. CopyInv(r) => CopyInv(r)'
        BY Zenon, <3>1, <3>2 DEF CopyInv
      <4>. QED  BY Zenon, <3>1, <3>2, <4>1, <4>2 DEF IInv, ReaderInv
    <3>. QED  BY Zenon, <3>3, <3>4, <3>6, <3>7 DEF IInv
  <2>. QED  BY Zenon, <2>1, <2>2
<1>. QED  BY <1>1, InitIInv, PTL DEF Spec

\* A validated snapshot of SnapshotInto is one whole pair, under the key sought,
\* that the item held during the read: for every size of the value, number of
\* readers and modulus of the generations.
THEOREM SnapshotsWhole == Spec => []ReadsWhole
<1>1. IInv => ReadsWhole
  BY Zenon DEF IInv, ReaderInv, ReadsWhole
<1>. QED  BY <1>1, Inductive, PTL

\* Publish, beginWrite and endWrite leave an odd generation only while a wide
\* write is under way.
THEOREM OddInWrite == Spec => []OddOnlyInWrite
<1>1. IInv => OddOnlyInWrite
  BY Zenon DEF IInv, MetaInv, OddOnlyInWrite
<1>. QED  BY <1>1, Inductive, PTL

\* No step takes an occupied item back to the word of a never-occupied slot.
THEOREM NeverEmptyAgain == Spec => NeverZeroAgain
<1>1. IInv /\ Next => (meta # ZeroMeta => meta' # ZeroMeta)
  <2>. SUFFICES ASSUME IInv, Next, meta # ZeroMeta PROVE meta' # ZeroMeta
    BY Zenon
  <2>1. /\ TypeOK /\ MetaInv /\ meta \in Meta /\ meta.gen \in 0..GenMod-1 /\ meta.gen # 0
        /\ ZeroMeta.gen = 0 /\ ~ZeroMeta.dead
    BY Zenon, BaseTypes DEF IInv, TypeOK, MetaInv, Meta
  <2>2. MetaInv'
    BY Zenon, MetaStep
  <2>3. ASSUME meta'.dead \/ meta'.gen # 0 PROVE meta' # ZeroMeta
    BY Zenon, <2>1, <2>3
  <2>4. ASSUME NEW off \in Offset, PublishMeta(off) PROVE meta' # ZeroMeta
    BY <2>1, <2>3, <2>4, PublishedMeta
  <2>5. EndWrite => meta' # ZeroMeta
    BY <2>1, <2>3, EndedMeta
  <2>6. ASSUME NEW v \in Value, BeginWrite(v) PROVE meta' # ZeroMeta
    <3>1. wr'.pc = "wide"
      BY Zenon, <2>6, BaseTypes, <2>1 DEF BeginWrite, Writers
    <3>. QED  BY Zenon, <2>2, <3>1 DEF MetaInv, Live
  <2>7. Kill => meta' # ZeroMeta
    BY Zenon, <2>1, <2>3 DEF Kill, Meta
  <2>8. MakeFree => meta' # ZeroMeta
    BY Zenon, <2>1, <2>3 DEF MakeFree, Meta
  <2>9. SoftMeta => meta' # ZeroMeta
    BY Zenon DEF SoftMeta
  <2>10. UNCHANGED meta => meta' # ZeroMeta
    BY Zenon
  <2>11. Writer => meta' # ZeroMeta
    BY Zenon, <2>4, <2>5, <2>8, <2>9, <2>10, SoftSteps DEF Writer, StoreWord, EndWriteLoad,
         RefreshLoad
  <2>12. ASSUME NEW r \in Reader, Reads(r) PROVE meta' # ZeroMeta
    BY Zenon, <2>9, <2>10, <2>12, SoftSteps DEF Reads, Load, CopyWord, Validate, HitExpired
  <2>. QED  BY Zenon, <2>6, <2>7, <2>10, <2>11, <2>12 DEF Next, Step, BeginPublish, SetNarrow,
       BeginFree, PolicyLoad, Load
<1>. QED  BY <1>1, Inductive, PTL DEF Spec, NeverZeroAgain, vars

\* The readers' touches and TTL refreshes, which compete with Kill and MakeFree
\* for the meta word, never take the Dead or the Free bit back: only Publish does.
THEOREM OnlyPublishRevives == Spec => DeadStaysDead
<1>. DEFINE Kept == \A m \in {meta} :
                      (m.dead /\ ~meta'.dead) \/ (m.free /\ ~meta'.free) => wr.pc = "publish"
<1>1. IInv /\ Next => Kept
  <2>. SUFFICES ASSUME IInv, Next, wr.pc # "publish",
                       (meta.dead /\ ~meta'.dead) \/ (meta.free /\ ~meta'.free)
                PROVE  FALSE
    BY Zenon
  <2>1. meta \in Meta /\ meta.dead
    BY Zenon DEF IInv, TypeOK, MetaInv
  <2>2. wr.pc \notin {"end", "wide", "refresh", "store", "narrow", "policy"}
    BY Zenon, <2>1 DEF IInv, MetaInv, Live
  <2>3. ~SoftMeta /\ meta' # meta
    BY Zenon, <2>1 DEF SoftMeta
  <2>4. ~MakeFree
    BY Zenon, <2>1 DEF MakeFree, Meta
  <2>5. ~Writer
    BY Zenon, <2>2, <2>3, <2>4, SoftSteps DEF Writer, StoreWord, PublishMeta, EndWriteLoad,
         EndWrite, RefreshLoad
  <2>6. ASSUME NEW r \in Reader, Reads(r) PROVE FALSE
    BY Zenon, <2>3, <2>6, SoftSteps DEF Reads, Load, CopyWord, Validate, HitExpired
  <2>. QED  BY Zenon, <2>1, <2>3, <2>5, <2>6 DEF Next, Step, BeginPublish, BeginWrite, SetNarrow,
       Kill, BeginFree, PolicyLoad, Load
<1>2. UNCHANGED vars => Kept
  BY Zenon DEF vars
<1>. QED  BY <1>1, <1>2, Inductive, PTL DEF Spec, DeadStaysDead
=============================================================================
