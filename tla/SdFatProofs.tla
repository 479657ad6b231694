---------------------------- MODULE SdFatProofs ----------------------------
(***************************************************************************)
(* For every number of clusters and every size of a block: the block cache *)
(* of the SD library and the two copies of the file allocation table, over *)
(* any calls, with errors and losses of power at any of their accesses.    *)
(*                                                                         *)
(* The second table is written only by cacheFlush, and only while the      *)
(* first one is the block in the cache.  So everything turns on what the   *)
(* cache holds when a routine changes it: Sound says of the machine of a   *)
(* call that it agrees with the card (CacheOK), that no block that a       *)
(* routine will fetch to write it is a table (Filed, Places), and that the *)
(* tables agree unless the call met a fault or has not touched them        *)
(* (Tabled).  Every routine of SdVolume, SdFile and SDClass keeps that,    *)
(* and FatInv is what is left of it between two calls.                     *)
(***************************************************************************)
EXTENDS SDClass, CommonTheorems

Tables == {FatBlock, MirrorBlock}
Fields ==
  {"card", "buf", "cached", "dirty", "mirror", "search", "ok", "val", "hit", "io", "power",
   "accesses", "more", "f", "slot", "last"}
FileFields ==
  {"type", "dirBlock", "dirIndex", "first", "cur", "pos", "size", "write", "dirty"}

-----------------------------------------------------------------------------
(* Sound machines. *)

\* An open file's entry is in no table.
Held(f) == DOMAIN f = FileFields /\ f.dirBlock \notin Tables
Filed(f) == f = ClosedFile \/ Held(f)

\* The cache and the card agree, and the second table is marked with the first.
CacheOK(m) ==
  /\ m.mirror <=> m.dirty /\ m.cached = FatBlock
  /\ m.cached # MirrorBlock
  /\ m.cached \in Blocks /\ ~ m.dirty => m.buf = m.card[m.cached]

\* With no fault, both tables are as they were before the call, or alike.
Tabled(m) == m.hit \/ m.card[FatBlock] = card[FatBlock] \/ m.card[MirrorBlock] = m.card[FatBlock]

\* The places a routine remembers are in no table.
Places(m) ==
  /\ DOMAIN m.slot = {"block", "index"} /\ m.slot.block \notin Tables
  /\ m.last \in Int /\ m.last \notin Tables /\ m.search \in Int

Sound(m) ==
  /\ DOMAIN m = Fields /\ DOMAIN m.card = Blocks
  /\ CacheOK(m) /\ Tabled(m) /\ Filed(m.f) /\ Places(m)

\* What a routine that neither stores nor loads anything leaves alone.
Beside(m, r) ==
  /\ DOMAIN r = Fields /\ r.card = m.card /\ r.buf = m.buf /\ r.cached = m.cached
  /\ r.dirty = m.dirty /\ r.mirror = m.mirror

\* A routine that leaves the card and the cache alone keeps a machine sound, wherever
\* it takes the file and the places to.
LEMMA BesideSound ==
  ASSUME NEW m, NEW r, Sound(m), Beside(m, r), Filed(r.f), Places(r), r.hit = TRUE \/ r.hit = m.hit
  PROVE  Sound(r)
BY DEF Sound, Beside, CacheOK, Tabled

\* The same, when it leaves the file and the places as well.
Like(m, r) == Beside(m, r) /\ r.f = m.f /\ r.slot = m.slot /\ r.last = m.last /\ r.search = m.search

\* So does one that changes results only.
LEMMA LikeSound ==
  ASSUME NEW m, NEW r, Sound(m), Like(m, r), r.hit = TRUE \/ r.hit = m.hit
  PROVE  Sound(r)
<1>1. Filed(r.f) /\ Places(r)
  BY DEF Like, Sound, Places
<1> QED BY <1>1, BesideSound DEF Like

\* A failure changes a result only ...
LEMMA FailLeaves ==
  ASSUME NEW m, DOMAIN m = Fields
  PROVE  Like(m, Fail(m)) /\ Fail(m).ok = FALSE /\ Fail(m).hit = m.hit
BY DEF Fail, Like, Beside, Fields

\* ... and the machine stays sound.
LEMMA FailKeeps ==
  ASSUME NEW m, Sound(m)
  PROVE  Sound(Fail(m)) /\ Fail(m).f = m.f /\ ~ Fail(m).ok
<1>1. Like(m, Fail(m)) /\ Fail(m).ok = FALSE /\ Fail(m).hit = m.hit
  BY FailLeaves DEF Sound
<1> QED BY <1>1, LikeSound DEF Like

\* An access of the card, before its effect, changes results only; when it fails, the
\* fault is on record.
LEMMA AccessLeaves ==
  ASSUME NEW m, DOMAIN m = Fields
  PROVE  LET a == Access(m)
         IN  /\ Like(m, a)
             /\ (a.hit = TRUE /\ a.ok = FALSE) \/ (a.hit = m.hit /\ a.ok = m.ok)
BY DEF Access, Like, Beside, Fields

\* The two tables, the root, the clusters and NoBlock are different blocks.
LEMMA BlockNumbers ==
  /\ FatBlock \in Blocks /\ MirrorBlock \in Blocks /\ FatBlock # MirrorBlock
  /\ RootBlock \notin Tables /\ RootBlock \in Int /\ NoBlock \notin Tables /\ NoBlock \notin Blocks
  /\ Clusters \cap Tables = {} /\ Clusters \subseteq Int
  /\ \A c : clusterStartBlock(c) \notin Tables /\ clusterStartBlock(c) \in Int
BY VolumeAssumption DEF FatBlock, MirrorBlock, RootBlock, NoBlock, Blocks, Clusters, Tables, fatEnd,
   clusterStartBlock

-----------------------------------------------------------------------------
(* The cache. *)

\* Nothing is stored, or data in the block.
Unwritten(m, block, w) ==
  /\ Like(m, w) /\ ~ w.ok
  /\ w.hit = TRUE \/ (w.hit = m.hit /\ (~ m.ok \/ block \notin Blocks))
Written(m, block, data, w) ==
  /\ DOMAIN w = Fields /\ w.card = [m.card EXCEPT ![block] = data]
  /\ w.f = m.f /\ w.cached = m.cached /\ w.dirty = m.dirty /\ w.mirror = m.mirror
  /\ w.buf = m.buf /\ w.slot = m.slot /\ w.last = m.last /\ w.search = m.search
  /\ w.ok /\ m.ok /\ w.hit = m.hit /\ block \in Blocks

\* A write stores the whole block, or nothing and reports it.
LEMMA WriteBlockLeaves ==
  ASSUME NEW m, DOMAIN m = Fields, NEW block, NEW data
  PROVE  LET w == WriteBlock(m, block, data)
         IN  Unwritten(m, block, w) \/ Written(m, block, data, w)
<1> DEFINE w == WriteBlock(m, block, data)
           a == Access(m)
<1>1. CASE block \notin Blocks
  <2>1. w = Fail(m)
    BY <1>1 DEF WriteBlock
  <2> QED BY <1>1, <2>1, FailLeaves DEF Unwritten
<1>2. CASE block \in Blocks
  <2>1. Like(m, a) /\ ((a.hit = TRUE /\ a.ok = FALSE) \/ (a.hit = m.hit /\ a.ok = m.ok))
    BY AccessLeaves
  <2>2. w = IF a.ok THEN [a EXCEPT !.card[block] = data] ELSE a
    BY <1>2 DEF WriteBlock, Then
  <2> HIDE DEF a, w
  <2>3. CASE ~ a.ok
    BY <2>1, <2>2, <2>3, <1>2 DEF Unwritten, w
  <2>4. CASE a.ok
    <3>1. w = [a EXCEPT !.card = [m.card EXCEPT ![block] = data]]
      BY <2>1, <2>2, <2>4 DEF Like, Beside
    <3>2. /\ DOMAIN w = Fields /\ w.f = a.f /\ w.cached = a.cached /\ w.dirty = a.dirty
          /\ w.mirror = a.mirror /\ w.buf = a.buf /\ w.slot = a.slot /\ w.last = a.last /\ w.search = a.search
          /\ w.ok = a.ok /\ w.hit = a.hit /\ w.card = [m.card EXCEPT ![block] = data]
      BY <2>1, <3>1 DEF Like, Beside, Fields
    <3>3. Written(m, block, data, w)
      BY <1>2, <2>1, <2>4, <3>2 DEF Like, Beside, Written
    <3> QED BY <3>3 DEF w
  <2> QED BY <2>3, <2>4
<1> QED BY <1>1, <1>2

\* The block in the cache is on the card, and in both tables if it is a table.
LEMMA cacheFlushKeeps ==
  ASSUME NEW m, Sound(m)
  PROVE  LET r == cacheFlush(m)
         IN  /\ Sound(r) /\ r.f = m.f /\ r.cached = m.cached /\ r.buf = m.buf /\ r.slot = m.slot
             /\ r.last = m.last /\ r.search = m.search
             /\ r.ok => m.ok
             /\ r.ok => ~ r.dirty /\ ~ r.mirror
<1> DEFINE r == cacheFlush(m)
           w == WriteBlock(m, m.cached, m.buf)
           v == IF w.mirror THEN WriteBlock(w, MirrorBlock, w.buf) ELSE w
           x == [v EXCEPT !.mirror = FALSE, !.dirty = FALSE]
<1>1. CASE ~ m.dirty
  BY <1>1 DEF cacheFlush, Sound, CacheOK
<1>2. CASE m.dirty
  <2>1. DOMAIN m = Fields /\ DOMAIN m.card = Blocks
    BY DEF Sound
  <2>2. Unwritten(m, m.cached, w) \/ Written(m, m.cached, m.buf, w)
    BY <2>1, WriteBlockLeaves
  <2>3. r = IF w.ok THEN IF v.ok THEN x ELSE v ELSE w
    BY <1>2 DEF cacheFlush, Then
  <2> HIDE DEF w, r
  <2>4. CASE Unwritten(m, m.cached, w)
    <3>1. r = w /\ Like(m, w) /\ ~ w.ok /\ (w.hit = TRUE \/ w.hit = m.hit)
      BY <2>3, <2>4 DEF Unwritten
    <3>2. Sound(r)
      BY <3>1, LikeSound
    <3> QED BY <3>1, <3>2 DEF Like, Beside, r
  <2>5. CASE Written(m, m.cached, m.buf, w) /\ ~ m.mirror
    <3>1. m.cached # FatBlock /\ m.cached # MirrorBlock
      BY <1>2, <2>5 DEF Sound, CacheOK
    <3>2. v = w /\ r = [w EXCEPT !.mirror = FALSE, !.dirty = FALSE]
      BY <2>3, <2>5 DEF Written
    <3>3. /\ DOMAIN r = Fields /\ r.f = m.f /\ r.cached = m.cached /\ r.buf = m.buf
          /\ r.slot = m.slot /\ r.last = m.last /\ r.search = m.search /\ r.dirty = FALSE /\ r.mirror = FALSE
          /\ r.card = w.card /\ r.hit = m.hit
      BY <2>5, <3>2 DEF Fields, Written
    <3>4. /\ w.card[FatBlock] = m.card[FatBlock] /\ w.card[MirrorBlock] = m.card[MirrorBlock]
          /\ w.card[m.cached] = m.buf /\ DOMAIN w.card = Blocks
      BY <2>1, <2>5, <3>1, BlockNumbers DEF Written
    <3>5. CacheOK(r) /\ Tabled(r)
      BY <3>1, <3>3, <3>4 DEF Sound, CacheOK, Tabled
    <3> QED BY <2>5, <3>3, <3>4, <3>5 DEF Sound, Places, Written, r
  <2>6. CASE Written(m, m.cached, m.buf, w) /\ m.mirror
    <3>1. m.cached = FatBlock /\ m.cached \in Blocks
      BY <2>6, BlockNumbers DEF Sound, CacheOK
    <3>2. /\ w.card[FatBlock] = m.buf /\ DOMAIN w.card = Blocks /\ DOMAIN w = Fields
          /\ w.hit = m.hit /\ w.ok
      BY <2>1, <2>6, <3>1 DEF Written
    <3>3. v = WriteBlock(w, MirrorBlock, w.buf)
      BY <2>6 DEF Written
    <3>4. Unwritten(w, MirrorBlock, v) \/ Written(w, MirrorBlock, w.buf, v)
      BY <3>2, <3>3, WriteBlockLeaves
    <3> HIDE DEF v
    <3>5. CASE Unwritten(w, MirrorBlock, v)
      <4>1. r = v /\ Like(w, v) /\ ~ v.ok /\ v.hit = TRUE
        BY <2>3, <3>2, <3>5, BlockNumbers DEF Unwritten
      <4>2. CacheOK(v) /\ Tabled(v)
        BY <1>2, <2>6, <3>1, <4>1, BlockNumbers DEF CacheOK, Tabled, Like, Beside, Written
      <4> QED BY <2>6, <3>2, <4>1, <4>2 DEF Sound, Places, Written, Like, Beside, r
    <3>6. CASE Written(w, MirrorBlock, w.buf, v)
      <4>1. r = [v EXCEPT !.mirror = FALSE, !.dirty = FALSE]
        BY <2>3, <3>2, <3>6 DEF Written
      <4>2. /\ DOMAIN r = Fields /\ r.f = m.f /\ r.cached = m.cached /\ r.buf = m.buf
            /\ r.slot = m.slot /\ r.last = m.last /\ r.search = m.search /\ r.dirty = FALSE /\ r.mirror = FALSE
            /\ r.card = v.card /\ r.hit = m.hit
        BY <2>6, <3>6, <4>1 DEF Fields, Written
      <4>3. /\ v.card[FatBlock] = m.buf /\ v.card[MirrorBlock] = m.buf
            /\ DOMAIN v.card = Blocks
        BY <2>6, <3>2, <3>6, BlockNumbers DEF Written
      <4>4. CacheOK(r) /\ Tabled(r)
        BY <3>1, <4>2, <4>3, BlockNumbers DEF CacheOK, Tabled
      <4> QED BY <2>6, <4>2, <4>3, <4>4 DEF Sound, Places, Written, r
    <3> QED BY <3>4, <3>5, <3>6
  <2> QED BY <2>2, <2>4, <2>5, <2>6
<1> QED BY <1>1, <1>2

\* A routine keeps what is sound, and the open file as it is.
Keeps(m, r) == Sound(r) /\ r.f = m.f /\ (r.ok => m.ok)

\* Changed results are kept with.
LEMMA LikeKeeps ==
  ASSUME NEW m, NEW r, Sound(m), Like(m, r), r.hit = TRUE \/ r.hit = m.hit, r.ok => m.ok
  PROVE  Keeps(m, r)
BY LikeSound DEF Like, Keeps

\* Another block comes into the cache: what was there is on the card before, and only
\* blocks that are no table are fetched to be written.
LEMMA cacheRawBlockKeeps ==
  ASSUME NEW m, Sound(m), NEW block, block # MirrorBlock, NEW forWrite \in BOOLEAN,
         forWrite => block \notin Tables
  PROVE  LET r == cacheRawBlock(m, block, forWrite)
         IN  /\ Keeps(m, r) /\ r.slot = m.slot /\ r.last = m.last /\ r.search = m.search
             /\ r.ok => r.cached = block /\ (forWrite => r.dirty)
<1> DEFINE r == cacheRawBlock(m, block, forWrite)
           w == cacheFlush(m)
           a == Access(w)
<1>1. CASE m.cached = block
  <2>1. r = [m EXCEPT !.dirty = m.dirty \/ forWrite]
    BY <1>1 DEF cacheRawBlock
  <2>2. /\ DOMAIN r = Fields /\ r.card = m.card /\ r.buf = m.buf /\ r.cached = m.cached
        /\ r.dirty = (m.dirty \/ forWrite) /\ r.mirror = m.mirror /\ r.hit = m.hit /\ r.ok = m.ok
        /\ r.f = m.f /\ r.slot = m.slot /\ r.last = m.last /\ r.search = m.search
    BY <2>1 DEF Sound, Fields
  <2> HIDE DEF r
  <2>3. CacheOK(r)
    BY <1>1, <2>2 DEF Sound, CacheOK, Tables
  <2>4. Sound(r)
    BY <2>2, <2>3 DEF Sound, Tabled, Places
  <2> QED BY <1>1, <2>2, <2>4 DEF Keeps, r
<1>2. CASE m.cached # block
  <2>1. /\ Sound(w) /\ w.f = m.f /\ w.slot = m.slot /\ w.last = m.last /\ w.search = m.search
        /\ (w.ok => m.ok) /\ (w.ok => ~ w.dirty /\ ~ w.mirror)
    BY cacheFlushKeeps
  <2>2. r = IF w.ok
              THEN IF a.ok THEN [a EXCEPT !.buf = a.card[block], !.cached = block, !.dirty = forWrite]
                   ELSE a
            ELSE w
    BY <1>2 DEF cacheRawBlock, Then
  <2>3. /\ Like(w, a) /\ ((a.hit = TRUE /\ a.ok = FALSE) \/ (a.hit = w.hit /\ a.ok = w.ok))
    BY <2>1, AccessLeaves DEF Sound
  <2> HIDE DEF w, a, r
  <2>4. CASE ~ w.ok
    BY <2>1, <2>2, <2>4 DEF Keeps, r
  <2>5. CASE w.ok /\ ~ a.ok
    <3>1. r = a /\ Sound(a)
      BY <2>1, <2>2, <2>3, <2>5, LikeSound
    <3> QED BY <2>1, <2>3, <2>5, <3>1 DEF Keeps, Like, r
  <2>6. CASE w.ok /\ a.ok
    <3>1. r = [a EXCEPT !.buf = a.card[block], !.cached = block, !.dirty = forWrite]
      BY <2>2, <2>6
    <3>2. /\ DOMAIN r = Fields /\ r.card = w.card /\ r.buf = w.card[block] /\ r.cached = block
          /\ r.dirty = forWrite /\ r.mirror = w.mirror /\ r.hit = w.hit /\ r.ok
          /\ r.f = m.f /\ r.slot = m.slot /\ r.last = m.last /\ r.search = m.search
      BY <2>1, <2>3, <2>6, <3>1 DEF Like, Beside, Fields
    <3>3. CacheOK(r)
      BY <2>1, <2>6, <3>2 DEF CacheOK, Tables
    <3>4. Sound(r)
      BY <2>1, <3>2, <3>3 DEF Sound, Tabled, Places
    <3> QED BY <2>1, <2>6, <3>2, <3>4 DEF Keeps, r
  <2> QED BY <2>4, <2>5, <2>6
<1> QED BY <1>1, <1>2

\* A zeroed block comes into the cache instead of a fetched one.
LEMMA cacheZeroBlockKeeps ==
  ASSUME NEW m, Sound(m), NEW block, block \notin Tables
  PROVE  LET z == cacheZeroBlock(m, block)
         IN  Keeps(m, z) /\ (z.ok => z.cached = block /\ z.dirty)
<1> DEFINE z == cacheZeroBlock(m, block)
           w == cacheFlush(m)
<1>1. Sound(w) /\ w.f = m.f /\ (w.ok => m.ok) /\ (w.ok => ~ w.dirty /\ ~ w.mirror)
  BY cacheFlushKeeps
<1>2. z = IF w.ok THEN [w EXCEPT !.buf = Zeroes, !.cached = block, !.dirty = TRUE] ELSE w
  BY DEF cacheZeroBlock, Then
<1> HIDE DEF w, z
<1>3. CASE ~ w.ok
  BY <1>1, <1>2, <1>3 DEF Keeps, z
<1>4. CASE w.ok
  <2>1. /\ DOMAIN z = Fields /\ z.card = w.card /\ z.cached = block /\ z.dirty = TRUE
        /\ z.mirror = w.mirror /\ z.hit = w.hit /\ z.ok = w.ok /\ z.f = m.f
        /\ z.slot = w.slot /\ z.last = w.last /\ z.search = w.search
    BY <1>1, <1>2, <1>4 DEF Sound, Fields
  <2>2. CacheOK(z)
    BY <1>1, <1>4, <2>1 DEF CacheOK, Tables
  <2>3. Sound(z)
    BY <1>1, <2>1, <2>2 DEF Sound, Tabled, Places
  <2> QED BY <1>1, <1>4, <2>1, <2>3 DEF Keeps, z
<1> QED BY <1>3, <1>4

-----------------------------------------------------------------------------
(* The table. *)

\* An entry of the first table is read, which brings that table into the cache.
LEMMA fatGetKeeps ==
  ASSUME NEW m, Sound(m), NEW cluster
  PROVE  LET g == fatGet(m, cluster)
         IN  /\ Keeps(m, g) /\ g.slot = m.slot /\ g.last = m.last /\ g.search = m.search
             /\ g.ok => g.cached = FatBlock
<1> DEFINE g == fatGet(m, cluster)
           r == cacheRawBlock(m, FatBlock, FALSE)
<1>1. CASE cluster > fatEnd
  <2>1. g = Fail(m)
    BY <1>1 DEF fatGet
  <2>2. Like(m, g) /\ g.ok = FALSE /\ g.hit = m.hit
    BY <2>1, FailLeaves DEF Sound
  <2> HIDE DEF g
  <2>3. Keeps(m, g)
    BY <2>2, LikeKeeps
  <2> QED BY <2>2, <2>3 DEF Like, g
<1>2. CASE ~ cluster > fatEnd
  <2>1. Keeps(m, r) /\ r.slot = m.slot /\ r.last = m.last /\ r.search = m.search /\ (r.ok => r.cached = FatBlock)
    BY BlockNumbers, cacheRawBlockKeeps
  <2>2. g = IF r.ok THEN [r EXCEPT !.val = r.buf[cluster]] ELSE r
    BY <1>2 DEF fatGet, Then
  <2> HIDE DEF g, r
  <2>3. CASE ~ r.ok
    BY <2>1, <2>2, <2>3 DEF Keeps, g
  <2>4. CASE r.ok
    <3>1. Like(r, g) /\ g.hit = r.hit /\ g.ok = r.ok
      BY <2>1, <2>2, <2>4 DEF Like, Beside, Keeps, Sound, Fields
    <3>2. Sound(g)
      BY <2>1, <3>1, LikeSound DEF Keeps
    <3> QED BY <2>1, <3>1, <3>2 DEF Keeps, Like, Beside, g
  <2> QED BY <2>3, <2>4
<1> QED BY <1>1, <1>2

\* Entries are put into the table while it is in the cache.
LEMMA fatPutAllKeeps ==
  ASSUME NEW m, Sound(m), m.cached = FatBlock, NEW entries
  PROVE  LET p == fatPutAll(m, entries)
         IN  /\ Keeps(m, p) /\ p.slot = m.slot /\ p.last = m.last /\ p.search = m.search /\ p.cached = FatBlock
             /\ p.ok = m.ok
<1> DEFINE p == fatPutAll(m, entries)
           u == entries @@ m.buf
<1>1. CASE DOMAIN entries = {}
  BY <1>1 DEF fatPutAll, Keeps
<1>2. CASE DOMAIN entries # {}
  <2>1. p = [m EXCEPT !.buf = u, !.dirty = TRUE, !.mirror = TRUE]
    BY <1>2 DEF fatPutAll
  <2> HIDE DEF u, p
  <2>2. /\ DOMAIN p = Fields /\ p.card = m.card /\ p.cached = m.cached /\ p.dirty = TRUE
        /\ p.mirror = TRUE /\ p.hit = m.hit /\ p.ok = m.ok /\ p.f = m.f
        /\ p.slot = m.slot /\ p.last = m.last /\ p.search = m.search
    BY <2>1 DEF Sound, Fields
  <2>3. CacheOK(p)
    BY <2>2, BlockNumbers DEF CacheOK
  <2>4. Sound(p)
    BY <2>2, <2>3 DEF Sound, Tabled, Places
  <2> QED BY <2>2, <2>4 DEF Keeps, p
<1> QED BY <1>1, <1>2

\* What is found for a cluster after a known one is a cluster of the volume.
LEMMA FoundIsCluster ==
  ASSUME NEW from \in Int, NEW fat, GroupEnds(fat, ScanFrom(from), 1) # {}
  PROVE  ScanFrom(from)[Min(GroupEnds(fat, ScanFrom(from), 1))] \in Clusters
<1> DEFINE ends == GroupEnds(fat, ScanFrom(from), 1)
           n == Min(ends)
           start == IF from > fatEnd THEN 2 ELSE from
<1>1. ends \in SUBSET Nat /\ ends \subseteq 0 .. clusterCount_ - 1
  <2>1. ends \subseteq 1 - 1 .. clusterCount_ - 1 /\ clusterCount_ \in Nat
    BY VolumeAssumption DEF GroupEnds
  <2> QED BY <2>1
<1>2. \E x \in ends : \A y \in ends : x <= y
  BY <1>1, LeastElement
<1>3. n \in ends
  BY <1>2 DEF Min
<1>4. n \in 0 .. clusterCount_ - 1
  BY <1>1, <1>3
<1>5. ScanFrom(from)[n] = 2 + ((start - 2 + n) % clusterCount_)
  BY <1>4 DEF ScanFrom
<1>6. start \in Int /\ n \in Int /\ clusterCount_ \in Nat /\ clusterCount_ > 0
  BY <1>4, VolumeAssumption DEF fatEnd
<1> HIDE DEF ends, n, start
<1>7. (start - 2 + n) % clusterCount_ \in 0 .. clusterCount_ - 1
  BY <1>6
<1>8. ScanFrom(from)[n] \in 2 .. clusterCount_ + 1
  BY <1>5, <1>6, <1>7
<1> QED BY <1>8 DEF Clusters, fatEnd, n, ends

\* A cluster is allocated and chained: its number is one of a cluster.
LEMMA allocContiguousKeeps ==
  ASSUME NEW m, Sound(m), NEW cur
  PROVE  LET a == allocContiguous(m, 1, cur)
         IN  /\ Keeps(m, a) /\ a.slot = m.slot /\ a.last = m.last
             /\ a.ok /\ cur \in Int => a.val \in Clusters
<1> DEFINE a == allocContiguous(m, 1, cur)
           g == fatGet(m, 2)
           from == IF cur # 0 THEN cur + 1 ELSE g.search
           ends == GroupEnds(g.buf, ScanFrom(from), 1)
           end == ScanFrom(from)[Min(ends)]
           bgn == end - 1 + 1
           entries == [c \in bgn .. end |-> IF c = end THEN EOC ELSE c + 1]
                      @@ (IF cur # 0 THEN cur :> bgn ELSE <<>>)
           p == fatPutAll(g, entries)
           filled == [p EXCEPT !.val = bgn, !.search = IF cur = 0 /\ 1 = 1 THEN bgn + 1 ELSE @]
<1>1. /\ Keeps(m, g) /\ g.slot = m.slot /\ g.last = m.last /\ g.search = m.search
      /\ (g.ok => g.cached = FatBlock)
  BY fatGetKeeps
<1>2. a = IF g.ok THEN IF ends = {} THEN Fail(g) ELSE filled ELSE g
  BY DEF allocContiguous, Then
<1>3. ASSUME ends # {}, cur \in Int PROVE bgn \in Clusters
  <2>1. from \in Int
    BY <1>1, <1>3 DEF Keeps, Sound, Places
  <2> HIDE DEF from
  <2>2. end \in Clusters
    BY <1>3, <2>1, FoundIsCluster
  <2> HIDE DEF end
  <2> QED BY <2>2, BlockNumbers
<1>4. g.ok => Keeps(g, p) /\ p.slot = g.slot /\ p.last = g.last /\ p.search = g.search
  <2> HIDE DEF g, entries
  <2> QED BY <1>1, fatPutAllKeeps DEF Keeps
<1> HIDE DEF g, ends, bgn, p, a
<1>5. CASE ~ g.ok
  BY <1>1, <1>2, <1>5 DEF a
<1>6. CASE g.ok /\ ends = {}
  <2>1. a = Fail(g) /\ Like(g, a) /\ a.ok = FALSE /\ a.hit = g.hit
    BY <1>1, <1>2, <1>6, FailLeaves DEF Keeps, Sound
  <2>2. Keeps(g, a)
    BY <1>1, <2>1, LikeKeeps DEF Keeps
  <2> QED BY <1>1, <1>6, <2>1, <2>2 DEF Keeps, Like, a
<1>7. CASE g.ok /\ ends # {}
  <2>1. a = filled
    BY <1>2, <1>7
  <2>2. /\ Beside(p, a) /\ a.f = p.f /\ a.slot = p.slot /\ a.last = p.last /\ a.hit = p.hit
        /\ a.ok = p.ok /\ a.val = bgn /\ (a.search = p.search \/ (cur = 0 /\ a.search = bgn + 1))
    BY <1>4, <1>7, <2>1 DEF Beside, Keeps, Sound, Fields
  <2>3. a.search \in Int
    BY <1>3, <1>4, <1>7, <2>2, BlockNumbers DEF Keeps, Sound, Places
  <2>4. Filed(a.f) /\ Places(a)
    BY <1>4, <1>7, <2>2, <2>3 DEF Keeps, Sound, Places
  <2>5. Sound(a)
    BY <1>4, <1>7, <2>2, <2>4, BesideSound DEF Keeps
  <2> QED BY <1>1, <1>3, <1>4, <1>7, <2>2, <2>5 DEF Keeps, a
<1> QED BY <1>5, <1>6, <1>7

\* A chain is freed: the table stays in the cache when all went well.
LEMMA freeChainKeeps ==
  ASSUME NEW m, Sound(m), NEW cluster
  PROVE  LET r == freeChain(m, cluster)
         IN  /\ Sound(r) /\ r.f = m.f /\ r.slot = m.slot /\ r.last = m.last
             /\ r.ok => m.ok /\ r.cached = FatBlock
<1> DEFINE r == freeChain(m, cluster)
           n == [m EXCEPT !.search = 2]
           g == fatGet(n, cluster)
           p == fatPutAll(g, [c \in Chain(g.buf, cluster) |-> 0])
           ends == \E k \in Steps : /\ isEOC(Walk(g.buf, cluster)[k])
                                    /\ \A i \in 0 .. k - 1 : Walk(g.buf, cluster)[i] \in Clusters
<1>1. /\ Beside(m, n) /\ n.f = m.f /\ n.slot = m.slot /\ n.last = m.last /\ n.hit = m.hit
      /\ n.ok = m.ok /\ n.search = 2
  BY DEF Beside, Sound, Fields
<1>2. Sound(n)
  <2>1. Filed(n.f) /\ Places(n)
    BY <1>1 DEF Sound, Places
  <2> QED BY <1>1, <2>1, BesideSound
<1>3. r = IF g.ok THEN [p EXCEPT !.ok = ends] ELSE g
  BY DEF freeChain, Then
<1> HIDE DEF n
<1>4. Keeps(n, g) /\ g.slot = n.slot /\ g.last = n.last /\ (g.ok => g.cached = FatBlock)
  BY <1>2, fatGetKeeps
<1> HIDE DEF g
<1>5. g.ok => Keeps(g, p) /\ p.slot = g.slot /\ p.last = g.last /\ p.cached = FatBlock
  BY <1>4, fatPutAllKeeps DEF Keeps
<1> HIDE DEF p, ends, r
<1>6. CASE ~ g.ok
  BY <1>1, <1>3, <1>4, <1>6 DEF Keeps, r
<1>7. CASE g.ok
  <2>1. /\ Like(p, r) /\ r.hit = p.hit
    BY <1>3, <1>5, <1>7 DEF Like, Beside, Keeps, Sound, Fields
  <2>2. Sound(r)
    BY <1>5, <1>7, <2>1, LikeSound DEF Keeps
  <2> QED BY <1>1, <1>4, <1>5, <1>7, <2>1, <2>2 DEF Keeps, Like, Beside, r
<1> QED BY <1>6, <1>7

-----------------------------------------------------------------------------
(* The open file. *)

\* A routine keeps what is sound, and an open file open.
Holds(m, r) == Sound(r) /\ Held(r.f) /\ (r.ok => m.ok)

\* A file that is left as it is stays open.
LEMMA KeepsHolds ==
  ASSUME NEW m, NEW r, Keeps(m, r), Held(m.f)
  PROVE  Holds(m, r)
BY DEF Keeps, Holds

\* The file of the machine is changed, and nothing else.
Refiled(m, r) ==
  /\ Beside(m, r) /\ Held(r.f) /\ r.slot = m.slot /\ r.last = m.last /\ r.search = m.search
  /\ r.hit = m.hit /\ r.ok = m.ok

\* A changed file with its entry outside the tables is as good as the old one.
LEMMA RefiledHolds ==
  ASSUME NEW m, NEW r, Sound(m), Refiled(m, r)
  PROVE  Holds(m, r)
<1>1. Filed(r.f) /\ Places(r)
  BY DEF Sound, Refiled, Places, Filed
<1>2. Sound(r)
  BY <1>1, BesideSound DEF Refiled
<1> QED BY <1>2 DEF Refiled, Holds

\* A failure leaves the file open.
LEMMA FailHolds ==
  ASSUME NEW m, Sound(m), Held(m.f)
  PROVE  Holds(m, Fail(m)) /\ ~ Fail(m).ok
BY FailKeeps DEF Holds

\* The block in the cache is changed, once it is to be written.
Scribbled(m, r) ==
  /\ DOMAIN r = Fields /\ r.card = m.card /\ r.cached = m.cached /\ r.dirty = m.dirty
  /\ r.mirror = m.mirror /\ r.hit = m.hit /\ r.slot = m.slot /\ r.last = m.last
  /\ r.search = m.search /\ r.ok = m.ok

\* The cached block may be changed at will once it is marked to be written.
LEMMA ScribbledSound ==
  ASSUME NEW m, NEW r, Sound(m), m.dirty, Scribbled(m, r), Filed(r.f)
  PROVE  Sound(r)
<1>1. CacheOK(r) /\ Tabled(r) /\ Places(r)
  BY DEF Sound, Scribbled, CacheOK, Tabled, Places
<1> QED BY <1>1 DEF Sound, Scribbled

\* addCluster keeps the machine sound and the file open.
LEMMA addClusterHolds ==
  ASSUME NEW m, Sound(m), Held(m.f)
  PROVE  LET r == addCluster(m)
         IN  Holds(m, r) /\ (r.ok /\ m.f.cur \in Int => r.f.cur \in Clusters)
<1> DEFINE r == addCluster(m)
           a == allocContiguous(m, 1, m.f.cur)
<1>1. Keeps(m, a) /\ (a.ok /\ m.f.cur \in Int => a.val \in Clusters)
  BY allocContiguousKeeps
<1>2. r = IF a.ok
            THEN IF a.f.first = 0
                   THEN [a EXCEPT !.f.cur = a.val, !.f.first = a.val, !.f.dirty = TRUE]
                 ELSE [a EXCEPT !.f.cur = a.val]
          ELSE a
  BY DEF addCluster, Then
<1> HIDE DEF a, r
<1>3. CASE ~ a.ok
  BY <1>1, <1>2, <1>3, KeepsHolds DEF r
<1>4. CASE a.ok
  <2>1. r.f.cur = a.val /\ Refiled(a, r)
    <3>1. CASE a.f.first = 0
      <4> DEFINE h == [a.f EXCEPT !.cur = a.val, !.first = a.val, !.dirty = TRUE]
      <4>1. r = [a EXCEPT !.f = h]
        BY <1>1, <1>2, <1>4, <3>1 DEF Keeps, Sound, Fields
      <4>2. Held(h) /\ h.cur = a.val
        BY <1>1 DEF Held, FileFields, Keeps
      <4> HIDE DEF h
      <4> QED BY <1>1, <4>1, <4>2 DEF Refiled, Beside, Keeps, Sound, Fields
    <3>2. CASE a.f.first # 0
      <4> DEFINE h == [a.f EXCEPT !.cur = a.val]
      <4>1. r = [a EXCEPT !.f = h]
        BY <1>1, <1>2, <1>4, <3>2 DEF Keeps, Sound, Fields
      <4>2. Held(h) /\ h.cur = a.val
        BY <1>1 DEF Held, FileFields, Keeps
      <4> HIDE DEF h
      <4> QED BY <1>1, <4>1, <4>2 DEF Refiled, Beside, Keeps, Sound, Fields
    <3> QED BY <3>1, <3>2
  <2>2. Holds(a, r)
    BY <1>1, <2>1, RefiledHolds DEF Keeps
  <2> QED BY <1>1, <1>4, <2>1, <2>2 DEF Holds, Keeps, r
<1> QED BY <1>3, <1>4

\* addDirCluster does as well: the new block is a cluster, never a table.
LEMMA addDirClusterHolds ==
  ASSUME NEW m, Sound(m), Held(m.f), m.f.cur \in Int
  PROVE  Holds(m, addDirCluster(m))
<1> DEFINE r == addDirCluster(m)
           a == addCluster(m)
           z == cacheZeroBlock(a, a.f.cur)
           h == [z.f EXCEPT !.size = z.f.size + Slots]
<1>1. Holds(m, a) /\ (a.ok => a.f.cur \in Clusters)
  BY addClusterHolds
<1>2. r = IF a.ok THEN IF z.ok THEN [z EXCEPT !.f = h] ELSE z ELSE a
  BY DEF addDirCluster, Then
<1> HIDE DEF a
<1>3. a.ok => Keeps(a, z)
  BY <1>1, BlockNumbers, cacheZeroBlockKeeps DEF Holds
<1> HIDE DEF z, h, r
<1>4. CASE ~ a.ok \/ ~ z.ok
  BY <1>1, <1>2, <1>3, <1>4 DEF Holds, Keeps, r
<1>5. CASE a.ok /\ z.ok
  <2>1. Held(h)
    BY <1>1, <1>3, <1>5 DEF Held, FileFields, Keeps, Holds, h
  <2>2. Refiled(z, r)
    BY <1>2, <1>3, <1>5, <2>1 DEF Refiled, Beside, Keeps, Sound, Fields
  <2>3. Holds(z, r)
    BY <1>3, <1>5, <2>2, RefiledHolds DEF Keeps
  <2> QED BY <1>1, <1>3, <1>5, <2>3 DEF Holds, Keeps, r
<1> QED BY <1>4, <1>5

\* A changed file is all that a routine leaves.
LEMMA RefileHolds ==
  ASSUME NEW m, Sound(m), NEW h, Held(h)
  PROVE  Holds(m, [m EXCEPT !.f = h])
<1> DEFINE r == [m EXCEPT !.f = h]
<1>1. Refiled(m, r) /\ r.f = h
  BY DEF Refiled, Beside, Sound, Fields
<1> HIDE DEF r
<1>2. Holds(m, r)
  BY <1>1, RefiledHolds
<1> QED BY <1>2 DEF r

\* Two routines in a row.
LEMMA HoldsTwice ==
  ASSUME NEW m, NEW s, NEW r, Holds(m, s), Holds(s, r)
  PROVE  Holds(m, r)
BY DEF Holds

\* The block of the entry of an open file is no table.
LEMMA cacheDirEntryKeeps ==
  ASSUME NEW m, Sound(m), Held(m.f)
  PROVE  LET r == cacheDirEntry(m, TRUE)
         IN  Keeps(m, r) /\ (r.ok => r.dirty)
BY cacheRawBlockKeeps DEF cacheDirEntry, Held, Tables

\* sync: the entry is written into its block, then the cache goes to the card.
LEMMA syncHolds ==
  ASSUME NEW m, Sound(m), Held(m.f)
  PROVE  Holds(m, sync(m))
<1> DEFINE r == sync(m)
           d == cacheDirEntry(m, TRUE)
           e == [d EXCEPT !.buf[d.f.dirIndex].size = IF d.f.type = "file" THEN d.f.size ELSE @,
                          !.buf[d.f.dirIndex].first = d.f.first,
                          !.f.dirty = FALSE]
           s == IF m.f.dirty THEN IF d.ok THEN e ELSE d ELSE m
           w == cacheFlush(s)
<1>1. CASE m.f.type = "closed"
  BY <1>1, FailHolds DEF sync
<1>2. CASE m.f.type # "closed"
  <2>1. r = IF s.ok THEN w ELSE s
    BY <1>2 DEF sync, Then
  <2>2. Keeps(m, d) /\ (d.ok => d.dirty)
    BY cacheDirEntryKeeps
  <2> HIDE DEF d
  <2>3. d.ok => Holds(m, e)
    <3> SUFFICES ASSUME d.ok PROVE Holds(m, e)
      OBVIOUS
    <3> DEFINE h == [d.f EXCEPT !.dirty = FALSE]
    <3>1. Held(h)
      BY <2>2 DEF Held, FileFields, Keeps
    <3>2. Scribbled(d, e) /\ e.f = h
      BY <2>2 DEF Scribbled, Keeps, Sound, Fields
    <3> HIDE DEF h, e
    <3>3. Sound(e)
      BY <2>2, <3>1, <3>2, ScribbledSound DEF Filed, Keeps
    <3> QED BY <2>2, <3>1, <3>2, <3>3 DEF Holds, Keeps, Scribbled
  <2>4. Holds(m, s)
    <3>1. Holds(m, m)
      BY DEF Holds
    <3>2. Holds(m, d)
      BY <2>2, KeepsHolds
    <3> HIDE DEF e
    <3> QED BY <2>3, <3>1, <3>2
  <2> HIDE DEF s
  <2>5. Sound(w) /\ w.f = s.f /\ (w.ok => s.ok)
    BY <2>4, cacheFlushKeeps DEF Holds
  <2> HIDE DEF w, r
  <2>6. Holds(m, r)
    BY <2>1, <2>4, <2>5 DEF Holds
  <2> QED BY <2>6 DEF r
<1> QED BY <1>1, <1>2

\* seekSet reads the table and moves the file.
LEMMA seekSetHolds ==
  ASSUME NEW m, Sound(m), Held(m.f), NEW position
  PROVE  Holds(m, seekSet(m, position))
<1> DEFINE r == seekSet(m, position)
           way == Route(m.f, position)
           g == fatGet(m, way.from)
           walk == Walk(g.buf, way.from)
<1>1. ASSUME NEW k, Sound(k), Held(k.f), NEW cur, NEW pos
      PROVE  Holds(k, Moved(k, cur, pos))
  <2> DEFINE h == [k.f EXCEPT !.cur = cur, !.pos = pos]
  <2>1. Held(h)
    BY <1>1 DEF Held, FileFields
  <2>2. Moved(k, cur, pos) = [k EXCEPT !.f = h]
    BY <1>1 DEF Moved, Sound, Fields
  <2> HIDE DEF h
  <2> QED BY <1>1, <2>1, <2>2, RefileHolds
<1>2. CASE m.f.type = "closed" \/ position > m.f.size
  <2>1. r = Fail(m)
    BY <1>2 DEF seekSet
  <2> QED BY <2>1, FailHolds
<1>3. CASE ~ (m.f.type = "closed" \/ position > m.f.size) /\ position = 0
  <2>1. r = Moved(m, 0, 0)
    BY <1>3 DEF seekSet
  <2> HIDE DEF r
  <2> QED BY <1>1, <2>1 DEF r
<1>4. CASE ~ (m.f.type = "closed" \/ position > m.f.size) /\ position # 0
  <2>1. r = IF way.steps = 0 THEN Moved(m, way.from, position)
            ELSE IF g.ok
              THEN IF isEOC(walk[way.steps - 1]) THEN Fail([g EXCEPT !.f.cur = EOC])
                   ELSE Moved(g, walk[way.steps], position)
            ELSE g
    BY <1>4 DEF seekSet, Then
  <2>2. Keeps(m, g)
    BY fatGetKeeps
  <2>3. Holds(m, g)
    BY <2>2, KeepsHolds
  <2> HIDE DEF r, g, way, walk
  <2>4. ASSUME NEW x PROVE Holds(g, Fail([g EXCEPT !.f.cur = x]))
    <3> DEFINE h == [g.f EXCEPT !.cur = x]
               k == [g EXCEPT !.f = h]
    <3>1. Held(h)
      BY <2>3 DEF Held, FileFields, Holds
    <3>2. [g EXCEPT !.f.cur = x] = k
      BY <2>3 DEF Holds, Sound, Fields
    <3> HIDE DEF h
    <3>3. Holds(g, k)
      BY <2>3, <3>1, RefileHolds DEF Holds
    <3> HIDE DEF k
    <3>4. Holds(k, Fail(k)) /\ ~ Fail(k).ok
      BY <3>3, FailHolds DEF Holds
    <3>5. Holds(g, Fail(k))
      BY <3>3, <3>4, HoldsTwice
    <3> QED BY <3>2, <3>5
  <2>5. \/ r = Moved(m, way.from, position)
        \/ r = g
        \/ r = Fail([g EXCEPT !.f.cur = EOC])
        \/ r = Moved(g, walk[way.steps], position)
    BY <2>1
  <2>6. CASE r = Moved(m, way.from, position)
    BY <1>1, <2>6 DEF r
  <2>7. CASE r = Fail([g EXCEPT !.f.cur = EOC])
    <3>1. Holds(g, r)
      BY <2>4, <2>7
    <3> QED BY <2>3, <3>1, HoldsTwice DEF r
  <2>8. CASE r = Moved(g, walk[way.steps], position)
    <3>1. Holds(g, r)
      BY <1>1, <2>3, <2>8 DEF Holds
    <3> QED BY <2>3, <3>1, HoldsTwice DEF r
  <2> QED BY <2>3, <2>5, <2>6, <2>7, <2>8 DEF r
<1> QED BY <1>2, <1>3, <1>4

\* close, whatever came of its sync.
LEMMA closeSound ==
  ASSUME NEW m, Sound(m), Held(m.f)
  PROVE  Sound(close(m))
<1> DEFINE s == sync(m)
           r == close(m)
<1>1. Holds(m, s)
  BY syncHolds
<1>2. r = IF s.ok THEN [s EXCEPT !.f = ClosedFile] ELSE s
  BY DEF close, Then
<1> HIDE DEF s, r
<1>3. CASE ~ s.ok
  BY <1>1, <1>2, <1>3 DEF Holds, r
<1>4. CASE s.ok
  <2>1. /\ Beside(s, r) /\ r.f = ClosedFile /\ r.slot = s.slot /\ r.last = s.last
        /\ r.search = s.search /\ r.hit = s.hit
    BY <1>1, <1>2, <1>4 DEF Holds, Sound, Beside, Fields
  <2>2. Filed(r.f) /\ Places(r)
    BY <1>1, <2>1 DEF Filed, Places, Holds, Sound
  <2> QED BY <1>1, <2>1, <2>2, BesideSound DEF Holds, r
<1> QED BY <1>3, <1>4

\* truncate, in each of its five steps.
LEMMA truncateHolds ==
  ASSUME NEW m, Sound(m), Held(m.f), NEW length
  PROVE  Holds(m, truncate(m, length))
<1> DEFINE t == truncate(m, length)
           newPos == Min({m.f.pos, length})
           s == seekSet(m, length)
           e == freeChain(s, s.f.first)
           e1 == [e EXCEPT !.f.first = 0]
           g == fatGet(s, s.f.cur)
           r == freeChain(g, g.val)
           p == fatPutAll(r, r.f.cur :> EOC)
           c == IF length = 0 THEN IF e.ok THEN e1 ELSE e
                ELSE IF g.ok THEN IF isEOC(g.val) THEN g ELSE IF r.ok THEN p ELSE r
                ELSE g
           k == [c EXCEPT !.f.size = length, !.f.dirty = TRUE]
           w == sync(k)
           x == seekSet(w, newPos)
<1>1. CASE m.f.type # "file" \/ ~ m.f.write \/ length > m.f.size
  <2>1. t = Fail(m)
    BY <1>1 DEF truncate
  <2> QED BY <2>1, FailHolds
<1>2. CASE ~ (m.f.type # "file" \/ ~ m.f.write \/ length > m.f.size) /\ m.f.size = 0
  <2>1. t = m
    BY <1>2 DEF truncate
  <2> QED BY <2>1 DEF Holds
<1>3. CASE ~ (m.f.type # "file" \/ ~ m.f.write \/ length > m.f.size) /\ m.f.size # 0
  <2>1. t = IF s.ok THEN IF c.ok THEN IF w.ok THEN x ELSE w ELSE c ELSE s
    BY <1>3 DEF truncate, Then
  <2> HIDE DEF t, newPos
  <2>2. Holds(m, s)
    BY seekSetHolds
  <2> HIDE DEF s
  <2>3. Holds(s, e)
    BY <2>2, freeChainKeeps DEF Holds
  <2> HIDE DEF e
  <2>4. Holds(s, e1)
    <3> DEFINE h == [e.f EXCEPT !.first = 0]
    <3>1. Held(h)
      BY <2>3 DEF Held, FileFields, Holds
    <3>2. e1 = [e EXCEPT !.f = h]
      BY <2>3 DEF Holds, Sound, Fields
    <3> HIDE DEF h, e1
    <3>3. Holds(e, e1)
      BY <2>3, <3>1, <3>2, RefileHolds DEF Holds
    <3> QED BY <2>3, <3>3, HoldsTwice
  <2> HIDE DEF e1
  <2>5. Keeps(s, g) /\ Holds(s, g)
    BY <2>2, fatGetKeeps, KeepsHolds DEF Holds
  <2> HIDE DEF g
  <2>6. Holds(g, r) /\ (r.ok => r.cached = FatBlock)
    BY <2>5, freeChainKeeps DEF Holds
  <2> HIDE DEF r
  <2>7. r.ok => Holds(r, p)
    BY <2>6, fatPutAllKeeps, KeepsHolds DEF Holds
  <2> HIDE DEF p
  <2>8. Holds(s, c)
    BY <2>3, <2>4, <2>5, <2>6, <2>7, HoldsTwice
  <2> HIDE DEF c
  <2>9. Holds(m, c)
    BY <2>2, <2>8, HoldsTwice
  <2>10. Holds(c, k)
    <3> DEFINE h == [c.f EXCEPT !.size = length, !.dirty = TRUE]
    <3>1. Held(h)
      BY <2>9 DEF Held, FileFields, Holds
    <3>2. k = [c EXCEPT !.f = h]
      BY <2>9 DEF Holds, Sound, Fields
    <3> HIDE DEF h, k
    <3> QED BY <2>9, <3>1, <3>2, RefileHolds DEF Holds
  <2> HIDE DEF k
  <2>11. Holds(m, k)
    BY <2>9, <2>10, HoldsTwice
  <2>12. Holds(k, w)
    BY <2>11, syncHolds DEF Holds
  <2> HIDE DEF w
  <2>13. Holds(m, w)
    BY <2>11, <2>12, HoldsTwice
  <2>14. Holds(w, x)
    BY <2>13, seekSetHolds DEF Holds
  <2> HIDE DEF x
  <2>15. Holds(m, x)
    BY <2>13, <2>14, HoldsTwice
  <2> QED BY <2>1, <2>2, <2>9, <2>13, <2>15 DEF t
<1> QED BY <1>1, <1>2, <1>3

-----------------------------------------------------------------------------
(* Opening. *)

\* A routine that opens a file, at its start.
Opens(r) == Sound(r) /\ (r.ok => Held(r.f) /\ r.f.cur = 0)

\* The entry of a file that is opened is in the cached block, which is no table.
LEMMA openCachedEntryOpens ==
  ASSUME NEW m, Sound(m), m.cached \notin Tables, NEW index, NEW forWrite
  PROVE  Opens(openCachedEntry(m, index, forWrite))
<1> DEFINE p == m.buf[index]
           opened == [type |-> p.att, dirBlock |-> m.cached, dirIndex |-> index,
                      first |-> p.first, cur |-> 0, pos |-> 0, size |-> p.size,
                      write |-> forWrite, dirty |-> FALSE]
           g == fatGet(m, p.first)
           sized == [opened EXCEPT !.size = Slots * ChainLength(g.buf, p.first)]
           r == openCachedEntry(m, index, forWrite)
<1>1. Held(opened) /\ opened.cur = 0
  BY DEF Held, FileFields
<1>2. Held(sized) /\ sized.cur = 0
  <2> HIDE DEF g
  <2> QED BY DEF Held, FileFields
<1>3. Keeps(m, g)
  BY fatGetKeeps
<1>4. \/ r = Fail(m)
      \/ r = [m EXCEPT !.f = opened]
      \/ r = IF g.ok THEN [g EXCEPT !.f = sized] ELSE g
  BY DEF openCachedEntry, Then
<1>5. ASSUME NEW k, Sound(k), NEW h, Held(h), h.cur = 0 PROVE Opens([k EXCEPT !.f = h])
  <2> DEFINE o == [k EXCEPT !.f = h]
  <2>1. o.f = h
    BY <1>5 DEF Sound, Fields
  <2>2. Holds(k, o)
    BY <1>5, RefileHolds
  <2> HIDE DEF o
  <2>3. Opens(o)
    BY <1>5, <2>1, <2>2 DEF Holds, Opens
  <2> QED BY <2>3 DEF o
<1> HIDE DEF p, opened, g, sized, r
<1>6. CASE r = Fail(m)
  BY <1>6, FailKeeps DEF Opens, r
<1>7. CASE r = [m EXCEPT !.f = opened]
  BY <1>1, <1>5, <1>7 DEF r
<1>8. CASE r = IF g.ok THEN [g EXCEPT !.f = sized] ELSE g
  <2>1. CASE g.ok
    BY <1>2, <1>3, <1>5, <1>8, <2>1 DEF Keeps, r
  <2>2. CASE ~ g.ok
    BY <1>3, <1>8, <2>2 DEF Keeps, Opens, r
  <2> QED BY <2>1, <2>2
<1> QED BY <1>4, <1>6, <1>7, <1>8

\* One block of a directory: a slot is named only while its block is in the cache.
Looked(s) == Sound(s) /\ (s.ok /\ s.val # -1 => s.cached \notin Tables)

\* One turn of the search through a directory.
LEMMA SearchBlockLooks ==
  ASSUME NEW m, Sound(m), NEW name
  PROVE  Looked(SearchBlock(m, name))
<1> DEFINE r == cacheRawBlock(m, m.last, FALSE)
           seen == FirstEnd(r.buf, name)
           s == EmptyNoted(r, seen)
           found == IF s.buf[seen].name = name THEN seen ELSE -1
           s1 == [s EXCEPT !.val = found, !.more = FALSE]
           s2 == [s EXCEPT !.val = -1, !.more = FALSE]
           g == fatGet(s, s.last)
           g1 == [g EXCEPT !.val = -1, !.more = FALSE]
           g2 == [g EXCEPT !.val = -1, !.last = clusterStartBlock(g.val)]
           e == SearchBlock(m, name)
<1>1. e = IF ~ r.ok THEN r
          ELSE IF seen < Slots THEN s1
          ELSE IF s.last = RootBlock THEN s2
          ELSE IF ~ g.ok THEN g ELSE IF isEOC(g.val) THEN g1 ELSE g2
  BY DEF SearchBlock, Then
<1>2. m.last \notin Tables
  BY DEF Sound, Places
<1>3. Keeps(m, r) /\ r.last = m.last /\ (r.ok => r.cached = m.last)
  BY <1>2, cacheRawBlockKeeps DEF Tables
<1> SUFFICES Looked(e)
  OBVIOUS
<1> HIDE DEF r, seen, e
<1>4. /\ Beside(r, s) /\ s.f = r.f /\ s.last = m.last /\ s.search = r.search /\ s.hit = r.hit
      /\ DOMAIN s.slot = {"block", "index"} /\ s.slot.block \notin Tables
  <2> DEFINE empty == {i \in 0 .. Slots - 1 : i <= seen /\ r.buf[i].name \in {Free.name, Deleted.name}}
             noted == [r EXCEPT !.slot = [block |-> r.last, index |-> Min(empty)]]
  <2>1. s = r \/ s = noted
    BY DEF EmptyNoted
  <2>2. CASE s = r
    BY <1>2, <1>3, <2>2 DEF Beside, Keeps, Sound, Places
  <2>3. CASE s = noted
    <3> HIDE DEF empty
    <3> QED BY <1>2, <1>3, <2>3 DEF Beside, Keeps, Sound, Places, Fields
  <2> QED BY <2>1, <2>2, <2>3
<1>5. Sound(s)
  <2>1. Filed(s.f) /\ Places(s)
    BY <1>3, <1>4 DEF Places, Keeps, Sound
  <2> QED BY <1>3, <1>4, <2>1, BesideSound DEF Keeps
<1> HIDE DEF s
<1>6. Keeps(s, g)
  BY <1>5, fatGetKeeps
<1> HIDE DEF g
<1>7. ASSUME NEW k, Sound(k), NEW v, NEW b
      PROVE  Sound([k EXCEPT !.val = v, !.more = b])
  <2> DEFINE x == [k EXCEPT !.val = v, !.more = b]
  <2>1. Like(k, x) /\ x.hit = k.hit
    BY <1>7 DEF Like, Beside, Sound, Fields
  <2> HIDE DEF x
  <2>2. Sound(x)
    BY <1>7, <2>1, LikeSound
  <2> QED BY <2>2 DEF x
<1>8. CASE (e = r /\ ~ r.ok) \/ (e = g /\ ~ g.ok)
  BY <1>3, <1>6, <1>8 DEF Keeps, Looked
<1>9. CASE r.ok /\ e = s1
  <2>1. s1.cached = m.last
    BY <1>3, <1>4, <1>5, <1>9 DEF Beside, Sound, Fields
  <2> QED BY <1>2, <1>5, <1>7, <1>9, <2>1 DEF Looked
<1>10. CASE e = s2
  <2>1. s2.val = -1
    BY <1>5 DEF Sound, Fields
  <2> QED BY <1>5, <1>7, <1>10, <2>1 DEF Looked
<1>11. CASE e = g1
  <2>1. g1.val = -1
    BY <1>6 DEF Keeps, Sound, Fields
  <2> QED BY <1>6, <1>7, <1>11, <2>1 DEF Looked, Keeps
<1>12. CASE e = g2
  <2>1. clusterStartBlock(g.val) \notin Tables /\ clusterStartBlock(g.val) \in Int
    BY BlockNumbers
  <2>2. /\ Beside(g, g2) /\ g2.f = g.f /\ g2.slot = g.slot /\ g2.last = clusterStartBlock(g.val)
        /\ g2.search = g.search /\ g2.hit = g.hit /\ g2.val = -1
    BY <1>6 DEF Beside, Keeps, Sound, Fields
  <2> HIDE DEF g2
  <2>3. Filed(g2.f) /\ Places(g2)
    BY <1>6, <2>1, <2>2 DEF Places, Keeps, Sound
  <2>4. Sound(g2)
    BY <1>6, <2>2, <2>3, BesideSound DEF Keeps
  <2> QED BY <1>12, <2>2, <2>4 DEF Looked
<1>13. \/ (e = r /\ ~ r.ok) \/ (e = g /\ ~ g.ok)
       \/ r.ok /\ e = s1
       \/ e = s2 \/ e = g1 \/ e = g2
  <2> HIDE DEF e, s1, s2, g1, g2
  <2> QED BY <1>1
<1> QED BY <1>8, <1>9, <1>10, <1>11, <1>12, <1>13

\* The turns of the three loops over the blocks of a file or directory.
Turns(which, name, end, s) ==
  IF which = "search" THEN SearchBlock(s, name)
  ELSE IF which = "write" THEN WritePart(s, name, end)
  ELSE EmptyBlock(s)
GoOn(which, name, end, s) == IF s.ok /\ s.more THEN Turns(which, name, end, s) ELSE s

\* What such a loop keeps.
Kept(which, s) == IF which = "search" THEN Looked(s) ELSE Sound(s) /\ Held(s.f)

\* g holds the states after 0, 1, 2 ... turns.
IsRun(g, which, name, end, first) ==
  /\ g = [n \in Steps |-> g[n]]
  /\ \A n \in Steps : g[n] = IF n = 0 THEN first ELSE GoOn(which, name, end, g[n - 1])

\* There is such a run, so that Loop is well defined.
LEMMA LoopRuns ==
  ASSUME NEW which, NEW name, NEW end, NEW first
  PROVE  \E g : IsRun(g, which, name, end, first)
<1> DEFINE Go(s) == GoOn(which, name, end, s)
           Part(g, n) == DOMAIN g = 0 .. n /\ g[0] = first /\ \A i \in 1 .. n : g[i] = Go(g[i - 1])
           Missing == {n \in Steps : ~ \E g : Part(g, n)}
           last == clusterCount_ + 1
<1> HIDE DEF Go
<1>1. last \in Nat /\ last >= 0 /\ Steps = 0 .. last
  BY VolumeAssumption DEF Steps
<1> HIDE DEF last
<1>2. Missing = {}
  <2> SUFFICES ASSUME Missing # {} PROVE FALSE
    OBVIOUS
  <2>1. Missing \in SUBSET Nat
    BY <1>1
  <2>2. PICK n \in Missing : \A m \in Missing : n <= m
    <3> HIDE DEF Missing
    <3> QED BY <2>1, LeastElement
  <2>3. n \in 0 .. last
    BY <1>1
  <2>4. CASE n = 0
    <3> DEFINE g == [i \in 0 .. n |-> first]
    <3>1. Part(g, n)
      BY <2>4
    <3> QED BY <3>1
  <2>5. CASE n # 0
    <3>1. n - 1 \in Steps /\ n \in 1 .. last
      BY <1>1, <2>3, <2>5
    <3>2. n - 1 \notin Missing
      <4>1. n \in Int /\ ~ (n <= n - 1)
        BY <1>1, <2>3
      <4> HIDE DEF Missing
      <4> QED BY <2>2, <4>1
    <3>3. PICK f : Part(f, n - 1)
      BY <3>1, <3>2
    <3> DEFINE g == [i \in 0 .. n |-> IF i = n THEN Go(f[n - 1]) ELSE f[i]]
    <3>4. DOMAIN g = 0 .. n /\ g[0] = first
      BY <1>1, <3>1, <3>3
    <3>5. ASSUME NEW i \in 1 .. n PROVE g[i] = Go(g[i - 1])
      <4>1. CASE i = n
        <5>1. g[n] = Go(f[n - 1]) /\ g[n - 1] = f[n - 1]
          BY <1>1, <3>1
        <5> QED BY <4>1, <5>1
      <4>2. CASE i # n
        <5>1. i \in 1 .. n - 1 /\ i - 1 \in 0 .. n /\ i - 1 # n /\ i \in 0 .. n
          BY <1>1, <3>1, <4>2
        <5>2. f[i] = Go(f[i - 1])
          BY <3>3, <5>1
        <5>3. g[i] = f[i] /\ g[i - 1] = f[i - 1]
          BY <4>2, <5>1
        <5> QED BY <5>2, <5>3
      <4> QED BY <4>1, <4>2
    <3>6. Part(g, n)
      BY <3>4, <3>5
    <3> QED BY <3>6
  <2> QED BY <2>4, <2>5
<1>3. PICK f : Part(f, last)
  BY <1>1, <1>2
<1> DEFINE h == [n \in Steps |-> f[n]]
<1>4. ASSUME NEW n \in Steps PROVE h[n] = IF n = 0 THEN first ELSE Go(h[n - 1])
  <2>1. CASE n = 0
    BY <1>3, <2>1
  <2>2. CASE n # 0
    <3>1. n \in 1 .. last /\ n - 1 \in Steps
      BY <1>1, <2>2
    <3> QED BY <1>3, <2>2, <3>1
  <2> QED BY <2>1, <2>2
<1>5. h = [n \in Steps |-> h[n]]
  OBVIOUS
<1> HIDE DEF h
<1>6. IsRun(h, which, name, end, first)
  BY <1>4, <1>5 DEF IsRun, Go
<1> QED BY <1>6

\* What every turn keeps, the last state has.
LEMMA RunKeeps ==
  ASSUME NEW which, NEW name, NEW end, NEW first, NEW g, IsRun(g, which, name, end, first),
         Kept(which, first),
         \A s : Kept(which, s) => Kept(which, Turns(which, name, end, s))
  PROVE  Kept(which, g[clusterCount_ + 1])
<1> DEFINE Bad == {n \in Steps : ~ Kept(which, g[n])}
<1>1. clusterCount_ + 1 \in Steps /\ Steps \in SUBSET Nat
  BY VolumeAssumption DEF Steps
<1>2. Bad = {}
  <2> SUFFICES ASSUME Bad # {} PROVE FALSE
    OBVIOUS
  <2>1. Bad \in SUBSET Nat
    BY <1>1
  <2>2. PICK n \in Bad : \A m \in Bad : n <= m
    <3> HIDE DEF Bad
    <3> QED BY <2>1, LeastElement
  <2>3. n # 0
    BY DEF IsRun
  <2>4. n - 1 \in Steps /\ n \in Int /\ ~ (n <= n - 1)
    BY <2>3, VolumeAssumption DEF Steps
  <2>5. Kept(which, g[n - 1])
    BY <2>2, <2>4
  <2>6. g[n] = GoOn(which, name, end, g[n - 1])
    BY <2>3 DEF IsRun
  <2>7. Kept(which, g[n])
    BY <2>5, <2>6 DEF GoOn
  <2> QED BY <2>7
<1> QED BY <1>1, <1>2

\* The search for a name in a directory.
LEMMA SearchLooks ==
  ASSUME NEW m, Sound(m), NEW block \in Int, block \notin Tables, NEW name
  PROVE  Looked(Search(m, block, name))
<1> DEFINE start == [m EXCEPT !.last = block, !.val = -1]
           first == [start EXCEPT !.more = TRUE]
           Body(g, n) == IF n = 0 THEN first
                         ELSE LET s == g[n - 1] IN IF s.ok /\ s.more THEN SearchBlock(s, name) ELSE s
           after[n \in Steps] ==
             IF n = 0 THEN first
             ELSE LET s == after[n - 1] IN IF s.ok /\ s.more THEN SearchBlock(s, name) ELSE s
           end == after[clusterCount_ + 1]
<1>1. Search(m, block, name) = IF end.more THEN Fail(end) ELSE end
  BY DEF Search, Loop
<1>2. Looked(first)
  <2>1. /\ Beside(m, first) /\ first.f = m.f /\ first.slot = m.slot /\ first.last = block
        /\ first.search = m.search /\ first.hit = m.hit /\ first.val = -1
    BY DEF Beside, Sound, Fields
  <2> HIDE DEF first
  <2>2. Filed(first.f) /\ Places(first)
    BY <2>1 DEF Places, Sound
  <2> QED BY <2>1, <2>2, BesideSound DEF Looked
<1> HIDE DEF first
<1>3. \E g : g = [n \in Steps |-> Body(g, n)]
  <2>1. PICK g : IsRun(g, "search", name, 0, first)
    BY LoopRuns
  <2>2. \A n \in Steps : g[n] = Body(g, n)
    BY <2>1 DEF IsRun, GoOn, Turns
  <2> HIDE DEF Body
  <2>3. g = [n \in Steps |-> Body(g, n)]
    BY <2>1, <2>2 DEF IsRun
  <2> QED BY <2>3
<1>4. after = [n \in Steps |-> Body(after, n)]
  BY <1>3
<1>5. IsRun(after, "search", name, 0, first)
  <2> HIDE DEF after
  <2>1. \A n \in Steps : after[n] = IF n = 0 THEN first ELSE GoOn("search", name, 0, after[n - 1])
    BY <1>4 DEF GoOn, Turns
  <2> HIDE DEF Body
  <2>2. after = [n \in Steps |-> after[n]]
    BY <1>4
  <2> QED BY <2>1, <2>2 DEF IsRun
<1> HIDE DEF after
<1>6. Looked(end)
  <2>1. Kept("search", first)
    BY <1>2 DEF Kept
  <2>2. \A s : Kept("search", s) => Kept("search", Turns("search", name, 0, s))
    BY SearchBlockLooks DEF Kept, Turns, Looked
  <2>3. Kept("search", after[clusterCount_ + 1])
    BY <1>5, <2>1, <2>2, RunKeeps
  <2> QED BY <2>3 DEF Kept
<1> HIDE DEF end
<1>7. Looked(Fail(end))
  BY <1>6, FailKeeps DEF Looked
<1> QED BY <1>1, <1>6, <1>7

\* The slot found or made is in the cache and will be written.
LEMMA NewSlotSound ==
  ASSUME NEW m, Sound(m)
  PROVE  LET n == NewSlot(m)
         IN  Sound(n) /\ (n.ok => n.dirty /\ n.cached \notin Tables)
<1> DEFINE n == NewSlot(m)
           c == cacheRawBlock(m, m.slot.block, TRUE)
           a == allocContiguous(m, 1, m.last)
           z == cacheZeroBlock(a, a.val)
           y == [z EXCEPT !.slot = [block |-> z.cached, index |-> 0]]
<1>1. /\ m.slot.block \notin Tables /\ m.last \in Int
  BY DEF Sound, Places
<1>2. n = IF m.slot.block # NoBlock THEN c
          ELSE IF m.last = RootBlock THEN Fail(m)
          ELSE IF a.ok THEN IF z.ok THEN y ELSE z ELSE a
  BY DEF NewSlot, Then
<1> HIDE DEF n
<1>3. Keeps(m, c) /\ (c.ok => c.cached = m.slot.block /\ c.dirty)
  BY <1>1, cacheRawBlockKeeps DEF Tables
<1> HIDE DEF c
<1>4. Keeps(m, a) /\ (a.ok => a.val \in Clusters)
  BY <1>1, allocContiguousKeeps
<1> HIDE DEF a
<1>5. a.ok => Keeps(a, z) /\ (z.ok => z.cached = a.val /\ z.dirty)
  BY <1>4, BlockNumbers, cacheZeroBlockKeeps DEF Keeps
<1> HIDE DEF z
<1>6. a.ok /\ z.ok => Sound(y) /\ y.dirty /\ y.cached \notin Tables
  <2> SUFFICES ASSUME a.ok, z.ok PROVE Sound(y) /\ y.dirty /\ y.cached \notin Tables
    OBVIOUS
  <2>1. /\ Beside(z, y) /\ y.f = z.f /\ y.last = z.last /\ y.search = z.search /\ y.hit = z.hit
        /\ DOMAIN y.slot = {"block", "index"} /\ y.slot.block = z.cached
    BY <1>5 DEF Beside, Keeps, Sound, Fields
  <2>2. z.cached \notin Tables /\ z.dirty
    BY <1>4, <1>5, BlockNumbers
  <2> HIDE DEF y
  <2>3. Filed(y.f) /\ Places(y)
    BY <1>5, <2>1, <2>2 DEF Places, Keeps, Sound
  <2> QED BY <1>5, <2>1, <2>2, <2>3, BesideSound DEF Keeps, Beside
<1> HIDE DEF y
<1>7. Sound(Fail(m)) /\ ~ Fail(m).ok
  BY FailKeeps
<1>8. Sound(n) /\ (n.ok => n.dirty /\ n.cached \notin Tables)
  BY <1>1, <1>2, <1>3, <1>4, <1>5, <1>6, <1>7 DEF Keeps
<1> QED BY <1>8 DEF n

\* open: a name that is found, or a new entry that is stored before it is opened.
LEMMA openOpens ==
  ASSUME NEW m, Sound(m), NEW dir \in Int, dir \notin Tables, NEW name, NEW oflag
  PROVE  Opens(open(m, dir, name, oflag))
<1> DEFINE m1 == [m EXCEPT !.slot.block = NoBlock]
           s == Search(m1, dir, name)
           o == openCachedEntry(s, s.val, "WRITE" \in oflag)
           n == NewSlot(s)
           n1 == [n EXCEPT !.buf[n.slot.index] = Cell(name, "file", 0, 0)]
           w == cacheFlush(n1)
           p == openCachedEntry(w, w.slot.index, TRUE)
           r == open(m, dir, name, oflag)
<1>1. \/ r = Fail(m)
      \/ r = Fail(s)
      \/ s.ok /\ s.val # -1 /\ r = o
      \/ ~ s.ok /\ r = s
      \/ r = IF ~ n.ok THEN n ELSE IF w.ok THEN p ELSE w
  BY DEF open, Then
<1>2. Sound(m1)
  <2> DEFINE t == [m.slot EXCEPT !.block = NoBlock]
  <2>1. m1 = [m EXCEPT !.slot = t]
    BY DEF Sound, Fields
  <2>2. DOMAIN t = {"block", "index"} /\ t.block \notin Tables
    BY BlockNumbers DEF Sound, Places
  <2> HIDE DEF t
  <2>3. /\ Beside(m, m1) /\ m1.f = m.f /\ m1.last = m.last /\ m1.search = m.search /\ m1.hit = m.hit
        /\ m1.slot = t
    BY <2>1 DEF Beside, Sound, Fields
  <2> HIDE DEF m1
  <2>4. Filed(m1.f) /\ Places(m1)
    BY <2>2, <2>3 DEF Places, Sound
  <2> QED BY <2>3, <2>4, BesideSound
<1> HIDE DEF m1
<1>3. Looked(s)
  BY <1>2, SearchLooks
<1> HIDE DEF s
<1>4. s.ok /\ s.val # -1 => Opens(o)
  BY <1>3, openCachedEntryOpens DEF Looked
<1> HIDE DEF o
<1>5. Sound(n) /\ (n.ok => n.dirty /\ n.cached \notin Tables)
  BY <1>3, NewSlotSound DEF Looked
<1> HIDE DEF n
<1>6. n.ok => Sound(n1) /\ n1.cached = n.cached
  <2> SUFFICES ASSUME n.ok PROVE Sound(n1) /\ n1.cached = n.cached
    OBVIOUS
  <2>1. Scribbled(n, n1) /\ n1.f = n.f
    BY <1>5 DEF Scribbled, Sound, Fields
  <2> HIDE DEF n1
  <2> QED BY <1>5, <2>1, ScribbledSound DEF Sound, Scribbled
<1> HIDE DEF n1
<1>7. n.ok => Sound(w) /\ w.cached \notin Tables
  BY <1>5, <1>6, cacheFlushKeeps
<1> HIDE DEF w
<1>8. n.ok => Opens(p)
  BY <1>7, openCachedEntryOpens
<1> HIDE DEF p, r
<1>9. Opens(Fail(m)) /\ Opens(Fail(s))
  BY <1>3, FailKeeps DEF Looked, Opens
<1>10. Opens(r)
  BY <1>1, <1>3, <1>4, <1>5, <1>7, <1>8, <1>9 DEF Opens, Looked
<1> QED BY <1>10 DEF r

-----------------------------------------------------------------------------
(* Reading and writing. *)

\* Reading goes through the cache and moves the file.
LEMMA readCellHolds ==
  ASSUME NEW m, Sound(m), Held(m.f)
  PROVE  Holds(m, readCell(m))
<1> DEFINE g == fatGet(m, m.f.cur)
           c == ReadCluster(m)
           r == cacheRawBlock(c, clusterStartBlock(c.f.cur), FALSE)
           e == readCell(m)
           Curred(k, x) == [k EXCEPT !.f.cur = x]
           Posed(k) == [k EXCEPT !.f.pos = @ + 1]
<1>1. ASSUME NEW k, Sound(k), Held(k.f), NEW x PROVE Holds(k, Curred(k, x))
  <2> DEFINE h == [k.f EXCEPT !.cur = x]
  <2>1. Held(h) /\ Curred(k, x) = [k EXCEPT !.f = h]
    BY <1>1 DEF Held, FileFields, Sound, Fields
  <2> HIDE DEF h, Curred
  <2> QED BY <1>1, <2>1, RefileHolds
<1>2. ASSUME NEW k, Sound(k), Held(k.f) PROVE Holds(k, Posed(k))
  <2> DEFINE h == [k.f EXCEPT !.pos = k.f.pos + 1]
  <2>1. Held(h) /\ Posed(k) = [k EXCEPT !.f = h]
    BY <1>2 DEF Held, FileFields, Sound, Fields
  <2> HIDE DEF h, Posed
  <2> QED BY <1>2, <2>1, RefileHolds
<1>3. Holds(m, c)
  <2>1. c = m \/ c = Curred(m, m.f.first) \/ c = IF g.ok THEN Curred(g, g.val) ELSE g
    BY DEF ReadCluster, Then
  <2>2. Holds(m, g)
    BY fatGetKeeps, KeepsHolds
  <2> HIDE DEF c, g, Curred
  <2>3. Holds(m, m) /\ Holds(m, Curred(m, m.f.first))
    BY <1>1 DEF Holds
  <2>4. Holds(m, Curred(g, g.val))
    BY <1>1, <2>2, HoldsTwice DEF Holds
  <2> QED BY <2>1, <2>2, <2>3, <2>4
<1>4. e = Fail(m) \/ e = m \/ e = IF c.ok THEN IF r.ok THEN Posed(r) ELSE r ELSE c
  BY DEF readCell, Then
<1> HIDE DEF c
<1>5. Holds(m, r)
  <2>1. Keeps(c, r)
    BY <1>3, BlockNumbers, cacheRawBlockKeeps DEF Holds, Tables
  <2>2. Holds(c, r)
    BY <1>3, <2>1, KeepsHolds DEF Holds
  <2> QED BY <1>3, <2>2, HoldsTwice
<1> HIDE DEF r, Posed
<1>6. Holds(m, Posed(r))
  BY <1>2, <1>5, HoldsTwice DEF Holds
<1>7. Holds(m, m) /\ Holds(m, Fail(m))
  BY FailHolds DEF Holds
<1> HIDE DEF e
<1>8. Holds(m, e)
  BY <1>3, <1>4, <1>5, <1>6, <1>7
<1> QED BY <1>8 DEF e

\* The cluster of the next cell to write is found or added.
LEMMA WriteClusterHolds ==
  ASSUME NEW m, Sound(m), Held(m.f)
  PROVE  Holds(m, WriteCluster(m))
<1> DEFINE g == fatGet(m, m.f.cur)
           a == addCluster(m)
           b == addCluster(g)
           c == WriteCluster(m)
           Curred(k, x) == [k EXCEPT !.f.cur = x]
<1>1. ASSUME NEW k, Sound(k), Held(k.f), NEW x PROVE Holds(k, Curred(k, x))
  <2> DEFINE h == [k.f EXCEPT !.cur = x]
  <2>1. Held(h) /\ Curred(k, x) = [k EXCEPT !.f = h]
    BY <1>1 DEF Held, FileFields, Sound, Fields
  <2> HIDE DEF h, Curred
  <2> QED BY <1>1, <2>1, RefileHolds
<1>2. c \in {m, a, Curred(m, m.f.first), g, b, Curred(g, g.val)}
  BY DEF WriteCluster, Then
<1>3. Holds(m, g)
  BY fatGetKeeps, KeepsHolds
<1>4. Holds(m, a)
  BY addClusterHolds
<1> HIDE DEF c, g, a, Curred
<1>5. Holds(m, b)
  BY <1>3, addClusterHolds, HoldsTwice DEF Holds
<1> HIDE DEF b
<1>6. Holds(m, m) /\ Holds(m, Curred(m, m.f.first)) /\ Holds(m, Curred(g, g.val))
  BY <1>1, <1>3, HoldsTwice DEF Holds
<1>7. Holds(m, c)
  BY <1>2, <1>3, <1>4, <1>5, <1>6
<1> QED BY <1>7 DEF c

\* Data goes to the block of the file, never to a table.
LEMMA WriteInBlockHolds ==
  ASSUME NEW m, Sound(m), Held(m.f), NEW name, NEW n
  PROVE  Holds(m, WriteInBlock(m, name, n))
<1> DEFINE block == clusterStartBlock(m.f.cur)
           new == [i \in Slot(m.f.pos) .. Slot(m.f.pos) + n - 1 |-> Data(name, m.f.pos - Slot(m.f.pos) + i)]
           m1 == [m EXCEPT !.cached = IF @ = block THEN NoBlock ELSE @]
           v1 == WriteBlock(m1, block, new)
           w == cacheFlush(m)
           w1 == [w EXCEPT !.buf = [i \in 0 .. Slots - 1 |-> Junk], !.cached = block, !.dirty = TRUE]
           v2 == [w1 EXCEPT !.buf = new @@ @]
           r == cacheRawBlock(m, block, TRUE)
           v3 == [r EXCEPT !.buf = new @@ @]
           Posed(k) == [k EXCEPT !.f.pos = @ + n]
           v == IF n = Slots THEN v1
                ELSE IF Slot(m.f.pos) = 0 /\ m.f.pos >= m.f.size THEN IF w.ok THEN v2 ELSE w
                ELSE IF r.ok THEN v3 ELSE r
           e == WriteInBlock(m, name, n)
<1>1. e = IF v.ok THEN Posed(v) ELSE v
  BY DEF WriteInBlock, Then
<1>2. block \notin Tables
  BY BlockNumbers
<1> HIDE DEF e, block, new
<1>3. Holds(m, v1)
  <2>1. /\ DOMAIN m1 = Fields /\ m1.card = m.card /\ m1.buf = m.buf /\ m1.dirty = m.dirty
        /\ m1.mirror = m.mirror /\ m1.f = m.f /\ m1.slot = m.slot /\ m1.last = m.last
        /\ m1.search = m.search /\ m1.hit = m.hit /\ m1.ok = m.ok
        /\ m1.cached = IF m.cached = block THEN NoBlock ELSE m.cached
    BY DEF Sound, Fields
  <2> HIDE DEF m1
  <2>2. CacheOK(m1)
    BY <1>2, <2>1, BlockNumbers DEF Sound, CacheOK, Tables
  <2>3. Sound(m1)
    BY <2>1, <2>2 DEF Sound, Tabled, Places
  <2>4. Unwritten(m1, block, v1) \/ Written(m1, block, new, v1)
    BY <2>3, WriteBlockLeaves DEF Sound
  <2> HIDE DEF v1
  <2>5. CASE Unwritten(m1, block, v1)
    <3>1. Sound(v1)
      BY <2>3, <2>5, LikeSound DEF Unwritten
    <3> QED BY <2>1, <2>5, <3>1 DEF Unwritten, Like, Holds
  <2>6. CASE Written(m1, block, new, v1)
    <3>1. v1.card[FatBlock] = m1.card[FatBlock] /\ v1.card[MirrorBlock] = m1.card[MirrorBlock]
      BY <1>2, <2>6 DEF Written, Tables
    <3>2. m1.cached # block
      BY <1>2, <2>1, <2>6, BlockNumbers DEF Written
    <3>3. CacheOK(v1)
      BY <2>2, <2>6, <3>2 DEF CacheOK, Written
    <3>4. Sound(v1)
      BY <2>3, <2>6, <3>1, <3>3 DEF Sound, Tabled, Written, Places
    <3> QED BY <2>1, <2>6, <3>4 DEF Written, Holds
  <2> QED BY <2>4, <2>5, <2>6
<1>4. /\ Sound(w) /\ w.f = m.f /\ (w.ok => m.ok) /\ (w.ok => ~ w.dirty /\ ~ w.mirror)
  BY cacheFlushKeeps
<1> HIDE DEF v1, w
<1>5. w.ok => Holds(m, v2)
  <2> SUFFICES ASSUME w.ok PROVE Holds(m, v2)
    OBVIOUS
  <2>1. /\ DOMAIN v2 = Fields /\ v2.card = w.card /\ v2.cached = block /\ v2.dirty = TRUE
        /\ v2.mirror = w.mirror /\ v2.hit = w.hit /\ v2.ok = w.ok /\ v2.f = w.f
        /\ v2.slot = w.slot /\ v2.last = w.last /\ v2.search = w.search
    BY <1>4 DEF Sound, Fields
  <2> HIDE DEF v2
  <2>2. CacheOK(v2)
    BY <1>2, <1>4, <2>1 DEF CacheOK, Tables
  <2>3. Sound(v2)
    BY <1>4, <2>1, <2>2 DEF Sound, Tabled, Places
  <2> QED BY <1>4, <2>1, <2>3 DEF Holds
<1>6. Keeps(m, r) /\ (r.ok => r.dirty)
  BY <1>2, cacheRawBlockKeeps DEF Tables
<1> HIDE DEF v2, r
<1>7. r.ok => Holds(m, v3)
  <2> SUFFICES ASSUME r.ok PROVE Holds(m, v3)
    OBVIOUS
  <2>1. Scribbled(r, v3) /\ v3.f = r.f
    BY <1>6 DEF Scribbled, Keeps, Sound, Fields
  <2> HIDE DEF v3
  <2>2. Sound(v3)
    BY <1>6, <2>1, ScribbledSound DEF Keeps, Sound
  <2> QED BY <1>6, <2>1, <2>2 DEF Holds, Keeps, Scribbled
<1> HIDE DEF v3
<1>8. Holds(m, v)
  BY <1>3, <1>4, <1>5, <1>6, <1>7, KeepsHolds DEF Holds
<1> HIDE DEF v
<1>9. Holds(m, Posed(v))
  <2> DEFINE h == [v.f EXCEPT !.pos = v.f.pos + n]
             p == Posed(v)
  <2>1. Held(h) /\ p = [v EXCEPT !.f = h]
    BY <1>8 DEF Held, FileFields, Holds, Sound, Fields
  <2> HIDE DEF h, p
  <2>2. Holds(v, p)
    BY <1>8, <2>1, RefileHolds DEF Holds
  <2>3. Holds(m, p)
    BY <1>8, <2>2, HoldsTwice
  <2> QED BY <2>3 DEF p
<1> HIDE DEF Posed
<1>10. Holds(m, e)
  BY <1>1, <1>8, <1>9
<1> QED BY <1>10 DEF e

\* One turn of the loop of write().
LEMMA WritePartHolds ==
  ASSUME NEW m, Sound(m), Held(m.f), NEW name, NEW end
  PROVE  Holds(m, WritePart(m, name, end))
<1> DEFINE n == Min({Slots - Slot(m.f.pos), end - m.f.pos})
           c == WriteCluster(m)
           w == WriteInBlock(c, name, n)
           x == [w EXCEPT !.more = w.f.pos < end]
           r == WritePart(m, name, end)
<1>1. r = IF c.ok THEN IF w.ok THEN x ELSE w ELSE c
  BY DEF WritePart, Then
<1>2. Holds(m, c)
  BY WriteClusterHolds
<1> HIDE DEF r, c, n
<1>3. Holds(m, w)
  BY <1>2, WriteInBlockHolds, HoldsTwice DEF Holds
<1> HIDE DEF w
<1>4. Holds(m, x)
  <2>1. Like(w, x) /\ x.hit = w.hit /\ x.ok = w.ok
    BY <1>3 DEF Like, Beside, Holds, Sound, Fields
  <2> HIDE DEF x
  <2>2. Sound(x)
    BY <1>3, <2>1, LikeSound DEF Holds
  <2> QED BY <1>3, <2>1, <2>2 DEF Holds, Like
<1> HIDE DEF x
<1>5. Holds(m, r)
  BY <1>1, <1>2, <1>3, <1>4
<1> QED BY <1>5 DEF r

\* The whole loop.
LEMMA WriteCellsSound ==
  ASSUME NEW m, Sound(m), Held(m.f), NEW name, NEW nbyte
  PROVE  Sound(WriteCells(m, name, nbyte)) /\ Held(WriteCells(m, name, nbyte).f)
<1> DEFINE stop == m.f.pos + nbyte
           first == [m EXCEPT !.more = TRUE]
           Body(g, n) == IF n = 0 THEN first
                         ELSE LET s == g[n - 1] IN IF s.ok /\ s.more THEN WritePart(s, name, stop) ELSE s
           after[n \in Steps] ==
             IF n = 0 THEN first
             ELSE LET s == after[n - 1] IN IF s.ok /\ s.more THEN WritePart(s, name, stop) ELSE s
           end == after[clusterCount_ + 1]
           r == WriteCells(m, name, nbyte)
<1>1. r = m \/ r = IF end.more THEN Fail(end) ELSE end
  BY DEF WriteCells, Loop
<1>2. Sound(first) /\ Held(first.f)
  <2>1. Like(m, first) /\ first.hit = m.hit
    BY DEF Like, Beside, Sound, Fields
  <2> HIDE DEF first
  <2> QED BY <2>1, LikeSound DEF Like
<1> HIDE DEF first, stop
<1>3. \E g : g = [n \in Steps |-> Body(g, n)]
  <2>1. PICK g : IsRun(g, "write", name, stop, first)
    BY LoopRuns
  <2>2. \A n \in Steps : g[n] = Body(g, n)
    BY <2>1 DEF IsRun, GoOn, Turns
  <2> HIDE DEF Body
  <2>3. g = [n \in Steps |-> Body(g, n)]
    BY <2>1, <2>2 DEF IsRun
  <2> QED BY <2>3
<1>4. after = [n \in Steps |-> Body(after, n)]
  BY <1>3
<1>5. IsRun(after, "write", name, stop, first)
  <2> HIDE DEF after
  <2>1. \A n \in Steps : after[n] = IF n = 0 THEN first ELSE GoOn("write", name, stop, after[n - 1])
    BY <1>4 DEF GoOn, Turns
  <2> HIDE DEF Body
  <2>2. after = [n \in Steps |-> after[n]]
    BY <1>4
  <2> QED BY <2>1, <2>2 DEF IsRun
<1> HIDE DEF after
<1>6. Sound(end) /\ Held(end.f)
  <2>1. Kept("write", first)
    BY <1>2 DEF Kept
  <2>2. \A s : Kept("write", s) => Kept("write", Turns("write", name, stop, s))
    BY WritePartHolds DEF Kept, Turns, Holds
  <2>3. Kept("write", after[clusterCount_ + 1])
    BY <1>5, <2>1, <2>2, RunKeeps
  <2> QED BY <2>3 DEF Kept
<1> HIDE DEF end, r
<1>7. Sound(Fail(end)) /\ Held(Fail(end).f)
  BY <1>6, FailKeeps
<1>8. Sound(r) /\ Held(r.f)
  BY <1>1, <1>6, <1>7
<1> QED BY <1>8 DEF r

\* write, whatever came of its loop.
LEMMA writeSound ==
  ASSUME NEW m, Sound(m), Held(m.f), NEW name, NEW nbyte
  PROVE  Sound(write(m, name, nbyte)) /\ Held(write(m, name, nbyte).f)
<1> DEFINE w == WriteCells(m, name, nbyte)
           x == [w EXCEPT !.f.size = w.f.pos, !.f.dirty = TRUE]
           r == write(m, name, nbyte)
<1>1. r = Fail(m) \/ r = w \/ r = x
  BY DEF write, Then
<1>2. Sound(w) /\ Held(w.f)
  BY WriteCellsSound
<1> HIDE DEF w, r
<1>3. Sound(x) /\ Held(x.f)
  <2> DEFINE h == [w.f EXCEPT !.size = w.f.pos, !.dirty = TRUE]
  <2>1. Held(h)
    BY <1>2 DEF Held, FileFields
  <2>2. x = [w EXCEPT !.f = h]
    BY <1>2 DEF Sound, Fields
  <2> HIDE DEF h, x
  <2>3. Holds(w, x)
    BY <1>2, <2>1, <2>2, RefileHolds
  <2> QED BY <2>3 DEF Holds
<1> HIDE DEF x
<1>4. Sound(Fail(m)) /\ Held(Fail(m).f)
  BY FailKeeps
<1>5. Sound(r) /\ Held(r.f)
  BY <1>1, <1>2, <1>3, <1>4
<1> QED BY <1>5 DEF r

-----------------------------------------------------------------------------
(* Removing and making directories. *)

\* remove: the file is cut to nothing and its entry marked as deleted.
LEMMA removeSound ==
  ASSUME NEW m, Sound(m), Held(m.f)
  PROVE  Sound(remove(m))
<1> DEFINE t == truncate(m, 0)
           d == cacheDirEntry(t, TRUE)
           x == [d EXCEPT !.buf[d.f.dirIndex] = Deleted, !.f = ClosedFile]
           w == cacheFlush(x)
           r == remove(m)
<1>1. r = IF t.ok THEN IF d.ok THEN w ELSE d ELSE t
  BY DEF remove, Then
<1>2. Holds(m, t)
  BY truncateHolds
<1> HIDE DEF r, t
<1>3. Keeps(t, d) /\ (d.ok => d.dirty)
  BY <1>2, cacheDirEntryKeeps DEF Holds
<1> HIDE DEF d
<1>4. d.ok => Sound(x)
  <2> SUFFICES ASSUME d.ok PROVE Sound(x)
    OBVIOUS
  <2>1. Scribbled(d, x) /\ x.f = ClosedFile
    BY <1>3 DEF Scribbled, Keeps, Sound, Fields
  <2> HIDE DEF x
  <2> QED BY <1>3, <2>1, ScribbledSound DEF Keeps, Filed
<1> HIDE DEF x
<1>5. d.ok => Sound(w)
  BY <1>4, cacheFlushKeeps
<1> HIDE DEF w
<1>6. Sound(r)
  BY <1>1, <1>2, <1>3, <1>5 DEF Holds, Keeps
<1> QED BY <1>6 DEF r

\* One turn of the search for an entry that forbids rmDir.
LEMMA EmptyBlockHolds ==
  ASSUME NEW m, Sound(m), Held(m.f)
  PROVE  Holds(m, EmptyBlock(m))
<1> DEFINE r == cacheRawBlock(m, m.last, FALSE)
           r1 == [r EXCEPT !.more = FALSE]
           g == fatGet(r, r.last)
           g1 == [g EXCEPT !.more = FALSE]
           g2 == [g EXCEPT !.last = clusterStartBlock(g.val)]
           e == EmptyBlock(m)
<1>1. e \in {r, Fail(r), r1, g, g1, g2}
  BY DEF EmptyBlock, Then
<1>2. m.last \notin Tables
  BY DEF Sound, Places
<1>3. Holds(m, r)
  BY <1>2, cacheRawBlockKeeps, KeepsHolds DEF Tables
<1> HIDE DEF e, r
<1>4. Holds(m, g)
  BY <1>3, fatGetKeeps, KeepsHolds, HoldsTwice DEF Holds
<1> HIDE DEF g
<1>5. ASSUME NEW k, Holds(m, k) PROVE Holds(m, [k EXCEPT !.more = FALSE])
  <2> DEFINE x == [k EXCEPT !.more = FALSE]
  <2>1. Like(k, x) /\ x.hit = k.hit /\ x.ok = k.ok
    BY <1>5 DEF Like, Beside, Holds, Sound, Fields
  <2> HIDE DEF x
  <2>2. Sound(x)
    BY <1>5, <2>1, LikeSound DEF Holds
  <2>3. Holds(m, x)
    BY <1>5, <2>1, <2>2 DEF Holds, Like
  <2> QED BY <2>3 DEF x
<1>6. Holds(m, g2)
  <2>1. clusterStartBlock(g.val) \notin Tables /\ clusterStartBlock(g.val) \in Int
    BY BlockNumbers
  <2>2. /\ Beside(g, g2) /\ g2.f = g.f /\ g2.slot = g.slot /\ g2.last = clusterStartBlock(g.val)
        /\ g2.search = g.search /\ g2.hit = g.hit /\ g2.ok = g.ok
    BY <1>4 DEF Beside, Holds, Sound, Fields
  <2> HIDE DEF g2
  <2>3. Filed(g2.f) /\ Places(g2)
    BY <1>4, <2>1, <2>2 DEF Places, Holds, Sound
  <2>4. Sound(g2)
    BY <1>4, <2>2, <2>3, BesideSound DEF Holds
  <2> QED BY <1>4, <2>2, <2>4 DEF Holds
<1>7. Holds(m, r1) /\ Holds(m, g1)
  BY <1>3, <1>4, <1>5
<1>8. Holds(m, Fail(r))
  BY <1>3, FailHolds, HoldsTwice DEF Holds
<1> HIDE DEF g2, r1, g1
<1>9. Holds(m, e)
  BY <1>1, <1>3, <1>4, <1>6, <1>7, <1>8
<1> QED BY <1>9 DEF e

\* The whole search.
LEMMA EmptyFromSound ==
  ASSUME NEW m, Sound(m), Held(m.f), NEW block \in Int, block \notin Tables
  PROVE  Sound(EmptyFrom(m, block)) /\ Held(EmptyFrom(m, block).f)
<1> DEFINE start == [m EXCEPT !.last = block]
           first == [start EXCEPT !.more = TRUE]
           Body(g, n) == IF n = 0 THEN first
                         ELSE LET s == g[n - 1] IN IF s.ok /\ s.more THEN EmptyBlock(s) ELSE s
           after[n \in Steps] ==
             IF n = 0 THEN first
             ELSE LET s == after[n - 1] IN IF s.ok /\ s.more THEN EmptyBlock(s) ELSE s
           end == after[clusterCount_ + 1]
           r == EmptyFrom(m, block)
<1>1. r = IF end.more THEN Fail(end) ELSE end
  BY DEF EmptyFrom, Loop
<1>2. Sound(first) /\ Held(first.f)
  <2>1. /\ Beside(m, first) /\ first.f = m.f /\ first.slot = m.slot /\ first.last = block
        /\ first.search = m.search /\ first.hit = m.hit
    BY DEF Beside, Sound, Fields
  <2> HIDE DEF first
  <2>2. Filed(first.f) /\ Places(first)
    BY <2>1 DEF Places, Sound
  <2> QED BY <2>1, <2>2, BesideSound
<1> HIDE DEF first
<1>3. \E g : g = [n \in Steps |-> Body(g, n)]
  <2>1. PICK g : IsRun(g, "empty", 0, 0, first)
    BY LoopRuns
  <2>2. \A n \in Steps : g[n] = Body(g, n)
    BY <2>1 DEF IsRun, GoOn, Turns
  <2> HIDE DEF Body
  <2>3. g = [n \in Steps |-> Body(g, n)]
    BY <2>1, <2>2 DEF IsRun
  <2> QED BY <2>3
<1>4. after = [n \in Steps |-> Body(after, n)]
  BY <1>3
<1>5. IsRun(after, "empty", 0, 0, first)
  <2> HIDE DEF after
  <2>1. \A n \in Steps : after[n] = IF n = 0 THEN first ELSE GoOn("empty", 0, 0, after[n - 1])
    BY <1>4 DEF GoOn, Turns
  <2> HIDE DEF Body
  <2>2. after = [n \in Steps |-> after[n]]
    BY <1>4
  <2> QED BY <2>1, <2>2 DEF IsRun
<1> HIDE DEF after
<1>6. Sound(end) /\ Held(end.f)
  <2>1. Kept("empty", first)
    BY <1>2 DEF Kept
  <2>2. \A s : Kept("empty", s) => Kept("empty", Turns("empty", 0, 0, s))
    BY EmptyBlockHolds DEF Kept, Turns, Holds
  <2>3. Kept("empty", after[clusterCount_ + 1])
    BY <1>5, <2>1, <2>2, RunKeeps
  <2> QED BY <2>3 DEF Kept
<1> HIDE DEF end, r
<1>7. Sound(Fail(end)) /\ Held(Fail(end).f)
  BY <1>6, FailKeeps
<1>8. Sound(r) /\ Held(r.f)
  BY <1>1, <1>6, <1>7
<1> QED BY <1>8 DEF r

\* rmDir.
LEMMA rmDirSound ==
  ASSUME NEW m, Sound(m), Held(m.f)
  PROVE  Sound(rmDir(m))
<1> DEFINE e == EmptyFrom(m, clusterStartBlock(m.f.first))
           x == [e EXCEPT !.f.type = "file", !.f.write = TRUE, !.f.cur = 0, !.f.pos = 0]
           r == rmDir(m)
<1>1. r = Fail(m) \/ r = e \/ r = remove(x)
  BY DEF rmDir, Then
<1>2. Sound(e) /\ Held(e.f)
  BY BlockNumbers, EmptyFromSound
<1> HIDE DEF r, e
<1>3. Sound(x) /\ Held(x.f)
  <2> DEFINE h == [e.f EXCEPT !.type = "file", !.write = TRUE, !.cur = 0, !.pos = 0]
  <2>1. Held(h)
    BY <1>2 DEF Held, FileFields
  <2>2. x = [e EXCEPT !.f = h]
    BY <1>2 DEF Sound, Fields
  <2> HIDE DEF h, x
  <2>3. Holds(e, x)
    BY <1>2, <2>1, <2>2, RefileHolds
  <2> QED BY <2>3 DEF Holds
<1> HIDE DEF x
<1>4. Sound(remove(x)) /\ Sound(Fail(m))
  BY <1>3, removeSound, FailKeeps
<1>5. Sound(r)
  BY <1>1, <1>2, <1>4
<1> QED BY <1>5 DEF r

\* makeDir: a file becomes a directory in six writes, none of them into a table.
LEMMA makeDirSound ==
  ASSUME NEW m, Sound(m), NEW dir \in Int, dir \notin Tables, NEW name
  PROVE  Sound(makeDir(m, dir, name))
<1> DEFINE o == open(m, dir, name, {"CREAT", "EXCL", "WRITE"})
           o1 == [o EXCEPT !.f.type = "dir", !.f.write = FALSE]
           a == addDirCluster(o1)
           s == sync(a)
           d == cacheDirEntry(s, TRUE)
           d1 == [d EXCEPT !.buf[d.f.dirIndex].att = "dir"]
           c == cacheRawBlock(d1, clusterStartBlock(d.f.first), TRUE)
           c1 == [c EXCEPT !.buf[0] = Cell(".", "dir", c.f.first, 0),
                           !.buf[1] = Cell("..", "dir", IF dir = RootBlock THEN 0 ELSE dir, 0)]
           w == cacheFlush(c1)
           r == makeDir(m, dir, name)
<1>1. r = IF o.ok THEN IF a.ok THEN IF s.ok THEN IF d.ok THEN IF c.ok THEN w ELSE c ELSE d ELSE s ELSE a ELSE o
  BY DEF makeDir, Then
<1>2. Opens(o)
  BY openOpens
<1> HIDE DEF r, o
<1>3. o.ok => Sound(o1) /\ Held(o1.f) /\ o1.f.cur = 0
  <2> SUFFICES ASSUME o.ok PROVE Sound(o1) /\ Held(o1.f) /\ o1.f.cur = 0
    OBVIOUS
  <2> DEFINE h == [o.f EXCEPT !.type = "dir", !.write = FALSE]
  <2>1. Held(h) /\ h.cur = 0
    BY <1>2 DEF Held, FileFields, Opens
  <2>2. o1 = [o EXCEPT !.f = h]
    BY <1>2 DEF Sound, Fields, Opens
  <2> HIDE DEF h, o1
  <2>3. Holds(o, o1)
    BY <1>2, <2>1, <2>2, RefileHolds DEF Opens
  <2>4. o1.f = h
    BY <1>2, <2>2 DEF Opens, Sound, Fields
  <2> QED BY <2>1, <2>3, <2>4 DEF Holds
<1> HIDE DEF o1
<1>4. o.ok => Holds(o1, a)
  BY <1>3, addDirClusterHolds
<1> HIDE DEF a
<1>5. o.ok => Holds(a, s)
  BY <1>4, syncHolds DEF Holds
<1> HIDE DEF s
<1>6. o.ok => Keeps(s, d) /\ (d.ok => d.dirty)
  BY <1>5, cacheDirEntryKeeps DEF Holds
<1> HIDE DEF d
<1>7. o.ok /\ d.ok => Sound(d1) /\ d1.f = d.f
  <2> SUFFICES ASSUME o.ok, d.ok PROVE Sound(d1) /\ d1.f = d.f
    OBVIOUS
  <2>1. Scribbled(d, d1) /\ d1.f = d.f
    BY <1>6 DEF Scribbled, Keeps, Sound, Fields
  <2> HIDE DEF d1
  <2> QED BY <1>6, <2>1, ScribbledSound DEF Keeps, Sound
<1> HIDE DEF d1
<1>8. o.ok /\ d.ok => Keeps(d1, c) /\ (c.ok => c.dirty)
  BY <1>7, BlockNumbers, cacheRawBlockKeeps DEF Tables
<1> HIDE DEF c
<1>9. o.ok /\ d.ok /\ c.ok => Sound(c1)
  <2> SUFFICES ASSUME o.ok, d.ok, c.ok PROVE Sound(c1)
    OBVIOUS
  <2>1. Scribbled(c, c1) /\ c1.f = c.f
    BY <1>8 DEF Scribbled, Keeps, Sound, Fields
  <2> HIDE DEF c1
  <2> QED BY <1>8, <2>1, ScribbledSound DEF Keeps, Sound
<1> HIDE DEF c1
<1>10. o.ok /\ d.ok /\ c.ok => Sound(w)
  BY <1>9, cacheFlushKeeps
<1> HIDE DEF w
<1>11. Sound(r)
  BY <1>1, <1>2, <1>4, <1>5, <1>6, <1>8, <1>10 DEF Opens, Holds, Keeps
<1> QED BY <1>11 DEF r

-----------------------------------------------------------------------------
(* The routines of SDClass. *)

\* Without its file, and with another result, a machine is as sound.
LEMMA ClosedSound ==
  ASSUME NEW m, Sound(m)
  PROVE  LET c == [m EXCEPT !.f = ClosedFile]
         IN  Sound(c) /\ c.f = ClosedFile /\ c.ok = m.ok /\ c.val = m.val
<1> DEFINE c == [m EXCEPT !.f = ClosedFile]
<1>1. /\ Beside(m, c) /\ c.f = ClosedFile /\ c.slot = m.slot /\ c.last = m.last
      /\ c.search = m.search /\ c.hit = m.hit /\ c.ok = m.ok /\ c.val = m.val
  BY DEF Beside, Sound, Fields
<1> HIDE DEF c
<1>2. Filed(c.f) /\ Places(c)
  BY <1>1 DEF Filed, Places, Sound
<1>3. Sound(c)
  BY <1>1, <1>2, BesideSound
<1> QED BY <1>1, <1>3 DEF c

\* The result of a call may be overwritten.
LEMMA OkSound ==
  ASSUME NEW m, Sound(m), NEW b
  PROVE  LET c == [m EXCEPT !.ok = b] IN Sound(c) /\ c.f = m.f /\ c.val = m.val
<1> DEFINE c == [m EXCEPT !.ok = b]
<1>1. Like(m, c) /\ c.hit = m.hit /\ c.val = m.val
  BY DEF Like, Beside, Sound, Fields
<1> HIDE DEF c
<1>2. Sound(c) /\ c.f = m.f /\ c.val = m.val
  BY <1>1, LikeSound DEF Like
<1> QED BY <1>2 DEF c

\* A result that the caller does not look at.
LEMMA IgnoredSound ==
  ASSUME NEW m, Sound(m)
  PROVE  Sound(Ignored(m)) /\ Ignored(m).f = m.f /\ Ignored(m).val = m.val
BY OkSound DEF Ignored

\* A routine that leaves a directory's first block in val.
Leads(r) == Sound(r) /\ (r.ok => r.val \in Int /\ r.val \notin Tables)

\* The first block of any chain is no table.
LEMMA LeadsTo ==
  ASSUME NEW m, Sound(m), NEW cluster
  PROVE  Leads([m EXCEPT !.val = clusterStartBlock(cluster), !.f = ClosedFile])
<1> DEFINE v == clusterStartBlock(cluster)
           c == [m EXCEPT !.val = v, !.f = ClosedFile]
<1> HIDE DEF v
<1>1. /\ Beside(m, c) /\ c.f = ClosedFile /\ c.slot = m.slot /\ c.last = m.last
      /\ c.search = m.search /\ c.hit = m.hit /\ c.val = v
  BY DEF Beside, Sound, Fields
<1> HIDE DEF c
<1>2. Filed(c.f) /\ Places(c)
  BY <1>1 DEF Filed, Places, Sound
<1>3. v \in Int /\ v \notin Tables
  BY BlockNumbers DEF v
<1>4. Leads(c)
  BY <1>1, <1>2, <1>3, BesideSound DEF Leads
<1> QED BY <1>4 DEF c, v

\* getParentDir.
LEMMA getParentDirLeads ==
  ASSUME NEW m, Sound(m), NEW dir
  PROVE  Leads(getParentDir(m, dir))
<1> DEFINE o == open(m, RootBlock, dir, O_READ)
           x == Ignored(cacheFlush(o))
           y == [x EXCEPT !.val = clusterStartBlock(o.f.first), !.f = ClosedFile]
           r == getParentDir(m, dir)
<1>1. r = [m EXCEPT !.val = RootBlock] \/ r = IF o.ok THEN y ELSE o
  BY DEF getParentDir, Then
<1>2. Opens(o)
  BY BlockNumbers, openOpens
<1> HIDE DEF o, r
<1>3. Sound(x)
  BY <1>2, cacheFlushKeeps, IgnoredSound DEF Opens
<1> HIDE DEF x
<1>4. Leads(y)
  BY <1>3, LeadsTo
<1> HIDE DEF y
<1>5. CASE r = [m EXCEPT !.val = RootBlock]
  <2>1. Like(m, r) /\ r.hit = m.hit /\ r.val = RootBlock
    BY <1>5 DEF Like, Beside, Sound, Fields
  <2>2. Leads(r)
    BY <2>1, LikeSound, BlockNumbers DEF Leads
  <2> QED BY <2>2 DEF r
<1>6. CASE r = IF o.ok THEN y ELSE o
  <2>1. Leads(r)
    BY <1>2, <1>4, <1>6 DEF Opens, Leads
  <2> QED BY <2>1 DEF r
<1> QED BY <1>1, <1>5, <1>6

\* The callbacks of walkPath.
LEMMA pathExistsSound ==
  ASSUME NEW m, Sound(m), NEW dir \in Int, dir \notin Tables, NEW name, NEW isLast
  PROVE  Sound(callback_pathExists(m, dir, name, isLast))
<1> DEFINE o == open(m, dir, name, O_READ)
           x == Ignored(close(o))
           y == [x EXCEPT !.f = ClosedFile]
           r == callback_pathExists(m, dir, name, isLast)
<1>1. r = IF o.ok THEN y ELSE o
  BY DEF callback_pathExists, Then
<1>2. Opens(o)
  BY openOpens
<1> HIDE DEF o, r
<1>3. o.ok => Sound(x)
  BY <1>2, closeSound, IgnoredSound DEF Opens
<1> HIDE DEF x
<1>4. o.ok => Sound(y)
  BY <1>3, ClosedSound
<1> HIDE DEF y
<1>5. Sound(r)
  BY <1>1, <1>2, <1>4 DEF Opens
<1> QED BY <1>5 DEF r

\* mkdir makes what exists did not find.
LEMMA makeDirPathSound ==
  ASSUME NEW m, Sound(m), NEW dir \in Int, dir \notin Tables, NEW name, NEW isLast
  PROVE  Sound(callback_makeDirPath(m, dir, name, isLast))
<1> DEFINE e == callback_pathExists(m, dir, name, isLast)
           x == Ignored(e)
           c == [x EXCEPT !.f = ClosedFile]
           d == makeDir(c, dir, name)
           y == [d EXCEPT !.f = ClosedFile]
           r == callback_makeDirPath(m, dir, name, isLast)
<1>1. r = IF e.ok THEN e ELSE y
  BY DEF callback_makeDirPath, MadeUnless
<1>2. Sound(e)
  BY pathExistsSound
<1> HIDE DEF e, r
<1>3. Sound(x)
  BY <1>2, IgnoredSound
<1> HIDE DEF x
<1>4. Sound(c)
  BY <1>3, ClosedSound
<1> HIDE DEF c
<1>5. Sound(d)
  BY <1>4, makeDirSound
<1> HIDE DEF d
<1>6. Sound(y)
  BY <1>5, ClosedSound
<1> HIDE DEF y
<1>7. Sound(r)
  BY <1>1, <1>2, <1>6
<1> QED BY <1>7 DEF r

\* remove and rmdir.
LEMMA RemovalsSound ==
  ASSUME NEW m, Sound(m), NEW dir \in Int, dir \notin Tables, NEW name, NEW isLast
  PROVE  /\ Sound(callback_remove(m, dir, name, isLast))
         /\ Sound(callback_rmdir(m, dir, name, isLast))
<1> DEFINE o == open(m, dir, name, {"WRITE"})
           x == remove(o)
           y == [x EXCEPT !.f = ClosedFile]
           p == open(m, dir, name, O_READ)
           u == rmDir(p)
           v == [u EXCEPT !.f = ClosedFile]
           r == callback_remove(m, dir, name, isLast)
           s == callback_rmdir(m, dir, name, isLast)
<1>1. (r = m \/ r = IF o.ok THEN y ELSE o) /\ (s = m \/ s = IF p.ok THEN v ELSE p)
  BY DEF callback_remove, callback_rmdir, Then
<1>2. Opens(o) /\ Opens(p)
  BY openOpens
<1> HIDE DEF o, p, r, s
<1>3. (o.ok => Sound(x)) /\ (p.ok => Sound(u))
  BY <1>2, removeSound, rmDirSound DEF Opens
<1> HIDE DEF x, u
<1>4. (o.ok => Sound(y)) /\ (p.ok => Sound(v))
  BY <1>3, ClosedSound
<1> HIDE DEF y, v
<1>5. Sound(r) /\ Sound(s)
  BY <1>1, <1>2, <1>4 DEF Opens
<1> QED BY <1>5 DEF r, s

Callbacks == {"pathExists", "makeDirPath", "remove", "rmdir"}

\* Whichever callback walkPath was handed.
LEMMA CallbackSound ==
  ASSUME NEW which \in Callbacks, NEW m, Sound(m), NEW dir \in Int, dir \notin Tables, NEW name, NEW isLast
  PROVE  Sound(Callback(which, m, dir, name, isLast))
BY pathExistsSound, makeDirPathSound, RemovalsSound DEF Callbacks, Callback

\* walkPath: two callbacks at most, with a flush after them.
LEMMA walkPathSound ==
  ASSUME NEW which \in Callbacks, NEW m, Sound(m), NEW p
  PROVE  Sound(walkPath(m, p, which))
<1> DEFINE b == Callback(which, m, RootBlock, p.name, TRUE)
           c == Callback(which, m, RootBlock, p.dir, FALSE)
           o == open(c, RootBlock, p.dir, O_READ)
           l == [o EXCEPT !.val = clusterStartBlock(o.f.first), !.f = ClosedFile]
           d == Descend(m, p, which)
           e == Callback(which, d, d.val, p.name, TRUE)
           i == Ignored(e)
           w == cacheFlush(i)
           x == [w EXCEPT !.ok = e.ok]
           r == walkPath(m, p, which)
<1>1. r = b \/ r = IF d.ok THEN x ELSE d
  BY DEF walkPath, Then, FlushedAfter
<1>2. d = IF c.ok THEN IF o.ok THEN l ELSE o ELSE c
  BY DEF Descend, Then
<1>3. Sound(b) /\ Sound(c)
  BY CallbackSound, BlockNumbers
<1> HIDE DEF b, c, d, r
<1>4. Opens(o)
  BY <1>3, openOpens, BlockNumbers
<1> HIDE DEF o
<1>5. Leads(l)
  BY <1>4, LeadsTo DEF Opens
<1> HIDE DEF l
<1>6. Sound(d) /\ (d.ok => Leads(d))
  BY <1>2, <1>3, <1>4, <1>5 DEF Leads, Opens
<1>7. d.ok => Sound(e)
  BY <1>6, CallbackSound DEF Leads
<1> HIDE DEF e
<1>8. d.ok => Sound(w)
  BY <1>7, IgnoredSound, cacheFlushKeeps
<1> HIDE DEF w
<1>9. d.ok => Sound(x)
  BY <1>8, OkSound
<1> HIDE DEF x
<1>10. Sound(r)
  BY <1>1, <1>3, <1>6, <1>9
<1> QED BY <1>10 DEF r

\* SD.open.
LEMMA OpenedSound ==
  ASSUME NEW m, Sound(m), NEW p, NEW oflag
  PROVE  Sound(Opened(m, p, oflag))
<1> DEFINE d == getParentDir(m, p.dir)
           f == open(d, d.val, p.name, oflag)
           w == cacheFlush(f)
           o == IF p.dir = "/" THEN f ELSE Ignored(w)
           s == seekSet(o, o.f.size)
           x == Ignored(s)
           r == Opened(m, p, oflag)
<1>1. r \in {d, f, o, x} /\ (r # d => d.ok) /\ (r \notin {d, f} => f.ok)
  BY DEF Opened, Then
<1>2. Leads(d)
  BY getParentDirLeads
<1> HIDE DEF d, r
<1>3. d.ok => Opens(f)
  BY <1>2, openOpens DEF Leads
<1> HIDE DEF f
<1>4. d.ok /\ f.ok => Sound(w) /\ w.f = f.f
  BY <1>3, cacheFlushKeeps DEF Opens
<1> HIDE DEF w
<1>5. d.ok /\ f.ok => Sound(o) /\ Held(o.f)
  BY <1>3, <1>4, IgnoredSound DEF Opens
<1> HIDE DEF o
<1>6. d.ok /\ f.ok => Sound(s)
  BY <1>5, seekSetHolds DEF Holds
<1> HIDE DEF s
<1>7. d.ok /\ f.ok => Sound(x)
  BY <1>6, IgnoredSound
<1> HIDE DEF x
<1>8. Sound(r)
  BY <1>1, <1>2, <1>3, <1>5, <1>7 DEF Leads, Opens
<1> QED BY <1>8 DEF r

-----------------------------------------------------------------------------
(* The steps of the specification. *)

RamFields == {"buf", "cached", "dirty", "mirror", "search"}

\* Between two calls: the cache and the card agree, the second table is to be
\* written whenever the first one is, and no entry is in a table.
FatInv ==
  /\ DOMAIN card = Blocks /\ DOMAIN ram = RamFields
  /\ ram.mirror <=> ram.dirty /\ ram.cached = FatBlock
  /\ ram.cached # MirrorBlock
  /\ ram.cached \in Blocks /\ ~ ram.dirty => ram.buf = card[ram.cached]
  /\ ram.search \in Int /\ Filed(file) /\ faults \in Int

\* A call starts from a sound machine, the open file in it.
LEMMA MachineSound ==
  ASSUME FatInv, NEW io, NEW power
  PROVE  Sound(Machine(io, power)) /\ Machine(io, power).f = file /\ Machine(io, power).hit = FALSE
<1> DEFINE m == Machine(io, power)
<1>1. /\ DOMAIN m = Fields /\ m.card = card /\ m.hit = FALSE /\ m.f = file
      /\ m.slot = [block |-> NoBlock, index |-> 0] /\ m.last = RootBlock
      /\ m.buf = ram.buf /\ m.cached = ram.cached /\ m.dirty = ram.dirty
      /\ m.mirror = ram.mirror /\ m.search = ram.search
  BY DEF Machine, Fields
<1> HIDE DEF m
<1>2. CacheOK(m) /\ Tabled(m)
  BY <1>1 DEF FatInv, CacheOK, Tabled
<1>3. Filed(m.f) /\ Places(m)
  BY <1>1, BlockNumbers DEF FatInv, Places
<1>4. Sound(m) /\ m.f = file /\ m.hit = FALSE
  BY <1>1, <1>2, <1>3 DEF Sound, FatInv
<1> QED BY <1>4 DEF m

\* What a step must be: the invariant is kept and the tables agree.
Agrees ==
  card'[FatBlock] # card[FatBlock] /\ faults' = faults => card'[MirrorBlock] = card'[FatBlock]

\* What a call leaves, with its faults counted, or what power failure leaves of it.
LEMMA LeaveKeeps ==
  ASSUME FatInv, NEW m, Sound(m), Leave(m)
  PROVE  FatInv' /\ Agrees
<1>1. card' = m.card /\ faults' \in Int /\ (faults' = faults => ~ m.hit)
  BY DEF Leave, FatInv
<1>2. Agrees
  BY <1>1 DEF Agrees, Sound, Tabled
<1>3. CASE m.hit /\ m.power
  <2>1. ram' = PoweredUp /\ file' = ClosedFile
    BY <1>3 DEF Leave
  <2> QED BY <1>1, <1>2, <2>1, BlockNumbers DEF FatInv, PoweredUp, RamFields, Filed, Sound
<1>4. CASE ~ (m.hit /\ m.power)
  <2>1. ram' = [k \in DOMAIN PoweredUp |-> m[k]] /\ file' = m.f
    BY <1>4 DEF Leave
  <2>2. DOMAIN PoweredUp = RamFields
    BY DEF PoweredUp, RamFields
  <2>3. /\ DOMAIN ram' = RamFields /\ ram'.buf = m.buf /\ ram'.cached = m.cached
        /\ ram'.dirty = m.dirty /\ ram'.mirror = m.mirror /\ ram'.search = m.search
    BY <2>1, <2>2 DEF RamFields
  <2> QED BY <1>1, <1>2, <2>1, <2>3 DEF FatInv, Sound, CacheOK, Places
<1> QED BY <1>3, <1>4

\* A formatted card and the RAM after a reset.
LEMMA FatInit == Init => FatInv
BY BlockNumbers DEF Init, FatInv, Formatted, PoweredUp, RamFields, Filed, ClosedFile

\* A call of a routine that keeps a machine sound.
LEMMA OpenFileKeeps ==
  ASSUME FatInv, NEW p, NEW oflag, OpenFile(p, oflag)
  PROVE  FatInv' /\ Agrees
<1>1. PICK m \in Outcomes(LAMBDA k : Opened(k, p, oflag)) : Leave([m EXCEPT !.f = IF m.ok THEN @ ELSE ClosedFile])
  BY DEF OpenFile
<1>2. \E io, power : m = Opened(Machine(io, power), p, oflag)
  BY DEF Outcomes
<1>3. Sound(m)
  BY <1>2, MachineSound, OpenedSound
<1> DEFINE e == [m EXCEPT !.f = IF m.ok THEN @ ELSE ClosedFile]
<1>4. Sound(e)
  <2>1. CASE m.ok
    <3>1. Like(m, e) /\ e.hit = m.hit
      BY <1>3, <2>1 DEF Like, Beside, Sound, Fields
    <3> QED BY <1>3, <3>1, LikeSound
  <2>2. CASE ~ m.ok
    <3>1. e = [m EXCEPT !.f = ClosedFile]
      BY <2>2
    <3> QED BY <1>3, <3>1, ClosedSound
  <2> QED BY <2>1, <2>2
<1> QED BY <1>1, <1>4, LeaveKeeps

\* The calls on an open File.
LEMMA OnOpenFileKeeps ==
  ASSUME FatInv
  PROVE  /\ \A n : WriteFile(n) => FatInv' /\ Agrees
         /\ ReadFile => FatInv' /\ Agrees
         /\ \A position : Seek(position) => FatInv' /\ Agrees
         /\ \A closes : Flush(closes) => FatInv' /\ Agrees
<1>1. ASSUME file # ClosedFile, NEW io, NEW power
      PROVE  Sound(Machine(io, power)) /\ Held(Machine(io, power).f)
  BY <1>1, MachineSound DEF FatInv, Filed
<1>2. ASSUME NEW n, WriteFile(n) PROVE FatInv' /\ Agrees
  <2>1. PICK m \in Outcomes(LAMBDA k : write(k, path.name, n)) : Leave(m)
    BY <1>2 DEF WriteFile
  <2>2. \E io, power : m = write(Machine(io, power), path.name, n)
    BY DEF Outcomes
  <2>3. Sound(m)
    BY <1>1, <1>2, <2>2, writeSound DEF WriteFile
  <2> QED BY <2>1, <2>3, LeaveKeeps
<1>3. ASSUME ReadFile PROVE FatInv' /\ Agrees
  <2>1. PICK m \in Outcomes(readCell) : Leave(m)
    BY <1>3 DEF ReadFile
  <2>2. \E io, power : m = readCell(Machine(io, power))
    BY DEF Outcomes
  <2>3. Sound(m)
    BY <1>1, <1>3, <2>2, readCellHolds DEF ReadFile, Holds
  <2> QED BY <2>1, <2>3, LeaveKeeps
<1>4. ASSUME NEW position, Seek(position) PROVE FatInv' /\ Agrees
  <2>1. PICK m \in Outcomes(LAMBDA k : seekSet(k, position)) : Leave(m)
    BY <1>4 DEF Seek
  <2>2. \E io, power : m = seekSet(Machine(io, power), position)
    BY DEF Outcomes
  <2>3. Sound(m)
    BY <1>1, <1>4, <2>2, seekSetHolds DEF Seek, Holds
  <2> QED BY <2>1, <2>3, LeaveKeeps
<1>5. ASSUME NEW closes, Flush(closes) PROVE FatInv' /\ Agrees
  <2>1. PICK m \in Outcomes(sync) : Leave(IF closes THEN [m EXCEPT !.f = ClosedFile] ELSE m)
    BY <1>5 DEF Flush
  <2>2. \E io, power : m = sync(Machine(io, power))
    BY DEF Outcomes
  <2>3. Sound(m)
    BY <1>1, <1>5, <2>2, syncHolds DEF Flush, Holds
  <2>4. Sound(IF closes THEN [m EXCEPT !.f = ClosedFile] ELSE m)
    BY <2>3, ClosedSound
  <2> QED BY <2>1, <2>4, LeaveKeeps
<1> QED BY <1>2, <1>3, <1>4, <1>5

\* The calls that walk a path.
LEMMA WalkedKeeps ==
  ASSUME FatInv, NEW p, NEW which \in Callbacks, Walked(p, which)
  PROVE  FatInv' /\ Agrees
<1>1. PICK m \in Outcomes(LAMBDA k : walkPath(k, p, which)) : Leave([m EXCEPT !.f = ClosedFile])
  BY DEF Walked
<1>2. \E io, power : m = walkPath(Machine(io, power), p, which)
  BY DEF Outcomes
<1>3. Sound(m)
  BY <1>2, MachineSound, walkPathSound
<1>4. Sound([m EXCEPT !.f = ClosedFile])
  BY <1>3, ClosedSound
<1> QED BY <1>1, <1>4, LeaveKeeps

\* Every step of the specification.
LEMMA FatStep ==
  ASSUME FatInv, [Next]_vars
  PROVE  FatInv' /\ Agrees
<1>1. CASE begin
  <2>1. /\ card' = card /\ ram' = ram /\ file' = file
        /\ faults' = faults \/ faults' = faults + 1
    BY <1>1 DEF begin
  <2> QED BY <2>1 DEF FatInv, Agrees
<1>2. CASE \E p \in Paths : \/ \E oflag \in {O_READ, FILE_WRITE} : OpenFile(p, oflag)
                            \/ exists(p)
                            \/ Remove(p, "remove")
  BY <1>2, OpenFileKeeps, WalkedKeeps DEF exists, Remove, Callbacks
<1>3. CASE \/ \E n \in 1 .. Slots : WriteFile(n)
           \/ ReadFile
           \/ \E position \in 0 .. MaxCells : Seek(position)
           \/ \E closes \in BOOLEAN : Flush(closes)
  BY <1>3, OnOpenFileKeeps
<1>4. CASE \E dir \in Dirs : mkdir(dir) \/ Remove([dir |-> "/", name |-> dir], "rmdir")
  BY <1>4, WalkedKeeps DEF mkdir, Remove, Callbacks
<1>5. CASE UNCHANGED vars
  BY <1>5 DEF vars, hist, FatInv, Agrees
<1> QED BY <1>1, <1>2, <1>3, <1>4, <1>5 DEF Next

\* At any moment between two calls, after any errors and losses of power: a clean cache
\* holds what the card holds, the second table is marked to be written exactly when the
\* first one is (SdVolume.cpp, cacheMirrorBlock_), the second table is never cached
\* itself, and no file that is open has its directory entry in a table.
THEOREM SdFatInvariant == Spec => []FatInv
<1>1. Init => FatInv
  BY FatInit
<1>2. FatInv /\ [Next]_vars => FatInv'
  BY FatStep
<1> QED BY <1>1, <1>2, PTL DEF Spec

\* A call that changed the first table on the card and met no fault has changed the
\* second one in the same way: cacheFlush never stores one without the other.
THEOREM SdTablesAgree == Spec => TablesAgree
<1>1. FatInv /\ [Next]_vars => [card'[FatBlock] # card[FatBlock] /\ faults' = faults =>
                                  card'[MirrorBlock] = card'[FatBlock]]_vars
  BY FatStep DEF Agrees
<1> QED BY <1>1, SdFatInvariant, PTL DEF Spec, TablesAgree
=============================================================================
