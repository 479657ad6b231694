------------------------------ MODULE SdVolume ------------------------------
(***************************************************************************)
(* The FAT16 volume below the SD library (Modules/SD/SdVolume.cpp): one    *)
(* block of cache with write-back, the two copies of the file allocation   *)
(* table, and the clusters that are chained in it.                         *)
(*                                                                         *)
(* A routine is an operator from a machine state m to the state it leaves: *)
(* the card and the RAM beside `ok' (the return value), `val' (the word it *)
(* hands back) and `io', the accesses of the card that succeed before the  *)
(* one that fails (`hit' when it was reached, `power' when all fail from   *)
(* there on).  So one step of the specification that uses this module is a *)
(* whole routine, stopped at any access or not at all.                     *)
(*                                                                         *)
(* Abstractions: one block per cluster and per table, one block of root    *)
(* directory; a block of a file or a directory is Slots cells of 32 bytes, *)
(* and bytes left over in the cache buffer are the cell Junk.              *)
(***************************************************************************)
EXTENDS Integers, FiniteSets, FiniteSetsExt, TLC

CONSTANTS
  clusterCount_,   \* data clusters of the volume
  Slots,           \* cells in a block: 16 on a card
  Layout           \* of the card: "partitioned", "floppy" or "unformatted"

ASSUME VolumeAssumption == clusterCount_ \in Nat \ {0} /\ Slots \in Nat \ {0, 1}

fatEnd == clusterCount_ + 1
Clusters == 2 .. fatEnd
EOC == fatEnd + 1                    \* end of a chain
isEOC(value) == value = EOC

FatBlock == 0
MirrorBlock == 1                     \* Clusters are the blocks 2 .. fatEnd
RootBlock == fatEnd + 1
NoBlock == fatEnd + 2                \* 0xFFFFFFFF: the card refuses it
Blocks == FatBlock .. RootBlock

Cell(name, att, first, size) == [name |-> name, att |-> att, first |-> first, size |-> size]
Free == Cell("free", "none", 0, 0)
Deleted == Cell("deleted", "none", 0, 0)
Junk == Cell("junk", "none", 0, 0)
Zeroes == [i \in 0 .. Slots - 1 |-> Free]

\* Entries 0 and 1 of a table are reserved and hold marks above FAT16EOC_MIN.
EmptyFat == [c \in 0 .. fatEnd |-> IF c \in Clusters THEN 0 ELSE EOC]
Formatted ==
  [b \in Blocks |-> IF b \in {FatBlock, MirrorBlock} THEN EmptyFat ELSE Zeroes]

\* The RAM after a reset, the card mounted by init(): its last read left the
\* boot sector in the cache.
PoweredUp == [buf |-> Zeroes, cached |-> NoBlock, dirty |-> FALSE, mirror |-> FALSE, search |-> 2]

Then(m, F(_)) == IF m.ok THEN F(m) ELSE m
Fail(m) == [m EXCEPT !.ok = FALSE]

\* One access of the card.  After an error the next one succeeds; without power
\* none does.
Access(m) ==
  IF m.io = 0 THEN [m EXCEPT !.ok = FALSE, !.hit = TRUE, !.io = IF m.power THEN 0 ELSE -1]
  ELSE [m EXCEPT !.io = IF @ > 0 THEN @ - 1 ELSE @, !.accesses = @ + 1]

WriteBlock(m, block, data) ==
  IF block \notin Blocks THEN Fail(m)
  ELSE Then(Access(m), LAMBDA a : [a EXCEPT !.card[block] = data])

-----------------------------------------------------------------------------
(* The cache. *)

\* Mistake: cacheDirty_ is cleared, but the second table is not written.
cacheFlushOneTable(m) ==
  IF ~ m.dirty THEN m
  ELSE Then(WriteBlock(m, m.cached, m.buf), LAMBDA w : [w EXCEPT !.dirty = FALSE])

cacheFlush(m) ==
  IF ~ m.dirty THEN m
  ELSE Then(WriteBlock(m, m.cached, m.buf), LAMBDA w :
       Then(IF w.mirror THEN WriteBlock(w, MirrorBlock, w.buf) ELSE w, LAMBDA v :
            [v EXCEPT !.mirror = FALSE, !.dirty = FALSE]))

cacheRawBlock(m, block, forWrite) ==
  IF m.cached = block THEN [m EXCEPT !.dirty = @ \/ forWrite]
  ELSE Then(cacheFlush(m), LAMBDA w : Then(Access(w), LAMBDA r :
         [r EXCEPT !.buf = r.card[block], !.cached = block, !.dirty = forWrite]))

cacheZeroBlock(m, block) ==
  Then(cacheFlush(m), LAMBDA w : [w EXCEPT !.buf = Zeroes, !.cached = block, !.dirty = TRUE])

-----------------------------------------------------------------------------
(* The table. *)

fatGet(m, cluster) ==
  IF cluster > fatEnd THEN Fail(m)
  ELSE Then(cacheRawBlock(m, FatBlock, FALSE), LAMBDA r : [r EXCEPT !.val = r.buf[cluster]])

\* fatPut of several entries of the one table block, which is in the cache.
fatPutAll(m, entries) ==
  IF DOMAIN entries = {} THEN m
  ELSE [m EXCEPT !.buf = entries @@ @, !.dirty = TRUE, !.mirror = TRUE]

\* Where a chain leads in 0, 1, 2 ... steps; it stays at its end.
Walk(fat, cluster) ==
  LET walk[n \in 0 .. clusterCount_ + 1] ==
        IF n = 0 THEN cluster
        ELSE LET c == walk[n - 1] IN IF c \in DOMAIN fat THEN fat[c] ELSE c
  IN  walk
Steps == 0 .. clusterCount_ + 1
Chain(fat, cluster) == {Walk(fat, cluster)[n] : n \in Steps} \cap Clusters

\* chainSize in blocks.
ChainLength(fat, cluster) ==
  Min({n \in Steps : isEOC(Walk(fat, cluster)[n])} \cup {clusterCount_ + 1})

\* Where the circular search from bgn looks, in order, and the first place that
\* ends a group of count free clusters not cut by the end of the table.
ScanFrom(bgn) ==
  LET start == IF bgn > fatEnd THEN 2 ELSE bgn
  IN  [n \in 0 .. clusterCount_ - 1 |-> 2 + ((start - 2 + n) % clusterCount_)]
GroupEnds(fat, scan, count) ==
  {n \in count - 1 .. clusterCount_ - 1 :
     \A i \in 0 .. count - 1 : scan[n - i] = scan[n] - i /\ fat[scan[n - i]] = 0}

\* Find count free clusters together, chain them and append them to cur.
allocContiguous(m, count, cur) ==
  Then(fatGet(m, 2), LAMBDA g :
    LET scan == ScanFrom(IF cur # 0 THEN cur + 1 ELSE g.search)
        ends == GroupEnds(g.buf, scan, count)
    IN  IF ends = {} THEN Fail(g)
        ELSE LET end == scan[Min(ends)]
                 bgn == end - count + 1
             IN  [fatPutAll(g, [c \in bgn .. end |-> IF c = end THEN EOC ELSE c + 1]
                               @@ (IF cur # 0 THEN cur :> bgn ELSE <<>>))
                    EXCEPT !.val = bgn,
                           !.search = IF cur = 0 /\ count = 1 THEN bgn + 1 ELSE @])

\* The chain is freed up to its end, or up to a reserved entry, where fatPut
\* refuses; without an end in the table it gets no further.
freeChain(m, cluster) ==
  Then(fatGet([m EXCEPT !.search = 2], cluster), LAMBDA g :
    [fatPutAll(g, [c \in Chain(g.buf, cluster) |-> 0])
       EXCEPT !.ok = \E n \in Steps : /\ isEOC(Walk(g.buf, cluster)[n])
                                      /\ \A i \in 0 .. n - 1 :
                                           Walk(g.buf, cluster)[i] \in Clusters])

-----------------------------------------------------------------------------
\* Mount the first partition, or the whole card when there is no partition.
init(m, part) ==
  Then(IF part = 0 THEN m
       ELSE Then(Access(m), LAMBDA t : IF Layout = "partitioned" THEN t ELSE Fail(t)),
  LAMBDA p : Then(Access(p), LAMBDA b :
    IF Layout = (IF part = 0 THEN "floppy" ELSE "partitioned") THEN b ELSE Fail(b)))

mount(m) == LET one == init(m, 1) IN IF one.ok THEN one ELSE init([one EXCEPT !.ok = TRUE], 0)
===============================================================================
