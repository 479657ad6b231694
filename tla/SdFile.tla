------------------------------- MODULE SdFile -------------------------------
(***************************************************************************)
(* Files and directories of the SD library (Modules/SD/SdFile.cpp) over    *)
(* SdVolume.  The SdFile object a routine works on is m.f; a directory     *)
(* that is only searched is the number of its first block.  Names are      *)
(* members of a small set; make83Name, dirName and the time stamps are the *)
(* data this leaves out.  Positions and sizes count cells.                 *)
(***************************************************************************)
EXTENDS SdVolume

ClosedFile == [type |-> "closed"]

\* A loop over the blocks of a file or directory, whose turns say whether there
\* is more.  There are no more blocks than clusters; a chain that runs in a
\* circle, in which the code would stay, counts as an error.
Loop(m, Turn(_)) ==
  LET after[n \in Steps] ==
        IF n = 0 THEN [m EXCEPT !.more = TRUE]
        ELSE LET s == after[n - 1] IN IF s.ok /\ s.more THEN Turn(s) ELSE s
      end == after[clusterCount_ + 1]
  IN  IF end.more THEN Fail(end) ELSE end

Slot(position) == position % Slots
BlockIndex(position) == position \div Slots

\* A chain that was cut short leads to the reserved entries, and what precedes
\* the first cluster on the card is the root directory.
clusterStartBlock(cluster) == IF cluster \in Clusters THEN cluster ELSE RootBlock

\* What a cell of a file's data is when it is the file's own.
Data(name, position) == Cell(name, "data", 0, position)

-----------------------------------------------------------------------------
\* Mistake: the first cluster is not linked to the directory entry.
addClusterUnlinked(m) ==
  Then(allocContiguous(m, 1, m.f.cur), LAMBDA a : [a EXCEPT !.f.cur = a.val])

addCluster(m) ==
  Then(allocContiguous(m, 1, m.f.cur), LAMBDA a :
    IF a.f.first = 0 THEN [a EXCEPT !.f.cur = a.val, !.f.first = a.val, !.f.dirty = TRUE]
    ELSE [a EXCEPT !.f.cur = a.val])

addDirCluster(m) ==
  Then(addCluster(m), LAMBDA a : Then(cacheZeroBlock(a, a.f.cur), LAMBDA z :
    [z EXCEPT !.f.size = @ + Slots]))

cacheDirEntry(m, forWrite) == cacheRawBlock(m, m.f.dirBlock, forWrite)

\* Mistake: the entry is written before the data and the table it points to.
syncEntryFirst(m) ==
  IF m.f.type = "closed" THEN Fail(m)
  ELSE Then(IF m.f.dirty
            THEN [m EXCEPT !.card[m.f.dirBlock][m.f.dirIndex].size = m.f.size,
                           !.card[m.f.dirBlock][m.f.dirIndex].first = m.f.first,
                           !.f.dirty = FALSE]
            ELSE m, LAMBDA s : cacheFlush(s))

sync(m) ==
  IF m.f.type = "closed" THEN Fail(m)
  ELSE Then(IF m.f.dirty
            THEN Then(cacheDirEntry(m, TRUE), LAMBDA d :
                   [d EXCEPT !.buf[d.f.dirIndex].size =
                                IF d.f.type = "file" THEN d.f.size ELSE @,
                             !.buf[d.f.dirIndex].first = d.f.first,
                             !.f.dirty = FALSE])
            ELSE m,
         LAMBDA s : cacheFlush(s))

close(m) == Then(sync(m), LAMBDA s : [s EXCEPT !.f = ClosedFile])

Moved(m, cluster, position) == [m EXCEPT !.f.cur = cluster, !.f.pos = position]

\* Where to follow the chain from, and how far, to the cell before position.
Route(f, position) ==
  LET nNew == BlockIndex(position - 1)
      nCur == IF f.pos = 0 THEN 0 ELSE BlockIndex(f.pos - 1)
  IN  IF nNew < nCur \/ f.pos = 0 THEN [from |-> f.first, steps |-> nNew]
      ELSE [from |-> f.cur, steps |-> nNew - nCur]

seekSet(m, position) ==
  IF m.f.type = "closed" \/ position > m.f.size THEN Fail(m)
  ELSE IF position = 0 THEN Moved(m, 0, 0)
  ELSE LET way == Route(m.f, position)
       IN  IF way.steps = 0 THEN Moved(m, way.from, position)
           ELSE Then(fatGet(m, way.from), LAMBDA g :
                  LET walk == Walk(g.buf, way.from)
                  IN  IF isEOC(walk[way.steps - 1]) THEN Fail([g EXCEPT !.f.cur = EOC])
                      ELSE Moved(g, walk[way.steps], position))

truncate(m, length) ==
  IF m.f.type # "file" \/ ~ m.f.write \/ length > m.f.size THEN Fail(m)
  ELSE IF m.f.size = 0 THEN m
  ELSE LET newPos == Min({m.f.pos, length})
       IN  Then(seekSet(m, length), LAMBDA s :
           Then(IF length = 0
                THEN Then(freeChain(s, s.f.first), LAMBDA r : [r EXCEPT !.f.first = 0])
                ELSE Then(fatGet(s, s.f.cur), LAMBDA g :
                       IF isEOC(g.val) THEN g
                       ELSE Then(freeChain(g, g.val), LAMBDA r :
                              fatPutAll(r, r.f.cur :> EOC))),
           LAMBDA c :
           Then(sync([c EXCEPT !.f.size = length, !.f.dirty = TRUE]), LAMBDA w :
                seekSet(w, newPos))))

-----------------------------------------------------------------------------
(* Opening. *)

\* openCachedEntry: the entry is in slot index of the cached block.
openCachedEntry(m, index, write) ==
  LET p == m.buf[index]
      opened == [type |-> p.att, dirBlock |-> m.cached, dirIndex |-> index,
                 first |-> p.first, cur |-> 0, pos |-> 0, size |-> p.size,
                 write |-> write, dirty |-> FALSE]
  IN  IF p.att = "dir"
        THEN IF write THEN Fail(m)
             ELSE Then(fatGet(m, p.first), LAMBDA g :
                    [g EXCEPT !.f = [opened EXCEPT !.size = Slots * ChainLength(g.buf, p.first)]])
      ELSE IF p.att = "file" THEN [m EXCEPT !.f = opened]
      ELSE Fail(m)

\* The first entry of a block at which the search ends, or Slots; and the
\* first empty entry of the directory, remembered in slot.
FirstEnd(buf, name) ==
  LET Ends == {i \in 0 .. Slots - 1 : buf[i].name \in {name, Free.name}}
  IN  IF Ends = {} THEN Slots ELSE Min(Ends)

EmptyNoted(m, seen) ==
  LET empty == {i \in 0 .. Slots - 1 : i <= seen /\ m.buf[i].name \in {Free.name, Deleted.name}}
  IN  IF empty = {} \/ m.slot.block # NoBlock THEN m
      ELSE [m EXCEPT !.slot = [block |-> m.last, index |-> Min(empty)]]

\* Look for name in one block of a directory, the last one so far.  val is its
\* slot in the cached block, or -1.
SearchBlock(m, name) ==
  Then(cacheRawBlock(m, m.last, FALSE), LAMBDA r :
    LET seen == FirstEnd(r.buf, name)
        s == EmptyNoted(r, seen)
    IN  IF seen < Slots
          THEN [s EXCEPT !.val = IF s.buf[seen].name = name THEN seen ELSE -1, !.more = FALSE]
        ELSE IF s.last = RootBlock THEN [s EXCEPT !.val = -1, !.more = FALSE]
        ELSE Then(fatGet(s, s.last), LAMBDA g :
               IF isEOC(g.val) THEN [g EXCEPT !.val = -1, !.more = FALSE]
               ELSE [g EXCEPT !.val = -1, !.last = clusterStartBlock(g.val)]))

Search(m, block, name) ==
  Loop([m EXCEPT !.last = block, !.val = -1], LAMBDA s : SearchBlock(s, name))

\* The empty slot found, or the first of a cluster added to the directory; the
\* root of a FAT16 volume cannot grow.
NewSlot(m) ==
  IF m.slot.block # NoBlock THEN cacheRawBlock(m, m.slot.block, TRUE)
  ELSE IF m.last = RootBlock THEN Fail(m)
  ELSE Then(allocContiguous(m, 1, m.last), LAMBDA a : Then(cacheZeroBlock(a, a.val), LAMBDA z :
         [z EXCEPT !.slot = [block |-> z.cached, index |-> 0]]))

\* open(dirFile, fileName, oflag); the flags that matter are O_WRITE, O_CREAT
\* and O_EXCL.
open(m, dir, name, oflag) ==
  IF m.f.type # "closed" THEN Fail(m)
  ELSE Then(Search([m EXCEPT !.slot.block = NoBlock], dir, name), LAMBDA s :
    IF s.val # -1
      THEN IF "EXCL" \in oflag THEN Fail(s) ELSE openCachedEntry(s, s.val, "WRITE" \in oflag)
    ELSE IF ~ {"CREAT", "WRITE"} \subseteq oflag THEN Fail(s)
    ELSE Then(NewSlot(s), LAMBDA n :
         Then(cacheFlush([n EXCEPT !.buf[n.slot.index] = Cell(name, "file", 0, 0)]), LAMBDA w :
              openCachedEntry(w, w.slot.index, TRUE))))

O_READ == {}
FILE_WRITE == {"WRITE", "CREAT"}

-----------------------------------------------------------------------------
(* Reading and writing. *)

\* The cluster of the next cell, taken from the chain at the start of a block.
ReadCluster(m) ==
  IF Slot(m.f.pos) # 0 THEN m
  ELSE IF m.f.pos = 0 THEN [m EXCEPT !.f.cur = m.f.first]
  ELSE Then(fatGet(m, m.f.cur), LAMBDA g : [g EXCEPT !.f.cur = g.val])

\* read() of one cell, which goes through the cache.
\* What is left of the file is unsigned: beyond the end there is always more.
readCell(m) ==
  IF m.f.type = "closed" THEN Fail(m)
  ELSE IF m.f.pos = m.f.size THEN m
  ELSE Then(ReadCluster(m), LAMBDA c :
       Then(cacheRawBlock(c, clusterStartBlock(c.f.cur), FALSE), LAMBDA r :
            [r EXCEPT !.f.pos = @ + 1]))

\* The cluster of the next cell to write, added to the chain when it ends here.
WriteCluster(m) ==
  IF Slot(m.f.pos) # 0 THEN m
  ELSE IF m.f.cur = 0 THEN IF m.f.first = 0 THEN addCluster(m) ELSE [m EXCEPT !.f.cur = m.f.first]
  ELSE Then(fatGet(m, m.f.cur), LAMBDA g :
         IF isEOC(g.val) THEN addCluster(g) ELSE [g EXCEPT !.f.cur = g.val])

\* n cells that fit in the block of the position: the whole block straight to
\* the card, a new block without reading it, part of a block through the cache.
WriteInBlock(m, name, n) ==
  LET block == clusterStartBlock(m.f.cur)
      new == [i \in Slot(m.f.pos) .. Slot(m.f.pos) + n - 1 |-> Data(name, m.f.pos - Slot(m.f.pos) + i)]
      Cached(r) == [r EXCEPT !.buf = new @@ @]
  IN  Then(IF n = Slots
             THEN WriteBlock([m EXCEPT !.cached = IF @ = block THEN NoBlock ELSE @], block, new)
           ELSE IF Slot(m.f.pos) = 0 /\ m.f.pos >= m.f.size
             THEN Then(cacheFlush(m), LAMBDA w :
                    Cached([w EXCEPT !.buf = [i \in 0 .. Slots - 1 |-> Junk],
                                     !.cached = block, !.dirty = TRUE]))
           ELSE Then(cacheRawBlock(m, block, TRUE), LAMBDA r : Cached(r)),
      LAMBDA w : [w EXCEPT !.f.pos = @ + n])

\* One turn of the loop of write(), which ends at position end.
WritePart(m, name, end) ==
  LET n == Min({Slots - Slot(m.f.pos), end - m.f.pos})
  IN  Then(WriteCluster(m), LAMBDA c : Then(WriteInBlock(c, name, n), LAMBDA w :
        [w EXCEPT !.more = w.f.pos < end]))

WriteCells(m, name, nbyte) ==
  IF nbyte = 0 THEN m ELSE Loop(m, LAMBDA s : WritePart(s, name, m.f.pos + nbyte))

\* write(buf, nbyte): the caller learns nothing, the error is set either way.
write(m, name, nbyte) ==
  IF m.f.type # "file" \/ ~ m.f.write THEN Fail(m)
  ELSE Then(WriteCells(m, name, nbyte), LAMBDA w :
         IF w.f.pos > w.f.size THEN [w EXCEPT !.f.size = w.f.pos, !.f.dirty = TRUE] ELSE w)

-----------------------------------------------------------------------------
(* Removing and making directories. *)

remove(m) ==
  Then(truncate(m, 0), LAMBDA t : Then(cacheDirEntry(t, TRUE), LAMBDA d :
    cacheFlush([d EXCEPT !.buf[d.f.dirIndex] = Deleted, !.f = ClosedFile])))

\* No entry in a block of the directory but `.', `..' and deleted ones.
EmptyBlock(m) ==
  Then(cacheRawBlock(m, m.last, FALSE), LAMBDA r :
    LET names == {r.buf[i].name : i \in 0 .. Slots - 1}
    IN  IF names \ {".", "..", Deleted.name, Free.name} # {} THEN Fail(r)
        ELSE IF Free.name \in names THEN [r EXCEPT !.more = FALSE]
        ELSE Then(fatGet(r, r.last), LAMBDA g :
               IF isEOC(g.val) THEN [g EXCEPT !.more = FALSE]
               ELSE [g EXCEPT !.last = clusterStartBlock(g.val)]))

EmptyFrom(m, block) == Loop([m EXCEPT !.last = block], EmptyBlock)

rmDir(m) ==
  IF m.f.type # "dir" THEN Fail(m)
  ELSE Then(EmptyFrom(m, clusterStartBlock(m.f.first)), LAMBDA e :
         remove([e EXCEPT !.f.type = "file", !.f.write = TRUE, !.f.cur = 0, !.f.pos = 0]))

\* makeDir: a file is created, gets a zeroed cluster and becomes a directory.
makeDir(m, dir, name) ==
  Then(open(m, dir, name, {"CREAT", "EXCL", "WRITE"}), LAMBDA o :
  Then(addDirCluster([o EXCEPT !.f.type = "dir", !.f.write = FALSE]), LAMBDA a :
  Then(sync(a), LAMBDA s :
  Then(cacheDirEntry(s, TRUE), LAMBDA d :
  Then(cacheRawBlock([d EXCEPT !.buf[d.f.dirIndex].att = "dir"],
                     clusterStartBlock(d.f.first), TRUE), LAMBDA c :
       cacheFlush([c EXCEPT !.buf[0] = Cell(".", "dir", c.f.first, 0),
                            !.buf[1] = Cell("..", "dir", IF dir = RootBlock THEN 0 ELSE dir, 0)]))))))
===============================================================================
