------------------------------- MODULE SDClass -------------------------------
(***************************************************************************)
(* The SD library as its callers see it (Modules/SD/SD.cpp and File.cpp):  *)
(* files in the root directory and in the directories below it, one of     *)
(* them open at a time, as FilePersistence keeps them.  Every access of    *)
(* the card may fail, and at every access power may be lost: then the card *)
(* keeps what was written and everything in RAM starts again.              *)
(***************************************************************************)
EXTENDS SdFile

CONSTANTS
  Paths,        \* files: [dir |-> a name, or "/" for the root, name |-> a name]
  Dirs,         \* directories of the root
  Kinds,        \* faults that may happen, of {"error", "power"}
  Backwards,    \* whether the callers seek to the start of a file they write
  MaxCells,     \* bound: cells in a file
  MaxFaults     \* bound: faults

VARIABLES
  card,       \* what the blocks of the card hold
  ram,        \* the block cache and SdVolume's allocSearchStart_
  mounted,    \* SD.begin() succeeded
  file,       \* the SdFile of the open File, or ClosedFile
  path,       \* whose it is
  faults,     \* history: accesses that failed
  fresh,      \* history: cells written by this File and not yet synced
  hurt,       \* history: a write of this File met a fault
  promised,   \* history: path |-> cells that a sync reported to be on the card
  torn        \* history: a removal was cut short

hist == <<faults, fresh, hurt, promised, torn>>
vars == <<card, ram, mounted, file, path, hist>>

NoPath == [dir |-> "/", name |-> ""]

Init ==
  /\ card = Formatted /\ ram = PoweredUp /\ mounted = FALSE
  /\ file = ClosedFile /\ path = NoPath
  /\ faults = 0 /\ fresh = {} /\ hurt = FALSE /\ torn = FALSE
  /\ promised = [p \in Paths |-> {}]

-----------------------------------------------------------------------------
(* A call of the library: the machine it starts from, and what it leaves.  *)

\* Before its access io fails, or power is lost there; -1 stands for no fault.
Machine(io, power) ==
  [card |-> card, buf |-> ram.buf, cached |-> ram.cached, dirty |-> ram.dirty,
   mirror |-> ram.mirror, search |-> ram.search,
   ok |-> TRUE, val |-> 0, hit |-> FALSE, io |-> io, power |-> power, accesses |-> 0, more |-> FALSE,
   f |-> file, slot |-> [block |-> NoBlock, index |-> 0], last |-> RootBlock]

\* What may befall a call of so many accesses: nothing, or one fault.
Faults(accesses) ==
  {[io |-> -1, power |-> FALSE]} \cup
    IF faults = MaxFaults THEN {}
    ELSE [io : 0 .. accesses - 1, power : {kind = "power" : kind \in Kinds}]

\* All that can come of a call: with no fault, or one at any of its accesses.
Outcomes(Routine(_)) ==
  {Routine(Machine(f.io, f.power)) : f \in Faults(Routine(Machine(-1, FALSE)).accesses)}

\* The results that a caller does not look at.
Ignored(m) == [m EXCEPT !.ok = TRUE]

\* The call leaves m, or the power is lost within it.
Leave(m) ==
  /\ card' = m.card
  /\ faults' = IF m.hit THEN faults + 1 ELSE faults
  /\ IF m.hit /\ m.power
       THEN ram' = PoweredUp /\ mounted' = FALSE /\ file' = ClosedFile
       ELSE /\ ram' = [k \in DOMAIN PoweredUp |-> m[k]]
            /\ file' = m.f /\ UNCHANGED mounted

\* The File is gone, with what it had not synced.
FileGone == path' = NoPath /\ fresh' = {} /\ hurt' = FALSE

-----------------------------------------------------------------------------
(* Paths. *)

\* getParentDir: the first block of the directory, in val.
getParentDir(m, dir) ==
  IF dir = "/" THEN [m EXCEPT !.val = RootBlock]
  ELSE Then(open(m, RootBlock, dir, O_READ), LAMBDA o :
         [Ignored(cacheFlush(o)) EXCEPT !.val = clusterStartBlock(o.f.first), !.f = ClosedFile])

callback_pathExists(m, dir, name, isLast) ==
  Then(open(m, dir, name, O_READ), LAMBDA o : [Ignored(close(o)) EXCEPT !.f = ClosedFile])

MadeUnless(found, dir, name) ==
  IF found.ok THEN found
  ELSE [makeDir([Ignored(found) EXCEPT !.f = ClosedFile], dir, name) EXCEPT !.f = ClosedFile]

callback_makeDirPath(m, dir, name, isLast) ==
  MadeUnless(callback_pathExists(m, dir, name, isLast), dir, name)

callback_remove(m, dir, name, isLast) ==
  IF isLast THEN Then(open(m, dir, name, {"WRITE"}), LAMBDA o :
                   [remove(o) EXCEPT !.f = ClosedFile])
  ELSE m

callback_rmdir(m, dir, name, isLast) ==
  IF isLast THEN Then(open(m, dir, name, O_READ), LAMBDA o :
                   [rmDir(o) EXCEPT !.f = ClosedFile])
  ELSE m

\* The function that walkPath was handed.
Callback(which, m, dir, name, isLast) ==
  CASE which = "pathExists"  -> callback_pathExists(m, dir, name, isLast)
    [] which = "makeDirPath" -> callback_makeDirPath(m, dir, name, isLast)
    [] which = "remove"      -> callback_remove(m, dir, name, isLast)
    [] which = "rmdir"       -> callback_rmdir(m, dir, name, isLast)

\* walkPath: the callback is asked about every component in turn.
FlushedAfter(r) == [cacheFlush(Ignored(r)) EXCEPT !.ok = r.ok]
Descend(m, p, which) ==
  Then(Callback(which, m, RootBlock, p.dir, FALSE), LAMBDA c :
    Then(open(c, RootBlock, p.dir, O_READ), LAMBDA o :
      [o EXCEPT !.val = clusterStartBlock(o.f.first), !.f = ClosedFile]))

walkPath(m, p, which) ==
  IF p.dir = "/" THEN Callback(which, m, RootBlock, p.name, TRUE)
  ELSE Then(Descend(m, p, which), LAMBDA d :
         FlushedAfter(Callback(which, d, d.val, p.name, TRUE)))

\* The entries of a directory as the card holds them.
DirBlocks(dir) ==
  IF dir = "/" THEN {RootBlock}
  ELSE UNION {Chain(card[FatBlock], e.first) :
                e \in {card[RootBlock][i] : i \in 0 .. Slots - 1} \cap
                      {Cell(dir, "dir", c, 0) : c \in Clusters}}
Entries(dir) == {card[b][i] : b \in DirBlocks(dir), i \in 0 .. Slots - 1}

\* A directory that makeDir did not finish is a file; nothing below it is named.
Reachable(p) ==
  LET root == IF ram.cached = RootBlock THEN ram.buf ELSE card[RootBlock]
  IN  \A i \in 0 .. Slots - 1 : root[i].name = p.dir => root[i].att = "dir"

-----------------------------------------------------------------------------
(* The calls. *)

\* SD.begin, once; the root of a FAT16 volume is opened without an access.
begin ==
  /\ ~ mounted
  /\ \E m \in Outcomes(mount) :
       /\ mounted' = m.ok
       /\ faults' = IF m.hit THEN faults + 1 ELSE faults
  /\ UNCHANGED <<card, ram, file, path, fresh, hurt, promised, torn>>

\* SD.open; a File open for writing starts at the end.
Opened(m, p, oflag) ==
  Then(getParentDir(m, p.dir), LAMBDA d :
  Then(open(d, d.val, p.name, oflag), LAMBDA f :
  Then(IF p.dir = "/" THEN f ELSE Ignored(cacheFlush(f)), LAMBDA o :
       IF "WRITE" \in oflag THEN Ignored(seekSet(o, o.f.size)) ELSE o)))

OpenFile(p, oflag) ==
  /\ mounted /\ file = ClosedFile /\ Reachable(p)
  /\ \E m \in Outcomes(LAMBDA k : Opened(k, p, oflag)) :
       Leave([m EXCEPT !.f = IF m.ok THEN @ ELSE ClosedFile])
  /\ path' = IF file' = ClosedFile THEN NoPath ELSE p
  /\ UNCHANGED <<fresh, hurt, promised, torn>>

WriteFile(n) ==
  /\ file # ClosedFile /\ file.write /\ file.pos + n <= MaxCells
  /\ \E m \in Outcomes(LAMBDA k : write(k, path.name, n)) :
       /\ Leave(m)
       /\ IF file' = ClosedFile THEN FileGone
          ELSE /\ hurt' = (hurt \/ ~ m.ok)
               /\ fresh' = IF hurt' THEN fresh ELSE fresh \cup file.pos .. file.pos + n - 1
               /\ UNCHANGED path
  /\ UNCHANGED <<promised, torn>>

ReadFile ==
  /\ file # ClosedFile /\ file.pos < MaxCells
  /\ \E m \in Outcomes(readCell) : Leave(m)
  /\ IF file' = ClosedFile THEN FileGone ELSE UNCHANGED <<path, fresh, hurt>>
  /\ UNCHANGED <<promised, torn>>

Seek(position) ==
  /\ file # ClosedFile /\ (~ file.write \/ Backwards)
  /\ \E m \in Outcomes(LAMBDA k : seekSet(k, position)) : Leave(m)
  /\ IF file' = ClosedFile THEN FileGone ELSE UNCHANGED <<path, fresh, hurt>>
  /\ UNCHANGED <<promised, torn>>

\* File::flush and File::close; close frees the File whatever comes of it.
Flush(closes) ==
  /\ file # ClosedFile
  /\ \E m \in Outcomes(sync) :
       /\ Leave(IF closes THEN [m EXCEPT !.f = ClosedFile] ELSE m)
       /\ promised' = IF m.ok THEN [promised EXCEPT ![path] = @ \cup fresh] ELSE promised
       /\ IF file' = ClosedFile THEN FileGone
          ELSE fresh' = (IF m.ok THEN {} ELSE fresh) /\ UNCHANGED <<path, hurt>>
  /\ UNCHANGED torn

\* What walkPath does, with no File left open.
Walked(p, which) ==
  /\ mounted /\ file = ClosedFile /\ Reachable(p)
  /\ \E m \in Outcomes(LAMBDA k : walkPath(k, p, which)) :
       /\ Leave([m EXCEPT !.f = ClosedFile])
       /\ torn' = (torn \/ (which \in {"remove", "rmdir"} /\ m.hit))
  /\ UNCHANGED <<path, fresh, hurt>>

exists(p) == Walked(p, "pathExists") /\ UNCHANGED promised

mkdir(dir) == Walked([dir |-> "/", name |-> dir], "makeDirPath") /\ UNCHANGED promised

\* SD.remove and SD.rmdir.
Remove(p, which) ==
  /\ Walked(p, which)
  /\ promised' = [q \in Paths |-> IF q = p THEN {} ELSE promised[q]]

Next ==
  \/ begin
  \/ \E p \in Paths : \/ \E oflag \in {O_READ, FILE_WRITE} : OpenFile(p, oflag)
                      \/ exists(p)
                      \/ Remove(p, "remove")
  \/ \E n \in 1 .. Slots : WriteFile(n)
  \/ ReadFile
  \/ \E position \in 0 .. MaxCells : Seek(position)
  \/ \E closes \in BOOLEAN : Flush(closes)
  \/ \E dir \in Dirs : mkdir(dir) \/ Remove([dir |-> "/", name |-> dir], "rmdir")

Spec == Init /\ [][Next]_vars

-----------------------------------------------------------------------------
(* Properties. *)

\* The card, the cache and the open file; a clean cache holds what the card
\* holds, so nothing is ever read from a stale copy.
TypeOK ==
  /\ \A b \in {FatBlock, MirrorBlock} : card[b] \in [0 .. fatEnd -> {0} \cup 2 .. EOC]
  /\ ram.search \in 2 .. EOC
  /\ ram.mirror => ram.dirty /\ ram.cached = FatBlock
  /\ ram.cached \in Blocks /\ ~ ram.dirty => ram.buf = card[ram.cached]
  /\ file # ClosedFile =>
       /\ mounted /\ path \in Paths
       /\ file.first \in {0} \cup Clusters /\ file.cur \in {0} \cup 2 .. EOC
       /\ hurt \/ file.pos <= file.size

\* What sync() reported to be on the card is there and is found there after a
\* loss of power at any moment and after any error, as long as no removal was
\* cut short (SdFile.cpp:1043, "all modified data and directory fields to be
\* written to the storage device").
CellOnCard(e, i) ==
  LET cluster == Walk(card[FatBlock], e.first)[BlockIndex(i)]
  IN  IF cluster \in Clusters THEN card[cluster][Slot(i)] ELSE Junk

SyncedStays ==
  torn \/ \A p \in Paths, i \in UNION {promised[q] : q \in Paths} :
    i \in promised[p] => \E e \in Entries(p.dir) :
      /\ e.name = p.name /\ e.att = "file" /\ i < e.size
      /\ CellOnCard(e, i) = Data(p.name, i)

\* Chains belong to one entry each, reach as far as the entry's size and end;
\* and while no access has failed, what no entry owns is free.
Owners ==
  LET subs == {d \in Dirs : DirBlocks(d) # {}}
  IN  UNION {{<<dir, e>> : e \in {x \in Entries(dir) : x.att \in {"file", "dir"} /\ x.name \notin {".", ".."}}} :
               dir \in {"/"} \cup subs}

ClustersAccounted ==
  LET fat == card[FatBlock]
      Own(o) == Chain(fat, o[2].first)
  IN  \/ torn
      \/ /\ \A o \in Owners :
              /\ Own(o) # {} => ChainLength(fat, o[2].first) = Cardinality(Own(o))
              /\ o[2].size <= Slots * Cardinality(Own(o))
              /\ \A q \in Owners : q # o => Own(o) \cap Own(q) = {}
         /\ faults = 0 /\ file = ClosedFile =>
              {c \in Clusters : fat[c] # 0} = UNION {Own(o) : o \in Owners}

\* A call that changed the first table and met no fault has changed the second
\* one in the same way, so either may be lost.
TablesAgree ==
  [][card'[FatBlock] # card[FatBlock] /\ faults' = faults =>
       card'[MirrorBlock] = card'[FatBlock]]_vars
===============================================================================
