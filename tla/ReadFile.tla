------------------------------ MODULE ReadFile ------------------------------
(***************************************************************************)
(* fs/tslib/read_file.c: read_file_from_disk and everything it calls, run  *)
(* by a set of callers.  hello.c is one caller that makes its calls one    *)
(* after the other; every IRP_MJ_READ that reaches ReadRoutine in          *)
(* driver/Driver.cpp is a caller of its own.                               *)
(*                                                                         *)
(* The callers share the static variables of the two files: the position   *)
(* of the one open FILE, block_buf and block_bufp.  A step makes at most   *)
(* one access to them (two adjacent reads of one inode count as one).      *)
(***************************************************************************)
EXTENDS XfsImage

CONSTANTS
  Caller,     \* who calls read_file_from_disk
  Path,       \* the paths asked for: [abs, comps]
  Room,       \* the sizes passed in, in units
  Arena,      \* units of memory from mem on that the model shows
  Garbage,    \* the inodes that a unit of data may parse as
  Word,       \* 2^64: the width of size
  Overlap,    \* TRUE if a call may start while another is under way
  Faults      \* TRUE if fseek and fread may fail

Memory  == 0 .. Arena - 1
Buffer  == 0 .. BlockSize - 1
Code    == {0, -2, -3, -4, -5}
Running == 1

ASSUME CallerAssumption ==
  /\ Path \subseteq [abs : BOOLEAN, comps : Seq(Name)]
  /\ Room \subseteq 0 .. Word - 1
  /\ Arena \in Nat
  /\ Garbage \subseteq Inode /\ Garbage # {}
  /\ Word \in Nat \ {0}
  /\ Overlap \in BOOLEAN /\ Faults \in BOOLEAN

VARIABLES
  disk,        \* the image behind the FILE of syscall.c
  rootino,     \* static rootino, zero until init_read_file_from_disk
  pos,         \* position of that FILE
  block_buf,   \* static block_buf
  block_bufp,  \* static block_bufp, as an index of block_buf
  pc,          \* where each caller is
  frame,       \* the arguments and locals of its call
  mem,         \* the memory at its mem argument
  rc,          \* what its call returned, Running before that
  tainted      \* whether a seek or read failed during its call (history)

shared == <<disk, rootino, pos, block_buf, block_bufp>>
vars   == <<shared, pc, frame, mem, rc, tainted>>

Labels == {"start", "idle", "done", "next", "seek", "read", "reset", "skip", "take",
           "copy", "header", "scan", "open", "extent", "dseek", "dread"}

\* path and n are arguments; k is how many components file_name has passed,
\* last tells the second read_inode_relative from the one in the loop, and
\* idx is the entry or record that entptr or rec points to.
Frame == [path : [abs : BOOLEAN, comps : Seq(Name)], n : Nat, k : Nat, last : BOOLEAN,
          next_ino : Nat, raw : Nat, cur : Inode,
          tot : Nat, idx : Nat, irec : Extent, size : Nat]

ZeroEntry  == [name |-> Empty, ino |-> 0]
ZeroExtent == [off |-> 0, start |-> 0, count |-> 0, unwritten |-> FALSE]
ZeroInode  == [kind |-> "other", ox |-> FALSE, format |-> "dev", count |-> 0,
               i8count |-> 0, ents |-> << >>, size |-> 0, nextents |-> 0, exts |-> << >>]

\* What may lie where no entry and no record was put.
StrayEntries == {ZeroEntry} \cup UNION {{g.ents[x] : x \in 1 .. Len(g.ents)} : g \in Garbage}
StrayExtents == {ZeroExtent} \cup UNION {{g.exts[x] : x \in 1 .. Len(g.exts)} : g \in Garbage}

\* What a unit reads as when it is taken for an inode, and what the bytes at
\* place x of its literal area are taken for as an entry and as a record.
Parse(u) == IF u \in Inode THEN {u} ELSE IF u = Zero THEN {ZeroInode} ELSE Garbage
EntryAt(i, x)  == IF x \in 1 .. Len(i.ents) THEN {i.ents[x]} ELSE StrayEntries
ExtentAt(i, x) == IF x \in 1 .. Len(i.exts) THEN {i.exts[x]} ELSE StrayExtents

\* The inode that raw points to; it may point past the end of block_buf.
AtRaw(r) == IF frame[r].raw \in Buffer THEN Parse(block_buf[frame[r].raw]) ELSE Garbage

Under(r) == pc[r] \notin {"start", "idle", "done"}     \* a call is under way

Init ==
  /\ disk \in Images
  /\ rootino = 0 /\ pos = 0 /\ block_bufp = 0
  /\ block_buf = [j \in Buffer |-> Zero]
  /\ pc = [r \in Caller |-> "start"]
  /\ frame = [r \in Caller |->
       [path |-> [abs |-> TRUE, comps |-> << >>], n |-> 0, k |-> 0, last |-> FALSE,
        next_ino |-> 0, raw |-> 0, cur |-> ZeroInode,
        tot |-> 0, idx |-> 0, irec |-> ZeroExtent, size |-> 0]]
  /\ mem = [r \in Caller |-> [j \in Memory |-> Blank]]
  /\ rc = [r \in Caller |-> Running]
  /\ tainted = [r \in Caller |-> FALSE]

Goto(r, l) == pc' = [pc EXCEPT ![r] = l]

\* The local variables of caller r change as f says; nothing else does.
Locals(r, f) == frame' = [frame EXCEPT ![r] = f]

\* The arguments and what the walk has come to are kept; the locals are gone.
Return(r, c) ==
  /\ Goto(r, "done")
  /\ rc' = [rc EXCEPT ![r] = c]
  /\ Locals(r, [frame[r] EXCEPT !.raw = 0, !.cur = ZeroInode, !.tot = 0, !.idx = 0,
                                !.irec = ZeroExtent, !.size = 0, !.last = FALSE])
  /\ UNCHANGED <<shared, mem, tainted>>

(***************************************************************************)
(* Calls.  A caller runs init_read_file_from_disk before its first call;   *)
(* the driver runs it before every one.  hello.c clears tmp between its    *)
(* calls, and buff2 of ReadRoutine is a new array in each.                 *)
(***************************************************************************)
InitReadFile(r) ==
  /\ pc[r] \in {"start", "done"}
  /\ Goto(r, "idle")
  /\ rootino' = disk.root
  /\ UNCHANGED <<disk, pos, block_buf, block_bufp, frame, mem, rc, tainted>>

Call(r) ==
  /\ pc[r] \in {"idle", "done"}
  /\ Overlap \/ \A s \in Caller : ~ Under(s)
  /\ \E p \in Path, n \in Room :
       Locals(r, [path |-> p, n |-> n, k |-> 0, last |-> FALSE,
                  next_ino |-> rootino, raw |-> 0, cur |-> ZeroInode,
                  tot |-> 0, idx |-> 0, irec |-> ZeroExtent, size |-> n])
  /\ Goto(r, "next")
  /\ mem' = [mem EXCEPT ![r] = [j \in Memory |-> Blank]]
  /\ rc' = [rc EXCEPT ![r] = Running]
  /\ tainted' = [tainted EXCEPT ![r] = FALSE]
  /\ UNCHANGED shared

\* WRONG: the test for the slash is left out.
NextComponentRelative(r) ==
  /\ pc[r] = "next"
  /\ Goto(r, "seek")
  /\ Locals(r, [frame[r] EXCEPT !.last = frame[r].k = Len(frame[r].path.comps)])
  /\ UNCHANGED <<shared, mem, rc, tainted>>

\* The head of the loop over the path: a relative path is refused, and at the
\* end of the path the inode is read once more for its contents.
NextComponent(r) ==
  /\ pc[r] = "next"
  /\ LET f    == frame[r]
         more == f.k < Len(f.path.comps)
     IN IF more /\ ~ f.path.abs
        THEN Return(r, -3)
        ELSE /\ Goto(r, "seek")
             /\ Locals(r, [f EXCEPT !.last = ~ more])
             /\ UNCHANGED <<shared, mem, rc, tainted>>

\* WRONG: seek_file_cur in place of seek_file_set.
SeekFromHere(r, there, to) ==
  /\ Goto(r, to)
  /\ \/ pos' = pos + there /\ tainted' = tainted
     \/ Faults /\ pos' = pos /\ tainted' = [tainted EXCEPT ![r] = TRUE]
  /\ UNCHANGED <<disk, rootino, block_buf, block_bufp, frame, mem, rc>>

(***************************************************************************)
(* seek_file_set and read_file.  A read at the end of the image transfers  *)
(* what there is; one that fails transfers some prefix.  Nobody looks at   *)
(* the result of either, so a failure shows in what follows only.          *)
(***************************************************************************)
Seek(r, there, to) ==
  /\ Goto(r, to)
  /\ \/ pos' = there /\ tainted' = tainted
     \/ Faults /\ pos' = pos /\ tainted' = [tainted EXCEPT ![r] = TRUE]
  /\ UNCHANGED <<disk, rootino, block_buf, block_bufp, frame, mem, rc>>

\* The units of dst after n units were read from the current position to dst[to].
Fill(dst, to, n) ==
  [j \in DOMAIN dst |-> IF j - to \in 0 .. n - 1 /\ pos + j - to \in Address
                        THEN disk.units[pos + j - to] ELSE dst[j]]

\* n units are asked for and m arrive, unless the image ends before that.
Arrive(r, n, m) ==
  /\ \/ m = n /\ tainted' = tainted
     \/ Faults /\ m \in 0 .. n - 1 /\ tainted' = [tainted EXCEPT ![r] = TRUE]
  /\ pos' = IF pos + m <= ImageSize THEN pos + m ELSE IF pos > ImageSize THEN pos ELSE ImageSize

(***************************************************************************)
(* read_inode_relative: cache_block_from_disk, two calls of init_mem, and  *)
(* xfs_dinode_from_disk.                                                   *)
(***************************************************************************)
InodeBlock(ino) == (ino \div BlockSize) + (AgBlocks * disk.seqno)

SeekInode(r) ==
  /\ pc[r] = "seek"
  /\ Seek(r, InodeBlock(frame[r].next_ino) * BlockSize, "read")

ReadBlock(r) ==
  /\ pc[r] = "read"
  /\ Goto(r, "reset")
  /\ \E m \in 0 .. BlockSize :
       Arrive(r, BlockSize, m) /\ block_buf' = Fill(block_buf, 0, m)
  /\ UNCHANGED <<disk, rootino, block_bufp, frame, mem, rc>>

\* WRONG: block_bufp goes on from where the last inode ended.
ResetBufForgotten(r) ==
  /\ pc[r] = "reset"
  /\ Goto(r, "skip")
  /\ UNCHANGED <<shared, frame, mem, rc, tainted>>

ResetBuf(r) ==
  /\ pc[r] = "reset"
  /\ Goto(r, "skip")
  /\ block_bufp' = 0
  /\ UNCHANGED <<disk, rootino, pos, block_buf, frame, mem, rc, tainted>>

\* WRONG: the inode number is not masked.
SkipUnmasked(r) ==
  /\ pc[r] = "skip"
  /\ Goto(r, "take")
  /\ block_bufp' = block_bufp + frame[r].next_ino
  /\ UNCHANGED <<disk, rootino, pos, block_buf, frame, mem, rc, tainted>>

SkipToInode(r) ==
  /\ pc[r] = "skip"
  /\ Goto(r, "take")
  /\ block_bufp' = block_bufp + (frame[r].next_ino % BlockSize)
  /\ UNCHANGED <<disk, rootino, pos, block_buf, frame, mem, rc, tainted>>

TakeInode(r) ==
  /\ pc[r] = "take"
  /\ Goto(r, "copy")
  /\ Locals(r, [frame[r] EXCEPT !.raw = block_bufp])
  /\ block_bufp' = block_bufp + 1
  /\ UNCHANGED <<disk, rootino, pos, block_buf, mem, rc, tainted>>

\* cur is the copy; what follows looks at it before it looks at raw again.
CopyInode(r) ==
  /\ pc[r] = "copy"
  /\ \E i \in AtRaw(r) :
       IF IF frame[r].last THEN ~ i.ox /\ i.format = "extents" ELSE LocalDir(i)
       THEN /\ Goto(r, IF frame[r].last THEN "open" ELSE "header")
            /\ Locals(r, [frame[r] EXCEPT !.cur = i])
            /\ UNCHANGED <<shared, mem, rc, tainted>>
       ELSE Return(r, -3)

(***************************************************************************)
(* One round of the loop over the path, after the inode was read.          *)
(***************************************************************************)
\* WRONG: the scan makes one round too many.
ReadHeaderOneMore(r) ==
  /\ pc[r] = "header"
  /\ \E i \in AtRaw(r) :
       IF (i.count = 0) # (i.i8count = 0)
       THEN /\ Goto(r, "scan")
            /\ Locals(r, [frame[r] EXCEPT !.tot = i.count + i.i8count + 1, !.idx = 1])
            /\ UNCHANGED <<shared, mem, rc, tainted>>
       ELSE Return(r, -2)

ReadHeader(r) ==
  /\ pc[r] = "header"
  /\ \E i \in AtRaw(r) :
       IF (i.count = 0) # (i.i8count = 0)
       THEN /\ Goto(r, "scan")
            /\ Locals(r, [frame[r] EXCEPT !.tot = i.count + i.i8count, !.idx = 1])
            /\ UNCHANGED <<shared, mem, rc, tainted>>
       ELSE Return(r, -2)

\* An empty component ends where it begins, which the test for a match after
\* the loop takes for one.
ScanEntry(r) ==
  /\ pc[r] = "scan"
  /\ LET f == frame[r]
         name == f.path.comps[f.k + 1]
         Descend(ino) == /\ Goto(r, "next")
                         /\ Locals(r, [f EXCEPT !.k = @ + 1, !.next_ino = ino])
                         /\ UNCHANGED <<shared, mem, rc, tainted>>
     IN IF f.tot = 0
        THEN IF name = Empty THEN Descend(f.next_ino) ELSE Return(r, -4)
        ELSE \E i \in AtRaw(r) : \E e \in EntryAt(i, f.idx) :
               IF e.name = name
               THEN Descend(e.ino)
               ELSE /\ Locals(r, [f EXCEPT !.tot = @ - 1, !.idx = @ + 1])
                    /\ UNCHANGED <<shared, pc, mem, rc, tainted>>

(***************************************************************************)
(* The contents: the room is checked once, and then every extent record    *)
(* is decoded and read to mem + br_startoff.                               *)
(***************************************************************************)
Opened(r, i, tot) ==
  /\ Goto(r, "extent")
  /\ Locals(r, [frame[r] EXCEPT !.size = i.size, !.tot = tot, !.idx = 1])
  /\ UNCHANGED <<shared, mem, rc, tainted>>

\* WRONG: the room is not checked; a file that just fits is refused; the last
\* record is left out.
OpenFileUnchecked(r) ==
  pc[r] = "open" /\ \E i \in AtRaw(r) : Opened(r, i, i.nextents)

OpenFileTight(r) ==
  /\ pc[r] = "open"
  /\ \E i \in AtRaw(r) :
       IF frame[r].size <= i.size THEN Return(r, -5) ELSE Opened(r, i, i.nextents)

OpenFileOneLess(r) ==
  /\ pc[r] = "open"
  /\ \E i \in AtRaw(r) :
       IF frame[r].size < i.size THEN Return(r, -5) ELSE Opened(r, i, i.nextents - 1)

\* (tot is an int: XFS counts no more than 2^31 - 1 extents in a fork.)
OpenFile(r) ==
  /\ pc[r] = "open"
  /\ \E i \in AtRaw(r) :
       IF frame[r].size < i.size THEN Return(r, -5) ELSE Opened(r, i, i.nextents)

\* WRONG: neither tot nor rec moves on.
ReadExtentAgain(r) ==
  /\ pc[r] = "extent"
  /\ IF frame[r].tot = 0
     THEN Return(r, 0)
     ELSE /\ Goto(r, "dseek")
          /\ \E i \in AtRaw(r) : \E x \in ExtentAt(i, frame[r].idx) :
               Locals(r, [frame[r] EXCEPT !.irec = x])
          /\ UNCHANGED <<shared, mem, rc, tainted>>

ReadExtent(r) ==
  /\ pc[r] = "extent"
  /\ IF frame[r].tot = 0
     THEN Return(r, 0)
     ELSE /\ Goto(r, "dseek")
          /\ \E i \in AtRaw(r) : \E x \in ExtentAt(i, frame[r].idx) :
               Locals(r, [frame[r] EXCEPT !.irec = x, !.tot = @ - 1, !.idx = @ + 1])
          /\ UNCHANGED <<shared, mem, rc, tainted>>

SeekData(r) ==
  /\ pc[r] = "dseek"
  /\ Seek(r, frame[r].irec.start * BlockSize, "dread")

\* The int x of read_file_length, as the size_t that fread takes it for.
AsSize(x) == IF 2 * x < IntWord THEN x ELSE (x - IntWord) % Word

\* read_blocks returns what it meant to ask for, modulo 2^32 if that is the
\* whole extent; a size of zero means the whole extent.
ReadData(r) ==
  /\ pc[r] = "dread"
  /\ Goto(r, "extent")
  /\ LET f     == frame[r]
         whole == f.irec.count * BlockSize
         some  == f.size # 0 /\ f.size < whole % IntWord
         n     == IF some THEN AsSize(f.size) ELSE whole
         took  == IF some THEN f.size ELSE whole % IntWord
     IN /\ \E m \in 0 .. n :
             /\ Arrive(r, n, m)
             /\ mem' = [mem EXCEPT ![r] = Fill(mem[r], f.irec.off, m)]
        /\ Locals(r, [f EXCEPT !.size = (@ - took) % Word])
  /\ UNCHANGED <<disk, rootino, block_buf, block_bufp, rc>>

Work(r) ==
  \/ NextComponent(r) \/ SeekInode(r) \/ ReadBlock(r) \/ ResetBuf(r) \/ SkipToInode(r)
  \/ TakeInode(r) \/ CopyInode(r) \/ ReadHeader(r) \/ ScanEntry(r)
  \/ OpenFile(r) \/ ReadExtent(r) \/ SeekData(r) \/ ReadData(r)

Next == \E r \in Caller : InitReadFile(r) \/ Call(r) \/ Work(r)

Spec     == Init /\ [][Next]_vars
FairSpec == Spec /\ \A r \in Caller : WF_vars(Work(r))

-----------------------------------------------------------------------------
(***************************************************************************)
(* Properties.                                                             *)
(***************************************************************************)
TypeOK ==
  /\ disk \in Images
  /\ rootino \in Nat /\ pos \in Nat /\ block_bufp \in Nat
  /\ block_buf \in [Buffer -> Unit]
  /\ pc \in [Caller -> Labels]
  /\ frame \in [Caller -> Frame]
  /\ mem \in [Caller -> [Memory -> Unit \cup {Blank}]]
  /\ rc \in [Caller -> Code \cup {Running}]
  /\ tainted \in [Caller -> BOOLEAN]

\* No seek or read has failed in the latest call of r, on a supported image.
Clean(r) == Supported(disk) /\ ~ tainted[r]

Parsed == {"header", "scan", "open", "extent", "dseek", "dread"}  \* cur is set

\* The inode copied out of block_buf is the one that next_ino names, until the
\* call is over: neither an earlier call nor what the buffer held before it
\* shows through (read_inode_relative, read_file.c 127-143).
ParsedIsAsked ==
  \A r \in Caller : Clean(r) /\ pc[r] \in Parsed =>
    /\ frame[r].raw \in Buffer
    /\ block_buf[frame[r].raw] = InodeAt(disk, frame[r].next_ino)
    /\ frame[r].cur = InodeAt(disk, frame[r].next_ino)

\* While the path is walked, next_ino is where the components passed so far
\* lead in the directories of the image (the loop at read_file.c 202-277).
WalkFollowsPath ==
  \A r \in Caller : Clean(r) /\ (Under(r) \/ pc[r] = "done") =>
    Resolves(disk, frame[r].path.comps, frame[r].k, frame[r].next_ino)

\* What a call returns is right by the image: 0 with exactly the contents of
\* the regular file the path names, -4 for a name its directory does not hold,
\* -5 for a file larger than the room, -2 and -3 for what is not supported.
\* A failed seek or read in one call does not reach into a later one.
AnswerIsRight ==
  \A r \in Caller : pc[r] = "done" /\ Clean(r) =>
    Answer(disk, frame[r].path, frame[r].n, rc[r], mem[r])

\* Nothing past the size the caller passed in is written, during the call or
\* after it (the check at read_file.c 297-300).
StaysInRoom ==
  \A r \in Caller : Clean(r) => \A j \in Memory : j >= frame[r].n => mem[r][j] = Blank

(***************************************************************************)
(* Why these hold when calls do not overlap: the invariant of a call, in   *)
(* parts.  i is the inode that the call is at.                             *)
(***************************************************************************)
OneAtATime == \A r, q \in Caller : Under(r) /\ Under(q) => r = q
Rooted     == \A r \in Caller : pc[r] # "start" => rootino = disk.root

Here(r)    == InodeAt(disk, frame[r].next_ino)
Sought(r)  == frame[r].path.comps[frame[r].k + 1]
BlockAt(r) == (frame[r].next_ino \div BlockSize) * BlockSize
Untouched(r) == \A j \in Memory : mem[r][j] = Blank

WalkPart(r) ==
  LET f == frame[r] IN
  /\ f.k \in 0 .. Len(f.path.comps)
  /\ f.next_ino \in Named(disk) /\ InFirstGroup(disk, f.next_ino)
  /\ Walked(disk, f.path, f.k, f.next_ino)

PhasePart(r) ==
  LET f == frame[r] IN
  /\ pc[r] # "next" => IF f.last THEN f.k = Len(f.path.comps)
                       ELSE f.k < Len(f.path.comps) /\ f.path.abs
  /\ pc[r] \in {"header", "scan"} => ~ f.last /\ LocalDir(Here(r))
  /\ pc[r] \in {"open", "extent", "dseek", "dread"} =>
       f.last /\ Here(r).format = "extents" /\ ~ Here(r).ox

BufferPart(r) ==
  LET slot == frame[r].next_ino % BlockSize IN
  /\ pc[r] = "read" => pos = BlockAt(r)
  /\ pc[r] \in {"reset", "skip", "take", "copy"} \cup Parsed =>
       \A j \in Buffer : block_buf[j] = disk.units[BlockAt(r) + j]
  /\ pc[r] = "skip" => block_bufp = 0
  /\ pc[r] = "take" => block_bufp = slot
  /\ pc[r] \in {"copy"} \cup Parsed => frame[r].raw = slot
  /\ pc[r] \in Parsed => frame[r].cur = Here(r)

ScanPart(r) ==
  LET f == frame[r] IN
  pc[r] = "scan" =>
    /\ Here(r).count > 0 /\ f.idx >= 1 /\ f.tot + f.idx = Here(r).count + 1
    /\ \A j \in 1 .. f.idx - 1 : Here(r).ents[j].name # Sought(r)

\* The memory holds nothing until the one extent, if there is one, is read.
FilePart(r) ==
  LET f == frame[r]  i == Here(r) IN
  /\ pc[r] # "extent" => Untouched(r)
  /\ pc[r] \notin {"extent", "dseek", "dread"} => f.size = f.n
  /\ pc[r] \in {"extent", "dseek", "dread"} => i.size <= f.n
  /\ pc[r] = "extent" =>
       \/ f.idx = 1 /\ f.tot = Len(i.exts) /\ f.size = i.size /\ Untouched(r)
       \/ f.tot = 0 /\ Holds(disk, f.next_ino, f.n, mem[r])
  /\ pc[r] \in {"dseek", "dread"} =>
       f.tot = 0 /\ Len(i.exts) = 1 /\ f.irec = i.exts[1] /\ f.size = i.size
  /\ pc[r] = "dread" => pos = i.exts[1].start * BlockSize

CallPart(r) == WalkPart(r) /\ PhasePart(r) /\ BufferPart(r) /\ ScanPart(r) /\ FilePart(r)

AnswerPart(r) ==
  IF rc[r] = Running THEN Untouched(r)
  ELSE Answer(disk, frame[r].path, frame[r].n, rc[r], mem[r])

\* A call that is over has come to the file it gives.
DonePart(r) ==
  LET f == frame[r] IN
  /\ rc[r] # Running /\ WalkPart(r)
  /\ rc[r] = 0 => Holds(disk, f.next_ino, f.n, mem[r])

CallOK(r) ==
  Clean(r) => IF Under(r) THEN rc[r] = Running /\ CallPart(r)
              ELSE AnswerPart(r) /\ (pc[r] = "done" => DonePart(r))

IInv == TypeOK /\ OneAtATime /\ Rooted /\ \A r \in Caller : CallOK(r)

(***************************************************************************)
(* Statements of the sources that do not hold of every image XFS writes.   *)
(***************************************************************************)
Answered(r) == pc[r] = "done" /\ rc[r] = 0 /\ ~ tainted[r]

\* After the check against "No enough space" (read_file.c 297-300), the room the
\* caller gave is enough, on any image.
RoomSuffices ==
  \A r \in Caller : ~ tainted[r] => \A j \in Memory : j >= frame[r].n => mem[r][j] = Blank

\* br_startoff is a "block number in a file" (xfs_types.h 100): the block an
\* extent holds is found that many blocks into what the call returns.
FileBlocksInPlace ==
  \A r \in Caller : Answered(r) =>
    LET i == InodeAt(disk, frame[r].next_ino) IN
    \A j \in Memory : j < i.size => Contains(disk, i, j, mem[r][j])

\* The abstract service, seen from here: a caller is busy while a call is under
\* way, and sees the memory and the code when it returns.
Service == INSTANCE ReadService WITH
  Promised <- Supported,
  Right <- Answer,
  state   <- [r \in Caller |-> IF Under(r) THEN "asked"
                               ELSE IF pc[r] = "done" THEN "answered" ELSE "free"],
  request <- [r \in Caller |-> [path |-> frame[r].path, n |-> frame[r].n]],
  code    <- [r \in Caller |-> IF pc[r] = "done" THEN rc[r] ELSE Running],
  out     <- [r \in Caller |-> IF pc[r] = "done" THEN mem[r] ELSE [j \in Memory |-> Blank]]

\* Calls that do not overlap and whose seeks and reads succeed are calls of the
\* abstract service (hello.c, which makes one call after the other).
ImplementsService == Service!Spec

\* A call returns, whatever the other callers do to the block it parses and
\* whatever fails.
CallsReturn == \A r \in Caller : Under(r) ~> ~ Under(r)

=============================================================================
