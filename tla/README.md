# A model of the xfsd reader in TLA+

xfsd is the beginning of a read-only XFS driver for Windows ("Write/Port a
readonly driver of XFS for windows", `README`). Its own code opens an image of an
XFS file system, walks a path through short-form directories and copies a file
whose extents are listed in its inode to the caller's memory; a device driver runs
this for its read requests. Beside it are pieces cut out of the Linux sources (the
code of short-form directories and of the block map's records and root), a copy of
Linux's red-black tree, and a minifilter. This directory models these parts,
model-checks them with TLC on small instances, and proves with TLAPS, for every value of
the constants, all the safety properties that the runs check of each of them.

## The system

| Part | Source | State | Operations |
|---|---|---|---|
| path walk and file read | `fs/tslib/read_file.c` | `rootino`, `agi_root`, `block_buf`, `block_bufp`, all static | `init_read_file_from_disk`, `read_file_from_disk` (over `read_inode_relative`, `cache_block_from_disk`, `init_mem`, `read_blocks`) |
| system calls | `fs/tslib/syscall.c` | one static `FILE *`, with its position | open, read, write, seek, and wrappers of libc |
| super block and group headers | `fs/tslib/read_super.c` | `sb`, `dsb`, `agf`, `agi`, `agfl` | `init`, getters, `get_agf_free_block` |
| extent record codec | `fs/xfsd_bmap_btree.c` | none | packing and unpacking of 128-bit extent records, keys, sizes of nodes |
| short-form directory | `fs/xfsd_dir2_sf.c` | the bytes of a directory | entry numbers, sizes, where a name may be added, a check |
| byte and division helpers | `fs/xfsd_asm.h` | none | unaligned big-endian access, `do_div`, rounding |
| red-black tree | `fs/linux/rbtree.c` | a tree of nodes | insert, erase, replace, first, last, next, previous, augment |
| client | `fs/hello.c` | a buffer `tmp` | two reads, one after the other |
| device driver | `driver/Driver.cpp` | a device and its extension | create, read, write and other requests, unload |
| minifilter | `driver/passThroughfilter.c` | `OperationStatusCtx`, the filter handle | pre, post and status callbacks, instance setup and teardown, unload |
| dialog | `UI2/` | windows | a user interface, beside older copies of `fs/` |
| Linux XFS | `fs/xfs/` | - | vendored; its headers give the on-disk structures |

`hello.c` and `Driver.cpp` call `init_read_file_from_disk` and then
`read_file_from_disk`. That function reads one inode for each component of the
path and one more for the file; each read fills the shared `block_buf` through
the shared position of the `FILE`, and returns a pointer into the buffer, which
the function goes on reading (`hdrptr`, `entptr`, `rec`) while it works. The
extents of the file are read straight into the caller's memory.

What is hard in this code:

- **Shared statics.** `block_buf`, `block_bufp` and the position belong to the
  program, not to a call. `hello.c` makes one call at a time; the driver serves
  each `IRP_MJ_READ` in the thread that brings it and takes no lock.
- **Errors nobody looks at** (`read_file.c` 98). After a failed seek or read the walk
  parses what the buffer held before.
- **What the image says steers every loop:** the counts of a directory, the count
  of extents, the sizes and offsets.
- **Boundaries:** a size that counts down to zero changes its meaning in
  `read_blocks`; block offsets are added to byte pointers; the first group only.

- **Two representations that must change together.** A short directory's `i8count`,
  its size, the width of every number and the offsets each name would have in a
  block; a block map root's record count, the size of its buffer and where its
  pointers are; a red-black tree's links in both directions, colours and augmented
  data.
- **Fields across words:** the start block of an extent record is in both words, and
  builds with 32-bit block numbers widen a delayed allocation's.
- **Callbacks and completion:** a request of the driver and an operation of the
  minifilter are ended by steps that others take.

What makes each part correct: the walk ends at the inode the path names; a call
returns the file's contents or the right error and writes nothing past the
caller's size; one call does not show through in the next; every call returns; a
request of the driver is completed, and loading or unloading leaves nothing
behind. A record is its four fields. A root leads to its leaves wherever its
pointers were moved. A directory is the set of names put into it, packed so that
it can become a block, with offsets that stay; a readdir tells what was there. The
tree is an ordered, balanced set. No callback is due to a filter that is gone.

## The modules

| Module | What it holds |
|---|---|
| `XfsImage` | the image: units, inodes, entries, extents; what a path names, what a file contains, which images the reader supports, which answers are right (`Answer`) |
| `ReadService` | the abstract service: a call is asked and, in one step, answered rightly |
| `ReadFile` | `read_file_from_disk`, step by step, for several callers |
| `Driver` | the device driver: extends `ReadFile`, whose calls its read requests make |
| `MCReadFile`, `MCDriver` | images, paths and sizes for TLC |
| `DriverProofs` | lemmas about the image (division, places of inodes, a path grown by a component, the contents of a file of one extent); the reader's inductive invariant, its theorems, and that it implements `ReadService`; then what a request answers and what the driver leaves |
| `Directory` | an abstract directory: a number for each name, and a parent |
| `ShortDir`, `MCShortDir` | a short-form directory and the block it may become; implements `Directory` |
| `ReadDir`, `MCReadDir` | extends `ShortDir` by a readdir in several calls |
| `SequenceLemmas` | joining, cutting, inserting into and removing from sequences, and least numbers; used by the proofs about the root, short directories and the tree |
| `ShortDirProofs` | what the operations do to the offsets, the counts and the bytes of a directory, and the theorems about it and about a readdir |
| `ExtentFields` | an abstract extent record in memory and one on disk: four fields each |
| `BmbtRecord`, `MCBmbtRecord` | the records word by word; implements `ExtentFields` |
| `BmbtRecordProofs` | numbers made of a high and a low part, the getters and setters, and that the words implement the fields |
| `BmapRoot`, `MCBmapRoot` | the root of a block map in the inode, over one level of blocks |
| `BmapRootProofs` | sequences of keys, what the buffer holds after each operation on it, the root as a sequence of children, and the theorems |
| `OrderedSet` | an abstract set of nodes with distinct keys |
| `RbTree`, `MCRbTree` | the red-black tree; implements `OrderedSet` |
| `RbTreeProofs` | what each assignment and each recursive definition does to the shape and the colours of a tree, the inductive invariant, and links, order, colours and the refinement |
| `RbTreeCallProofs` | the walks, the augmented data, the types, and that calls end; extends the module above |
| `PassThrough` | the minifilter against the filter manager |
| `PassThroughProofs` | the stages of an operation and of unloading |

### From code to `ReadFile`

| Variable | Code |
|---|---|
| `disk` | the image behind `file` of `syscall.c`, with `sb_rootino` and `agi_seqno` as `init` read them |
| `pos` | the position of that `FILE` |
| `rootino`, `block_buf`, `block_bufp` | the statics of `read_file.c` 72-75; `block_bufp` is an index |
| `frame[r]` | arguments and locals of the call of `r`: `path` and `n` are `file_name` and `size` as passed, `k` the components `file_name` is past, `raw` the pointer into `block_buf`, `tot`, `idx` (which entry or record), `irec`, `size` |
| `mem[r]`, `rc[r]` | the memory at `mem`, and the result |
| `pc[r]` | where the call is |
| `tainted[r]` | history: a seek or read of this call failed |

| Action | Code (`read_file.c` unless said) |
|---|---|
| `InitReadFile`, `Call` | 77-81; the entry of 185-200 as `hello.c` 33-39 and `ReadRoutine` make it |
| `NextComponent` | the head of the loop, 202-211, and the way out of it to 281 |
| `SeekInode`, `ReadBlock` | 128-136, 101, 92, `read_file_length` (`syscall.c` 64-68) |
| `ResetBuf`, `SkipToInode`, `TakeInode` | 102, 137-139, 140 with `init_mem` 106-112 |
| `CopyInode` | 141-143, and the tests of `cur` at 218-224 or 283-289 |
| `ReadHeader` | 227-234, 263 |
| `ScanEntry` | a round of 245-255, and 256-259 |
| `OpenFile` | 295-304 |
| `ReadExtent` | the head of a round, 306-310, and 326 |
| `SeekData`, `ReadData` | 83-96 and 314, with `read_file_length` |

A step makes one access to the shared state; where `read_file_from_disk` reads two
fields of one inode in a row (the two counts of a header; `di_nextents` and
`di_size`) that is one step. The directories' and extents' fields are read through
`raw` again at each later step, as in the code, and so show what another call has
put in the block since.

The data are abstract:

- A *unit* is `sb_inodesize` bytes: it is an inode, or a block's share of file
  data. Offsets, sizes and positions count units; a block is `BlockSize` of them.
  `br_startoff`, which the code adds to a byte pointer, is added as so many units;
  that it is a number of *blocks* is what the two are told apart by.
- A path is its components and whether it begins with a slash; a name is a model
  value. `Empty` is the component between two slashes, which the code takes for a
  match at once or at the end of the scan (`file_name != tail` is false).
- The literal area of a directory parses to a sequence of entries: the live ones
  and those left over behind them; of a file it parses to a sequence of extents, of
  which `nextents`, a field of its own, says how many there are. What is behind the
  last of either is any entry or extent of a set, zero among them (`StrayEntries`,
  `StrayExtents`): only a block that another call has overwritten leads there. How
  wide the entries are is not modelled.
- The units a pointer past the block leads to, and data taken for an inode, parse
  as any inode of the constant set `Garbage`.
- `cur.di_mode & S_IFMT != S_IFREG` (283) is what C makes of it: the bit
  `S_IXOTH`. `raw` is never NULL, so -1 is never returned.
- `size` is a number modulo `Word` (2^64), and `sb_blocksize * nmeb` modulo
  `IntWord` (2^32), as in the code; the `int` that `read_file_length` takes of a size
  is widened with its sign when `fread` gets it (`AsSize`). `tot` is an `int` too, and
  XFS counts at most 2^31 - 1 extents in a fork, so `nextents` is not negative.
- Not modelled: blocks larger than the 4096 bytes of `block_buf`, offsets past 2
  GB (`long` on Windows), inode numbers from 2^32 on (the parameter of
  `read_inode_relative` is `xfs_agino_t`), sizes of `init_mem` past `int`,
  `eprint`, and the fields of an inode that nothing looks at.

`Seek` may leave the position alone and a read may stop short when `Faults` holds,
and both set `tainted`. A read at the end of the image stops there in any case.

### Which images

`Supported` says what the reader promises to handle: everything it follows lies in
the first group ("Only dealing with the inode in the first AG!!", 124), an empty
directory has no wide numbers, and a file it opens has no extent, or one that
starts at zero, was written and holds the whole file, which is shorter than 2 GB (the
length that `read_file_length` is passed is an `int`), in less than 4 GB. On
other images the statements of the sources fail: two runs show how. A third case
has no run: a directory with a count of zero and a parent past 2^32 makes the scan
go one round (`count + i8count`, 234) and find what a removed entry left.

### From code to `Driver`

| Variable | Code (`Driver.cpp`) |
|---|---|
| `loaded`, `device`, `link`, `handle` | `DriverEntry` succeeded; `\Device\XFSDevice` and `\??\XFSD` exist; somebody has the device open |
| `irp[r]` | the request of thread `r`: where it is, `Parameters.Read.Length`, `IoStatus.Information`, the system buffer |
| `alone[r]` | history: the read of `r` overlapped no other |

`DriverEntry` is 18-48 with `CreateDevice` (58-99: three outcomes),
`HelloDDKUnload` 109-129; it takes the static variables of `ReadFile` along.
`ReadRoutine` is `Accept` (184-199), `Prepare` (201), `Start` (202), the steps of
`ReadFile` and `Complete` (205-223); `Create`, `Close` and `WriteRoutine` are 140-173.
The I/O manager's part is in the guards: one handle at a time (the device is
exclusive), requests through it, no close before they are complete, unload when it
is closed. Two things cannot be modelled further: `addr` is never assigned, so the
path is any of `Path`, and a length past the 10240 bytes of `buff2` reads what is
behind it on the stack. That `init` was never called is left out: the image is open.

### From code to `ShortDir` and `ReadDir`

`dir` is one record for either form: the entries in order with the offset each has or
would have in a block, `i8count`, `di_size`, the parent, and of a block the tail's
count and stale. All sizes are the code's, in bytes; a name is a model value with a
length. A number of four bytes loses what is past `ShortMax`, which `PutIno` does, so
that a number written too narrow shows as a wrong number.

| Operator | Code |
|---|---|
| `Packed`, `Pick`, `CountsMatchBytes` and `OffsetsApart` | `xfs_dir2_block_sfsize`, `xfs_dir2_sf_addname_pick`, `xfs_dir2_sf_check` (`xfsd_dir2_sf.c` 150-345) |
| `ShortAdd`, `Insert`, `ShortFits`, `Widens` | `xfs_dir2_sf_addname`, `_easy`, `_hard` (`xfs/xfs_dir2_sf.c` 342-590) |
| `ShortRemove`, `ReplaceShort`, `ToIno4`, `ToIno8` | `xfs_dir2_sf_removename`, `_replace`, `_toino4`, `_toino8` |
| `ToBlock`, `ToShort` | `xfs_dir2_sf_to_block`, `xfs_dir2_block_to_sf` |
| `BlockAdd` with `Spots`, `BlockRemove`, `Put` | `xfs_dir2_block_addname`, `_removename`, `_replace` (`xfs/xfs_dir2_block.c`) |
| `GetDents` | `xfs_dir2_sf_getdents`, `xfs_dir2_block_getdents`, with the cookie in `scan` |

An operation holds the directory's lock in the code and so is one step; between two
calls of a readdir anything may happen. Where several holes of a block are as good
the model takes any. A directory that outgrows one block, the build without
`XFS_BIG_INUMS`, and a conversion that fails to get its block
(`xfs_dir2_sf_to_block` 1078-1090, when the inline data are gone already) are not
followed. Nor is a conversion to a block with offsets that were not stored: the code
would put every entry over the header of the block, so where `PutsOffset` is FALSE the
actions that call `ToBlock` are not enabled.

### From code to `BmbtRecord` and `BmapRoot`

A record is its two words, `l0` and `l1`, one in memory and one in disk order. Field
widths are constants, given as the number of values: `v << n` is a product modulo
the word, `v >> n` a quotient, the masks `Lo` and `Hi`. Each getter, setter, key
and comparison of `xfsd_bmap_btree.c` 52-587 has the operator its name suggests
(`SetAllF` is `xfs_bmbt_set_allf`, `StartBlockSet` `xfs_bmbt_set_startblock`); `big`
is the build. Callers keep to what the functions assert.

`broot` is `if_broot` with its size in bytes; its `area` is what is behind the header,
in units of eight bytes: keys, pointers, junk. `KeyAt` and `PtrAt` address it as
`XFS_BMBT_KEY_ADDR` and `XFS_BMAP_BROOT_PTR_ADDR` do, the pointers behind as many keys
as the size has room for. `Realloc` is `xfs_iroot_realloc` (`xfs_inode.c` 1785-1892),
`NewIroot` and `KillIroot` the functions of `xfs_btree.c`, `ToDisk` and `FromDisk`
`xfs_bmbt_to_bmdr` and `xfs_bmdr_to_bmbt`, `ToBtree`, `ToExtents` and `AddAttrFork` those of
`xfs_bmap.c`. A leaf is a key; how `xfs_btree.c` shares keys among the blocks below
the root (`Share`, splits, joins) is left open as far as the root does not see it.

| Variable | Code |
|---|---|
| `broot`, `fork` | `if_broot` with `if_broot_bytes`; the room of the fork in the inode |
| `below`, `ptrs` | the blocks of the one level below a root of level 2: the keys of each, and the pointer beside each key. `CopiedOut` is what `xfs_btree_new_iroot` copies to a new block, and a lifted level takes its pointers from `ptrs`; between blocks a pointer goes where its key goes |
| `dinode` | the fork on disk: its room, header, keys and pointers |
| `logged` | `XFS_ILOG_DBROOT` in the log flags: set by what touches the root, cleared by a flush, which writes the root only if it is set (`xfs_iflush_fork` 2201) |
| `clean` | history: nothing has changed since the last flush |
| `entries` | the leaves the file has |

`Reload` refuses a root that does not fit its fork, as `xfs_iformat_btree` does (603-613);
the number of extents that it also compares is not modelled.

### From code to `RbTree`

`heap` has `rb_root`, parent, colour and children of every node, `aug` the data that
`rb_augment_f` computes, here the number of nodes below, and `op` the call under way
with its locals. The code is written once for each side; a side is an argument here.
A round of `rb_insert_color`, `__rb_erase_color` or `rb_augment_path` is a step
(`InsertRecolour`, `InsertRotate`, `InsertDone`, `EraseRound`, `EraseDone`, `AugmentRound`,
`AugmentDone`); `UnlinkOne` and `UnlinkTwo` are the two cases of `rb_erase` 217-282. A user
who takes a node out initialises it again.

### From code to `PassThrough`

`image` and `filter` are what is loaded and what the manager has of it, `instance` the
one on the volume, `op[t]` the operation of thread `t` and the callbacks due for it.
Each routine of `passThroughfilter.c` has the action of its name; `DriverEntry` is
`FltRegisterFilter` and `FltStartFiltering`, each with its failure. The increment of
`OperationStatusCtx` is a load and a store. The manager is external: it calls the
post callback of an operation whose pre callback asked for it, the status callback if
the request for it was granted, in either order, and ends an instance and a filter
only when nothing is under way in them. An operation is `below` until the driver there
ends it (`CompleteBelow`), which may never happen: what the filter asks the status of
are oplocks and directory notifications (824-826), and these are pended until an event
comes (680-683). When an instance leaves, the manager ends what is still below it, and the post callback is called
with the operation marked as drained (`Drain`; `Flags`, 750).

The comment of `PtPreOperationNoPostOperationPassThrough` (780-784) says that it returns
`FLT_PREOP_SUCCESS_WITH_CALLBACK`; it returns `FLT_PREOP_SUCCESS_NO_CALLBACK` (812), and has
to, since its operation has no post callback in the table. The model follows the code,
and what the comment says is the wrong variant `NoPostWithCallback`, which breaks
`CallbacksHaveCode`.

## What is checked

The four runs of the reader and that of the driver use `MCReadFile`: blocks of two
units, a first group of six blocks (with block numbers 0-5) and a second one from
number 8, sixteen units in all, inodes 2-5, `Word` 64, `IntWord` 16, five units of
memory. Two units to a block give an inode a slot other than 0; six of eight block
numbers make numbers and blocks of the second group differ; five units of memory
show a write behind a file of three and a room of one or three; a file of three units
ends inside its second block. The callers are alike, so `sequential`, which has no
liveness property, uses their symmetry.

| Run | Setting | Shows |
|---|---|---|
| `sequential` | two callers, no overlap; four images (two levels, empty directory and file and an executable file, leftovers and a cycle, wide and block directory); paths of zero to three components, empty ones and a relative one; room 1 and 3 | `IInv`, `ParsedIsAsked`, `WalkFollowsPath`, `AnswerIsRight`, `StaysInRoom`, and that it implements `ReadService` |
| `faults` | one caller, any seek or read may fail, two images | `AnswerIsRight` for the calls in which none did; every call returns |
| `driver` | two threads whose reads may overlap, loading, unloading and failures to load, one image | `TypeOK` of `ReadFile` (no count drops below zero), `AloneReadsRight`, `NothingLeft`, `RequestsComplete` |
| `short_dir` | names of 1, 20 and 60 bytes, numbers 5, 15 and 16 where 9 is the last narrow one, 100 bytes in the inode, blocks of 216 | the eight properties of `ShortDir` and `ReadDir` |
| `tree` | nine keys, two of them with two nodes | the nine properties of `RbTree` |
| `bmbt` | offsets of 5 bits, block numbers of 7 in 2 and 5 (4 where narrow), counts of 3; each field at both ends and between, null start blocks of both kinds | the four properties of `BmbtRecord` |
| `root` | seven leaves, three keys in the root or two beside an attribute fork, four in a block | the four properties of `BmapRoot` |
| `filter` | two threads, three values of `OperationStatusCtx` | the two properties of `PassThrough` |
| `shared_block` | two callers at once | violates `ParsedIsAsked` |
| `preallocated` | a file with an extent behind its end | violates `RoomSuffices` |
| `two_extents` | a file of two extents | violates `FileBlocksInPlace` |
| `short_dir_put` | `PutsOffset` FALSE: `put_unaligned_be16` as it is written; names of four lengths | violates `OffsetsApart` |

Why the bounds are enough. `short_dir`: all three names fill a block exactly, so
holes, a block that is full, leaf entries that have to be compacted and names that
only fit after a removal all occur; in the inode the narrow form of the two longest
names fits to the byte (6 + 27 + 67 = 100), their wide one (112) and all three (108)
do not, and the shortest fits wide beside either, so that directories widen, narrow and change form; two wide
numbers tell a wide one replaced by a wide one from one that narrows. `tree`: nine
nodes are three black levels, so that an erase rebalances over more than one round
and uses each of its cases on both sides, also with a successor that is not the
child. `root`: four keys overflow the root into a block and up to seven give two
blocks, so that a level comes, is shared, joined and lifted, and an attribute fork
meets a root that fits (and whose pointers have another place on disk from then on),
one that does not, and one with a level below. `bmbt`: every
mask and shift of the code has a value on both sides of it. `filter`: the counter
wraps.

**Properties of the reader.** `TypeOK` includes that `tot` is never negative, which
`while (tot--)` depends on. `ParsedIsAsked`: from the copy to the end of the call, the
buffer and `cur` hold the inode that `next_ino` names. `WalkFollowsPath`: `next_ino` is
where the components passed so far lead *in the image*. `AnswerIsRight`: 0 comes with
exactly the contents, -4 for a name its directory does not hold, -5 for a file larger
than the room, -2 and -3 for what is not supported, and errors leave the memory
alone. `StaysInRoom`: nothing at or past the size passed in is written. `CallsReturn`: a
call under way comes to an end. `ImplementsService`: seen from outside, a call is one
answer, right by the image, and other callers notice nothing.

**Of the driver.** `AloneReadsRight`: whatever two overlapped reads left in the
statics, a later read that is alone is right. `RequestsComplete`: every request is
completed, also one whose block another keeps overwriting. `NothingLeft`: device, link
and driver come and go together.

**Of directories.** `OffsetsApart` and `CountsMatchBytes` are what `xfs_dir2_sf_check`
asserts, and of a block that entries stay off its leaf entries; `StaysInline`: the
room in the inode; `OffsetsStay`: a name keeps its offset through every conversion,
which cookies rely on; `ImplementsDirectory`: by name, an operation changes its one
entry; `TellsOnce`: what is there from the start of a scan to its end is told once;
`ScanEnds`.

**Of records and roots.** `ImplementsFields`: whatever was set before, a field reads as
last set and no setter touches another field, in both builds and byte orders;
`NarrowHolds`: what the code asserts of narrow block numbers; `LookupFinds`: records in
order have keys in order, and a search goes to the right one. `RootLeadsToLeaves`: every
leaf is reached once and in order, by the code's address arithmetic, also through a
block to which the root was copied; `RootFits`: the
assertions of `xfs_iroot_realloc`, `xfs_iflush_fork` and `xfs_bmap_btree_to_extents`;
`FlushedIsRead`: a flushed inode is read with the root it has in memory, so that no
step has forgotten to log it.

**Of the tree.** `LinksAgree`, `Ordered`, `BlacksAgree` and `RedsApart` hold at every step,
with one exception for the node the rebalancing is at; `WalksInOrder` and `AugmentRight`
between calls; `ImplementsSet`; `CallsEnd`: every round brings the call nearer to its end
by a measure in the natural numbers, so that it ends without any fairness.

**Of the filter.** `CallbacksHaveCode`: a driver that is out has no filter registered,
an operation in flight has an instance and a driver, and no post callback is due
where the table has none. `UnloadDrains`: once an instance leaves, each operation in
it gets its callbacks and is done, the pended ones too, the instance goes, and `PtUnload` returns.

**Violations.** Four statements of the sources are not what the code does; each run
shows one of them (PROJECT.json, "findings", quotes the lines): the block parsed is
not local to the call; the room checked is not the room used; the extents of a file
are laid out by block number and not by byte; the offset of a new directory entry is
not stored.

**Fairness.** `FairSpec` asks for weak fairness of each caller's `Work`: a thread in the
middle of a call is scheduled again, and no step of a call waits for anything (there
is no lock, and a failed or short transfer is a step as well). Nothing makes a caller
call, so `Call` and `InitReadFile` are not fair. `FairDriver` asks the same of the thread
of each request (`ReadRoutine`), and nothing of those who load, open, request or
close. `ScanSpec` asks weak fairness of `Read`: a reader that has not been told of the
end calls `getdents` again, with room for an entry. `PassThrough` asks it of the
callbacks of each thread's operation (a callback that is due is called, and each runs to
its end), and of the manager's own steps once an instance or the filter is ending,
draining among them: this is what it promises a filter
that waits in `FltUnregisterFilter`. It does not ask it of `CompleteBelow`: no operation
has to end by itself. `RbTree`, `BmbtRecord` and `BmapRoot` assume none.

**Wrong variants.** The operators marked WRONG, or as a bug, are variants of a
definition as a slip would make them (a pointer that is not reset, a mask forgotten, a
comparison or a count off by one, a test left out). Put in place of the definition, each
makes a property of the runs above fail.

## What is proved

Each theorem holds for every value of the constants that meets the assumptions of its
module. Assumptions are evaluated by TLC in the runs, and none says more than the
code gives: what a constant is, that the nodes of a tree are finitely many and of
integer keys, that what a request is answered with comes out of the
memory of its call, and four facts of the on-disk format: the widths of a record's fields fill its
words; a root has room for a key and, when full, fits in a block; the size of a block is
a multiple of eight; an inode has the ten bytes of an empty directory and a block the 72
of the entries `.` and `..` with their leaf entries and tail (the smallest inode is of
256 bytes, 100 of them header, and the smallest block of 512).

**The reader**, for any block size, image, names, paths, sizes and callers:

| Theorem | Statement |
|---|---|
| `TypeCorrect` | `Spec => []TypeOK`, with overlap and failures |
| `Invariance` | `Spec => []IInv` if calls do not overlap; failures may happen |
| `ParsedCorrect`, `WalkCorrect`, `AnswerCorrect`, `RoomCorrect` | the safety properties, under the same assumption |
| `Refinement` | `Spec => ImplementsService` if calls do not overlap and none fails |

`TypeCorrect` needs only the range of each helper. The safety properties are not
inductive: that a call answers rightly depends on what was in the buffer when the
directory was scanned, which depends on where the read began, which depends on the
inode the last component led to. `IInv` says this for each phase of a call:

- `OneAtATime`, `Rooted`: one call is under way, and the root is the image's;
- `WalkPart`: `k` components lead to `next_ino`, in the first group;
- `PhasePart`: whether this is the last inode, and that it passed the tests so far;
- `BufferPart`: after the seek the position, after the read the whole buffer, after
  the reset and the skip `block_bufp`, and then `raw` and `cur`, are those of the
  inode's block;
- `ScanPart`: `tot + idx = count + 1`, and no entry before `idx` has the name;
- `FilePart`: the memory is blank until the one extent is read, and right after;
- `AnswerPart`, `DonePart`: once it is over, the code and the memory are right, and
  `next_ino` still names the file that was read.

All but the first two speak of a call in which nothing failed yet, on a supported
image. Each action has a lemma (`SeekInodeInv` ... `ReadDataInv`), which asks only
that *this* call is alone; `StepKeeps` says a step changes nothing private to another
caller, and `IdleKept` that this is enough for a caller that is not in a call. That is
where `~ Overlap` is needed: a caller in the middle of one would depend on the
buffer. `Refinement` uses `CallOK` after the last step of a call for `Reply`, and that
no other step changes what the service shows.

**The driver**, whose calls may overlap, for any number of threads:

| Theorem | Statement |
|---|---|
| `DriverTypeCorrect` | `DriverSpec => []TypeOK`, with failures |
| `NothingIsLeft` | `DriverSpec => []NothingLeft`, with failures |
| `AloneIsAnswered` | `DriverSpec => []AloneReadsRight` where seeks and reads do not fail |

`DInv` has the invariant of a call for every caller that is *alone* (`Solo`: two of
them are never under way together), and of each request where its thread is
(`InStage`), that it is open while it is pending (`HasDevice`), and that what it hands
up is the front of its memory (`HandedUp`). A step of a caller that is not alone may
spoil the buffer, but then no caller under way is alone; a call that begins alone
begins with a read of the whole block, and needs nothing of what the statics held.

**The minifilter**: `CallbacksHold`, `Spec => []CallbacksHaveCode`, for any threads and
kinds of operation. Its invariant says which callbacks can be due at each stage of an
operation and which stages of driver, filter and instance go together.

**Extent records**, for any widths of the fields (with the real ones among them):

| Theorem | Statement |
|---|---|
| `WordsStayWords` | `Spec => []TypeOK` |
| `RecordsAreFields` | `Spec => ImplementsFields`: what was set is read, in both builds and byte orders, and no setter touches another field |
| `NarrowAlwaysHolds` | `Spec => []NarrowHolds` |
| `LookupAlwaysFinds` | `Spec => []LookupFinds` |

The argument is that a word is a sum of parts in a mixed base (`PartsBelow`, `PartsUnique`,
`PartsRead`), so that every getter is one part (`InParts`) and every setter replaces one. The
invariant adds to `TypeOK` that a narrow build holds only narrow or null blocks.

**The root of the block map**, for any forks, block size, keys and blocks:

| Theorem | Statement |
|---|---|
| `RootTypeCorrect` | `Spec => []TypeOK` |
| `RootAlwaysLeads` | `Spec => []RootLeadsToLeaves` |
| `RootAlwaysFits` | `Spec => []RootFits` |
| `FlushedIsAlwaysRead` | `Spec => []FlushedIsRead` |
| `ReloadChangesNothing` | `Spec => [][Reload => UNCHANGED vars]_vars` |

The invariant `Sound` gives the whole state a shape: there is no root and no leaf
(`NoTree`); or the buffer is exactly that of a sorted sequence of keys, with the
leaves behind it (`One`); or it is that of the first keys of a sequence of non-empty,
sorted children, each before the next, with the numbers of the blocks that hold them
(`Two`, by `Family` and `Tree`). With two levels `ptrs` has the leaf beside every key of
the file (`Along`). And the fork on disk is read as the root there is (`Stored`) unless the root is logged, which it is
not in a clean inode (`OnDisk`). The buffer is described by `Root(level, keys, pointers)`, bytes and area
included, and there is a lemma for what each operation on the buffer makes of one
(`RootEntered`, `RootLeft`, `RootRaised`, `RootLowered`, `RootMade`, `RootRekeyed`, `WrittenIsRead`): this is
where a pointer left behind by a reallocation would show. The rest is about
sequences: what inserting, removing, sharing, joining and splitting do to a family
(`FamilyReplaced`, `FamilyParted`, `FamilyOpened`, `FamilyClosed`, then `ShareStep`, `JoinStep`, `SplitStep`).
TLC checked the same shape on the instance of `root` before it was proved.

**Short directories**, for any names, lengths, inode numbers, room in the inode and size
of a block:

| Theorem | Statement |
|---|---|
| `DirTypeCorrect` | `Spec => []TypeOK`, if `put_offset` stores |
| `CountsAlwaysMatch` | `Spec => []CountsMatchBytes`, if `put_offset` stores |
| `AlwaysInline` | `Spec => []StaysInline`, if `put_offset` stores |
| `DirectoryImplemented` | `Spec => ImplementsDirectory`, if `put_offset` stores |
| `OffsetsAlwaysApart` | `Spec => []OffsetsApart`, if `put_offset` stores |
| `OffsetsAlwaysStay` | `Spec => OffsetsStay`, if `put_offset` stores |
| `AlwaysToldOnce` | `ScanSpec => []TellsOnce`, if `put_offset` stores |

All of them have the hypothesis `PutsOffset`: they say what the directory code promises
over a helper that stores. `put_unaligned_be16` as it is written does not, and then the
offsets coincide after two adds (the run `short_dir_put`), and a conversion to a block
would lose entries, which the model does not follow.

The invariant `Sound` says that the entries have distinct names and offsets on multiples
of eight that ascend with room between them (`Valid`), and of each form what the code
counts: of a short one that `i8count` and `di_size` are those of its entries, that it fits
in the inode and that what it would take as a block fits in one; of a block that the tail
counts a leaf entry for each entry, for `.` and `..` and for each stale one, and that the
leaf entries begin behind the last entry. Each operator of the model is one of three kinds of change: an entry
put in at a place (`Puts`), one taken out (`Takes`), one whose number is replaced (`Sets`).
A lemma for each kind says what becomes of the offsets, of the two sums (`Packed` and
`Wides`, by the lemmas about `Total`) and of the directory seen by name; then there is a
lemma for each operator (`ShortAdd`, `ShortRemove`, `ToIno8`, `ToIno4`, `ToBlock`, `ToShort`,
`BlockAdd`, `BlockRemove`, `ReplaceShort`). The subtle cases are the conversions between
operations: `ToBlock` leaves room for one more entry, and a narrowing happens only when the
one wide number that `i8count` still counts is the one that goes.

A readdir adds `Followed`: what is owed lies at or behind the cookie, what has been told
before it. It is kept because offsets ascend in the listing, so that the entries told by a
call are those between two cookies, and because an entry that stays keeps its offset.

**The red-black tree**, for any finite set of nodes and any keys:

| Theorem | Statement |
|---|---|
| `TypeCorrect` | `Spec => []TypeOK` |
| `LinksHold` | `Spec => []LinksAgree` |
| `OrderHolds` | `Spec => []Ordered` |
| `BlacksHold` | `Spec => []BlacksAgree` |
| `RedsHold` | `Spec => []RedsApart` |
| `WalksHold` | `Spec => []WalksInOrder` |
| `AugmentHolds` | `Spec => []AugmentRight` |
| `SetImplemented` | `Spec => ImplementsSet` |
| `CallsAlwaysEnd` | `Spec => CallsEnd` |

The properties are written with recursive functions over the tree (`Under`, `Search`, `Far`,
`Above`, `BlackHeight`, `Height`). That such a function exists at all is shown by naming it
(`UnderIs`, `HeightIs`) or by `Recursion`, an induction made by hand over ranks, here the
number of nodes at and below a node or at and above it. The proofs of the steps use no recursion: a tree is described by two functions
that exist for it and need not be computed. `Shape(h, D)` says that `D[n]` is the set of the
nodes at and below `n`, by what it is of the children's sets, that the keys in it lie on
their sides, and that parents and children agree. `Balanced(h, H, q, u)` says that `H[n]`
is the number of blacks on every way down from `n`, one fewer on side `u` of `q`. What the
recursive functions compute is then read off `D` and `H` (also `SearchIs`, `FarIs`, `AboveIs`), by `FromBelow` and `FromAbove`: what each node has if its children do,
or if its parent does, all nodes have.

`IInv` says that such `D` and `H` exist and, of each kind of call, where its locals are and
what is amiss: in an insert `node` is red and may have a red parent; in an erase one black
is missing below `parent` on the side where `node` is, which may be `NULL` and then is told
from its brother only by that side; otherwise nothing. Each of the code's building blocks has a
lemma for the shape (`RotateShape`, `JoinShape`, `CutShape`, `SwapShape`, `PaintShape`) and
for the colours (`JoinColours`, `CutColours`, `SwapColours`, `RecolourColours`, `RedTurn`,
`InnerTurn`, `OuterTurn`, `RaiseBrother`, `NearTurn`, `PassUp`, `LastTurn`, `BlackenColours`), and
each action one that puts them together (`InsertGood`, `RotateGood`, `UnlinkTwoGood`,
`EraseRoundGood`, ...). The links, the order, both statements about colours and the
refinement follow.

The augmented data is wrong during a call. `Fresh` says where: what is stale is over the
node from which `rb_augment_path` will go up, or a brother of such a node. A rotation makes
stale only the two nodes it turns, and it has to be shown that they stay on that way
(`SpunSame`, `ParentSpun`, `NearSpun`, `FarLags`); a round of the walk then makes right what it
comes by (`PathFresh`), and nothing is left when it is past the root. For `CallsEnd`, the
measure is how far below the root the node is that a call is at. The rotations of an insert
bring it one nearer (`RotateEnds`); the rotation that gives an erase a black brother takes its
node down, but leaves the parent red, so that the round ends the loop (`EraseRoundEnds`).

### Only model-checked

- Liveness (`CallsReturn`, `RequestsComplete`, `UnloadDrains`, `ScanEnds`), which is out of
  the prover's reach: these need fairness and when a step is enabled. Every other
  property of a passing run is stated by a theorem.
- That the wrong variants are wrong, and the four violations.

Of images that are not supported only `TypeCorrect`, `DriverTypeCorrect` and `NothingIsLeft`
say anything; the other properties of the reader and the driver do not speak of them.

## Not modelled

- **The vendored Linux sources.** `fs/xfs` (and its copy in `UI2`) is nearly all of the
  repository's lines. `fs/build/makefile` builds `hello.c`, `read_super`, `syscall`,
  `rbtree`, `read_file`, `xfsd_dir2_sf` and `xfsd_bmap_btree`, and of `fs/xfs` only headers:
  the allocator, the log and its recovery, transactions, quotas and attributes are
  neither compiled nor called. Of these sources the models take in what surrounds the
  two files that xfsd cut out of them, because the functions there have no meaning
  without their callers: the directory operations around `xfsd_dir2_sf.c`, and the
  growth and shrinking of the root around `xfsd_bmap_btree.c`.
- **The dialog** (`UI2`), a user interface with older copies of `fs/`; **`driver.cpp`**, a
  stub that fails.
- **`read_super.c`**: `init` runs once, before anything else; the getters and
  `get_agf_free_block`, whose results `hello.c` prints, change nothing. A failing
  `init` leaves `main` with no open file, and every later step of it undefined.
- **`xfsd_asm.h`** but for `put_unaligned_be16`: the other accessors store and load the
  bytes they should; on WIN32 the inner `do_div` is a bare remainder that leaves its
  argument undivided, and no modelled code calls what is built on it.
- **`syscall.c`**: `write_file`, `seek_file_cur` and `seek_file_end` have no caller.
- Allocation failures and the format field in `BmapRoot`: `xfs_bmap_extents_to_btree`
  gives up the root at 3104 and leaves the fork's format that of a tree. So are those in
  `ShortDir`: `xfs_dir2_sf_to_block` has thrown the inline data away when it asks for the
  block (1078-1090), and a caller must cancel the transaction.
- Leaf and node directories beyond one block, and the levels of a block map below the
  blocks of the root.
