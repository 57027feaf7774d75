# TLA+ models of erofs-utils

Models, model-checking configurations and machine-checked proofs for the parts
of erofs-utils where it is hard to see, and hard to test, that the code is
right: the threads of `mkfs.erofs`, the placement of everything it writes into
the image, the formats it writes and the readers that have to invert them
(compressed files, attributes, directories, chunks), the trees it builds from
archives and layers, `fsck.erofs`, `erofsfuse`, and the threads and tables of
`extract.erofs`.

`PROJECT.json` is the machine-readable side of this file: which definition
models which lines of the source, which run checks which property, which
mutation of the model breaks each property, the hazards the properties are
for, and the findings.

## 1. The system

`mkfs.erofs` walks a directory tree (or reads a tar file, or merges images),
and writes an image: a super block, inodes with inline xattrs and tails,
directory blocks, plain, compressed or chunked file data. `fsck.erofs`,
`dump.erofs`, `erofsfuse` and `extract.erofs` read images. All of them share
`lib/`.

### Components

| component | state it keeps | operations | interacts with | hard behaviour |
|---|---|---|---|---|
| work queue `lib/workqueue.c` | linked list of works, count, limit, `shutdown`, two condition variables | alloc, queue, worker loop, destroy | compressor | interleaving, lost wakeups, shutdown, failing thread creation |
| dfops job ring `lib/inode.c` | ring of jobs, head, tail, `idle`, three condition variables | go, pop, flush, build_tree | tree build | slot used outside the lock, flush, worker that dies |
| tree build `lib/inode.c` | inodes with reference counts, dentries, `next_dirwrite` chain | dump_tree, handle_inode, handle_directory, jobfn, iput | ring, buffer manager, compressor | two threads share inodes; order of placing and naming; errors halfway |
| buffer manager `lib/cache.c` | list of buffer blocks and heads, tail address, buckets of mapped blocks | balloc, battach, balloon, mapbh, bflush, bdrop | everyone who writes | addresses assigned lazily, rollback, alignment |
| image layout (clients of the buffer manager) | where each inode, tail and table lies | reserve_sb, prepare_inode_buffer, write_tail_end, write_dir_file, dump_blobs ... | buffer manager | nids cached before flush, inline data at block boundaries |
| compression `lib/compress.c` | contexts, segment works, idle works, extents, the static context | begin, workfn, merge, commit, write_indexes | work queue, ring, fragments, dedupe | segments finishing out of order, recycling, one static context for two threads |
| fragments, dedupe `lib/fragments.c`, `lib/dedupe.c` | hash tables of tails and of windows | dedupe, pack, insert, commit | compression | entries of a file that is revoked |
| chunked files `lib/blobchunk.c` | hash table of chunks, blob file, devices | write chunks, dump blobs | layout | blob positions before and after the dump |
| tar and rebuild `lib/tar.c`, `lib/rebuild.c`, `lib/diskbuf.c` | dentry tree, whiteouts, disk buffers | parse, merge | tree build | order of layers, opaque directories |
| xattrs `lib/xattr.c` | shared and inline items with counts | scan, share, prepare, read | layout | sizes counted before they are written |
| reading: `lib/data.c`, `lib/zmap.c`, `lib/decompress.c`, `lib/dir.c`, `lib/namei.c`, `lib/super.c`, `lib/io.c` | none, or a small map cache | map, read, look up | all readers | decoding must invert what mkfs encodes |
| thread pool `extract/include/threadpool.h` | queue, run flag, condition variable | commit, worker loop, destructor | extraction tool | notification outside the lock |
| extraction tool `extract/` | node lists, hard-link table, failure log | classify, extract, report | pool, reading library | threads creating links, files that exist already |
| fsck `fsck/main.c` | stack of directories, path, table of hard links, the tree it extracts to | open, check, extract, set attributes | reading library, file system | damaged images; the order of creating and protecting |
| FUSE `fuse/main.c` | handles; the kernel keeps offsets | lookup, getattr, open, readdir, read | reading library | a directory read in pieces |
| dump `dump/main.c` | counters | print | reading library | sequential |
| vendored code | | | | not modelled |

What makes each modelled component correct is stated as the properties in
section 4; the hazards behind them, with their source lines, are listed in
`PROJECT.json`.

## 2. Modules

```
Executor   <-implements-  WorkQueue   <- WorkQueueProofs
JobPipe    <-implements-  DfopsRing   <- DfopsRingProofs
MkfsBuild                             <- MkfsBuildProofs    (over the pipe JobPipe describes)
MtCompress                            <- MtCompressProofs   (over Executor's queue and JobPipe's pipe)
BufMgr     <-extends-     ImageLayout <- ImageLayoutProofs  (extends BufMgrProofs)
ThreadPool                            <- ThreadPoolProofs
Extract                               <- ExtractProofs
ZIndex     <-extends-     ZFile
Overlay
Xattr
Image  <-extends-  MakeImage  <-extends-  Fsck, Fuse  <-extends-  Readers
MC*            instances for TLC
```

* **Executor** is what a caller of the work queue relies on: submitted works
  are started once each, in order, by workers that run concurrently; a destroy
  returns when all were run.
* **WorkQueue** is `lib/workqueue.c` step by step. A step is a critical
  section under `wq->lock`; waiting on `cond_full` or `cond_empty` is a state
  of the thread, a signal wakes one waiter of the implementation's choice, and
  a wait may also return by itself. The list is kept as in C: `head`, `tail`,
  and a `next` pointer that survives in a work that is submitted again.
  `fifo` is a history variable. The creation of the threads, with
  `pthread_create` failing at any of them, is part of it.
* **JobPipe** is what the tree build relies on: a bounded FIFO with one
  reader, a flush that returns only when all was handled, and a last job.
* **DfopsRing** is the ring in `lib/inode.c` (`erofs_mkfs_go`,
  `erofs_mkfs_pop_jobitem`, `erofs_mkfs_flushjobs`, `z_erofs_mt_dfops_worker`).
  The popped job is an index into the ring that the worker reads after it let
  the lock go; the model keeps both, so overwriting the slot would show.
* **MkfsBuild** is `erofs_mkfs_dump_tree` with everything it does to inodes:
  reading a directory (dentries, `.` and `..`, references, link counts),
  handing jobs to the worker, the `next_dirwrite` chain, hard links, jobs that
  allocate buffers and write directories, and all the `erofs_igrab`s and
  `erofs_iput`s up to the flush at the end of `main`. The trees are a
  constant: TLC builds every tree of the given size; which inodes
  `erofs_mkfs_handle_inode` fails for is chosen from another (`FailSets`). An entry is written with
  the nid of its inode, or with zero if the inode has no buffer yet.
* **BufMgr** is `lib/cache.c` as operators on one record: the list of buffer
  blocks, heads with offsets, `tail_blkaddr`, the last mapped block, the
  buckets, `metablkcnt`. **ImageLayout** calls it as `mkfs` does, from the
  reservation of the super block to the last flush, and records every write.
* **MtCompress** is the life of a compressed file: cut into segments, queued,
  compressed by workers, merged in order by the dfops worker; or passed
  through the static context `g_ictx`; and the packed inode at the end. Works
  are recycled through `z_erofs_mt_ctrl.idle`.
* **ThreadPool** is the C++ pool. The test of the predicate and the sleep of a
  waiting thread are two steps (with the mutex held), because the destructor
  does not take the mutex.
* **Extract** is the classification of nodes, the hard-link table and the
  creation of files by one thread or by the pool.

* **ZIndex** is the index area of a compressed file as operators: the full and
  the compacted format as `lib/compress.c` writes and converts them, and the
  walk of `lib/zmap.c` through either. **ZFile** is a build of compressed
  files: the loop of `lib/compress.c` over the queue, with the pivot, raw
  extents, big physical clusters, segments, the inlined tail and its removal,
  matching and recording of windows (`lib/dedupe.c`), fragments and the packed
  inode (`lib/fragments.c`), a file that is given up and written plain; and
  the readers `lib/data.c` and `lib/decompress.c`. A compressor is a set of
  outcomes, bytes consumed and bytes produced.
* **Overlay** is `lib/tar.c` and `lib/rebuild.c`: one action per kind of header
  and per entry of a merge, on in-memory inodes with reference and link
  counts. A ghost (`ref`) keeps what the headers of each archive say, by path.
* **Xattr** is `lib/xattr.c`: items in a hash table, the counting pass, the
  shared area, bodies and their sizes, long prefixes, attributes from an
  archive, the readers, and a second pass that loads the first one's image.
* **Image** has the on-disk form of inodes, directories and chunk-based files
  as operators: packing (`lib/inode.c`, `lib/blobchunk.c`), reading
  (`lib/namei.c`, `lib/data.c`) and iteration (`lib/dir.c`). **MakeImage** writes a tree of
  inodes and may then store the image with one fault in it. **Fsck** runs
  `fsck.erofs` on it: options, super block, the recursion as a stack, the
  checks, and extraction to a file system given by what the POSIX calls do,
  for root and for a user. **Fuse** serves it: one action per request.
  **Readers** puts the four together and compares what comes out with the tree
  that went in.

The definitions keep the names of the C functions and fields where TLA+
permits; each one's source lines are in the map of `PROJECT.json`. An operator
whose name ends in `_Something` right before a definition is a plausible fault
of that definition, used to see that a property would notice it.

## 3. Assumptions

* A critical section is one step; code outside locks that shares data is
  split. Memory is sequentially consistent.
* Two waits of the code are a single test and not a loop: `erofs_mkfs_flushjobs`
  on `q->drain` (`lib/inode.c:1341`) and `erofs_begin_compressed_file` on
  `g_ictx.cond` (`lib/compress.c:1463`). These may return without a signal as
  every other wait may (`FlushSpurious`, `BeginStray`), and the code then goes on
  without having what it waited for. The properties say so: `FlushIsComplete`
  and the pipe except a flush whose wait returned by itself (`stray`),
  `ContextsOwned` and `CompressEnds` a static context claimed while it is in use
  (`StrayClaim`); what the two threads then do to it is undefined, and the model
  of the main thread ends there. MkfsBuild, which stands on the pipe, has the
  flush that was signalled: behind a stray return the main thread would read the
  nid of a root that has no buffer.
* `malloc` succeeds, except where a module says otherwise. In the buffer
  manager and when works are allocated, the code's reaction to a failure is
  undefined behaviour (freed memory is used), see the hazards.
* In the models of formats, codecs and hash functions are ideal: what is
  compressed decodes to what it was, equal digests mean equal data. Calls to
  the device succeed; a read beyond the image, or of a damaged structure, gives
  what the code makes of it.
* Where the code is known to go wrong, the runs include the case and the property
  excepts it by name, no wider than TLC needs; section 6 describes each one. They
  are `stray` (DfopsRing), `StrayClaim` (MtCompress), `LooksBehind`,
  `PatchedSixteen` and `UnrotatedTail` (ZFile), `PrefixLost`, `repeated`,
  `RootLost` and `TooShort` (Xattr), `linked` (Overlay), `Missed` (ThreadPool), the
  failures in `MainReturns` and
  `CompressEnds`, the shared slots and old files in `TreeExtracted`, `-s` in
  `FailuresLogged`, the entry that sorts before `.` in a debug build
  (`ReaddirExact`) and the differences of an extraction that the comment on
  `ExtractedIsTree` lists.
* Data is abstract: a job, a work, an inode is a model value; file contents
  are the inode they come from; compressed data is a number of blocks; sizes
  and addresses are small numbers with a small block size.

**Fairness.** Threads that can run are scheduled: weak fairness for each
thread of WorkQueue, DfopsRing, MkfsBuild and MtCompress, whose critical
sections are single steps there. No caller is obliged to submit or destroy.
Work functions return, since they are finite loops. In ThreadPool the mutex
is a variable held across steps, so a thread may find it taken whenever it is
scheduled; strong fairness says that a thread that wants it again and again
gets it, as mutexes of the platforms in question do in practice.

## 4. Runs

| run | instance | checks |
|---|---|---|
| `workqueue` | 3 workers, 1 producer, 4 works, limit 2, thread creation may fail, spurious wakeups, fair | `TypeOK`; the C list is the FIFO (`ListIsFifo`); no producer sleeps before a list with room (`NoLostFullWakeup`); while a worker sleeps, as many are awake as works are queued (`NoLostEmptyWakeup`); a destroyed queue ran everything (`DestroyCompletes`); a submission and a destroy return (`CallsReturn`); it refines Executor (`ImplementsExecutor`), fairness included (`ImplementsFairExecutor`: everything submitted is run) |
| `dfops_ring` | 4 slots, 3 jobs, one may fail, spurious wakeups on full, empty and drain, fair | the slot in use is stable (`ItemStable`), a flush that was not ended by a stray wakeup and a join are complete (`FlushIsComplete`, `JoinIsComplete`), refinement of JobPipe (`ImplementsJobPipe`); unless the worker gave up on an error, every send and flush returns, and the worker is joined (`MainReturns`) |
| `mkfs_build` | trees of up to 4 directories and 2 files, hard links, no failing inode or the root, a directory or a file failing, fair | no entry is written before its inode is placed, nor the root's nid read (`EntriesPlacedIfHandled`); nothing is freed under the threads and nothing leaks, also after a failure (`LifetimesRight`); the hand-made chain of directories loses none and no inode is prepared twice (`WrittenOnce`); the build ends (`BuildEnds`) |
| `mkfs_build_swallow` | violation | `EntriesPlaced` when an entry fails |
| `image_layout` | a root and 2 inodes of one size, or a root and 1 inode of several sizes around the block size with xattrs, blobs, in a new or an extended image | mapped blocks are a prefix in address order, buckets are exact and no `DBG_BUGON` fires (`ListExact`); blocks tile the image and metadata is counted (`BlocksTiled`); inodes are written where their nids say (`NidsHold`); writes do not overlap, lie in the image, and inline data shares the block of its inode (`WritesDisjoint`) |
| `mt_compress` | 3 files of 2, 1 and 2 segments, 2 workers, the three configurations, failing segments and fragments, spurious wakeups of the writer and of the main thread, fair | segments are merged in file order (`SegmentsInOrder`); no work is recycled under a worker, none is left, and one thread at a time uses the static context unless the wait for it returned by itself (`ContextsOwned`); unless a file fails or that happened all is written and ends (`CompressEnds`) |
| `zfile` | 37 configurations: files of 9 to 76 bytes in blocks of 4, alone or up to three that share contents; full and compacted indexes, clusters of one or two blocks, inlined tails (also taken back at the end of a pack of sixteen, and in a packed inode), fragments (also of whole files), dedupe, segments; every choice of the compressor and of raw extents | every range of every file reads back (`ReadBack`); the complete map gives the extents that were made, and no `DBG_BUGON` of the writer is met (`ExtentsMapped`) |
| `overlay` | every archive of up to 5 headers from three sets (files, directories and hard links; names and records; marks), every pair of 2-header archives merged or put on a base image, stripped or not | the tree is what the headers say (`TreeIsTar`), the result is the upper tree over the lower (`MergedIsOverlay`); `LinksExact`: references and links are exact (`CountsExact`), and an inode with one name has the directory of that name as its parent, unless hard links were involved (`ParentsHold`) |
| `xattr` | 3 inodes with up to 2 of 3 attributes; all tolerances, a long prefix from every source, a label, reserved sizes from 4 bytes; archives with repeated and global records, repeated directories and opaque marks; extended and rebuilt images; blocks of 16 bytes and one shared id at most | each inode reads back its attributes, each once (`XattrsReadBack` excepts four losses by name), its filter rules none out, and no body outgrows its room; items are alive while they are used or found (`ItemsHeld`) |
| `readers` | 5 trees with every kind of file, hard links, holes, repeated chunks, full directory blocks, a moved directory, a packed inode; intact, or two of them with each of some 600 single faults; every option; root or user; unused or used targets; a handle at a time, small and large readdir buffers | an intact image is clean and extracts (`CleanReported`); what is clean can be read and walked, also when damaged (`CleanIsUsable`); an extracted tree is the one that went in (`ExtractedIsTree`); paths and requests are answered from it (`AnswersRight`); a directory read in pieces gives each entry once (`ReaddirExact`) |
| `thread_pool` | 3 threads asked for, 2 allowed, 3 tasks, client with and without progress | tasks are started in order, each once, and have finished when the pool is gone (`PoolDrains`); `PoolEnds`: all are run (`TasksRun`), and the destructor returns, unless a thread missed its notification (`JoinReturns`) |
| `extract` | all images of 4 files over 3 inodes, with and without two that share a slot, one that cannot be decoded; 1 or 2 threads, `-s`; files from before; `-f` or not | no path shows another inode's data, the paths of an inode are one file, every path is there (`TreeExtracted`); the log names every failure (`FailuresLogged`) |

Properties that belong together are one definition, a conjunction of named
parts: `ListExact`, `ContextsOwned`, `LifetimesRight`, `WrittenOnce`,
`TreeExtracted`, `AnswersRight`, `LinksExact`, `PoolEnds`.

**Why the bounds are enough.** In the work queue three workers on a list of
two reach full, empty, several sleepers and a wakeup overtaken by another
thread; four works allow two running, two queued and their pointers reused.
The proofs cover all other sizes, several producers included. (Liveness is
checked for one producer, as mkfs has: with two, one of them can be overtaken
for ever.) In the ring four slots with three jobs wrap the indexes
and meet full; the proofs cover all sizes. Four directories and two files give nesting, siblings, an empty
directory, a hard link inside and across directories, and a directory left
over behind a subtree; of trees that differ in the names of their nodes only,
one is built. The layout uses a block of 8 units and inode slots of 2, so that
inode sizes of 2, 5 and 9 with tails of 0, 3 and 7 fall below, at and over the
boundaries. Compression needs a second file to recycle the works of the first
one and a third to meet both. Extraction needs three names of one inode, a
second inode in its slot, and a name that is a prefix of another.

The units of the format models are scaled down so that every limit is met: a
block of 4 bytes makes a file of 76 bytes 19 clusters long, enough for a
leading pack, a pack of sixteen items and trailing ones, at three alignments of
the inode. Two files that share contents at an offset, one that repeats
itself, and three with common tails meet every branch of dedupe and fragments.
An archive of five headers can create, link, replace and remove a name and look
at it again. Attribute blocks of 16 bytes put entries over every kind of
boundary, and a limit of one shared id makes the limit bite. Directory blocks
have the sizes of the code's dirents: the names are chosen so that a block is
exactly full, or full but for one byte.

TLC's deadlock check is off where the program ends (`readers` has a step for
having ended instead); that it ends where it should is checked by the liveness
properties (`BuildEnds`, `CompressEnds`, `CallsReturn`, `MainReturns`,
`PoolEnds`). The format models are sequential programs that end by
construction of their loops.

## 5. Proofs

Eight modules hold theorems for every value of the constants: `WorkQueueProofs`,
`DfopsRingProofs`, `MkfsBuildProofs`, `MtCompressProofs`, `BufMgrProofs`,
`ImageLayoutProofs`, `ThreadPoolProofs` and `ExtractProofs`. They rest on named
assumptions, which TLC evaluates on every instance:

* `WorkQueueAssumption`: finitely many workers, at least one, a limit of at
  least one, a null pointer that is nobody;
* `DfopsAssumption`: a ring of at least two slots, a terminating job different
  from the others; any of the three waits may return without a signal;
* `MkfsAssumption`: finitely many directories; the source is a tree
  (`IsTree`: one entry for every directory but the root, at a depth below its
  parent's, while files may have any number of names); the ring has room for
  at least one job;
* `MtAssumption`: at least one segment per file and results of known length,
  queues of at least one entry;
* `BlkAssumption`: the slot sizes divide the block size, and an inode is smaller
  than a block; `LayoutAssumption`: the sizes in a plan are numbers, and a tail
  is shorter than a block;
* `PoolAssumption`: at least one thread is asked for and allowed;
* `ExtractAssumption`: the nodes of an image have different paths and the table
  has at least one slot; and `ImagesSound`: one inode is one kind of file with
  one link count, and no path comes after one that it is a prefix of. The walk
  guarantees that (`extract/ExtractHelper.cpp:130-138`): it lists a directory
  before its entries, and these in the order of their names, which the format
  demands. Without it, TLC's finding about prefixes in section 6 applies.

**Work queue.** `ListInv` is the inductive invariant about the list: types,
`ListIsFifo`, `OneOwner` (a work is in one place), `CurInv` (a worker has a
work exactly while it runs one) and `ReqInv` (a producer's work is in no other
hands). Ownership is needed because `ListIsFifo` alone is not preserved: if a
queued work could be submitted again its `next` pointer would be overwritten.
The lemmas `TakeKeepsList` and `PutKeepsList` carry the pointer argument once.
`WakeInv` adds `NoLostFullWakeup` and `DownInv`, which says what shutdown
implies. `NoLostFullWakeup` holds because a producer sleeps only in front of a
full list and the only step that leaves full wakes all of them.
`NoLostEmptyWakeup` counts: submissions add one work and wake one worker if one
sleeps; it needs cardinalities of finite sets (`AwakeFinite`, `NoFewerAwake`).
From these follow `TypeCorrect`, `ListCorrect`, `Ownership`, `FullWakeup`,
`EmptyWakeup`, `Destroyed`, and `Refinement`: every step is a step of Executor
or leaves its variables alone.

**Ring.** `RingInv` is `TypeOK`, `RingHoldsFifo` (the slots from head to tail
are the jobs sent and not popped, one slot stays free), `ArgInv`, `ItemInv`
(the slot in use is the one before head), `IdleInv` and `StopInv`. `ItemStable`
follows because the producer writes at tail, tail never reaches the slot
before head, and that slot is the free one. `FlushCorrect` needs `IdleInv`:
`idle` is set only by a worker that found the ring empty and is taken back
with every job sent, so a flush that was signalled, or that found `idle` set,
left nothing behind. A flush that ended otherwise is recorded in `stray`, which
is no variable of the code: `FlushCorrect` and `Refinement` are about rings whose
flush may be ended that way, and say what holds when it was not.

**Tree build.** `NidsKnown`, `NoneLost` and `ReferencesExact` are the three
invariants of the `mkfs_build` run, for every source tree, every set of failing
inodes and every capacity of the ring. None is inductive: whether a directory
can be written when its `DIR_BH` job comes up depends on what was sent before
it, and whether an inode is live on everything that refers to it. The invariant
`BuildInv` speaks about `Q`, the jobs in the ring and the one about to be sent,
and is a conjunction of

* `MainInv`, `WorkerInv`: where the two threads can be together;
* `PlaceInv`: an inode is placed by one job, which comes before its buffer and
  before the job that writes the directory that names it;
* `WriteInv`: a directory is written by one job, and by then it, its parent and
  (when nothing fails) everything it names has a buffer or a job that comes
  earlier in `Q` (`PlacedBy`);
* `ChainInv`: a directory that was read and is not written yet is exactly one
  of: on the hand-made chain `subs \o dumpdir`, once; the subject of a
  `DIR_BH` job; or the one just read, whose reference the main thread has not
  taken yet (`Fresh`). This is what `NextDirs` has to preserve;
* `BufferInv`, `DirInv`, `RootInv`, `FlushInv`: what has a buffer was met, a
  directory that was written was read, and so was its parent;
* `CountInv`: the count of an inode *is* the number of its names in open
  directories, plus one each for the main thread, its buffer, its inline data
  and the caller's hold on the root. That is an equation between a number the
  threads change one at a time and the cardinality of a set that changes by a
  whole directory (`NamedRead`, `NamedWritten`), also after failures, where an
  entry that was given up is freed and may be made anew;
* `HandledInv`: when nothing fails, entries that were passed were met, and
  nothing is freed before the flush.

The `CountInv` of a step is used for its `HandledInv`: writing a directory frees
nothing, because everything it named has a buffer, which holds a reference.
That all directories are written follows at the join: no directory is open
there, so one that was missed, of least depth, would be an entry of a directory
that was written, and its entries were all met (`AllRead`).

**Segment-parallel compression.** `MergedInOrder` is `SegmentsInOrder`,
`ContextsSafe` is `ContextsOwned`, for any number of files, segments and
workers. In `MtInv`, `ControlInv` and `JobsInv` say where the main thread and
the writer are and that each file is sent once; `StaticInv` that the static
context is with one file on its way from one thread to the other; `ChainInv` and
`IdleInv` that every work is either idle or linked in its file's chain at the
place of its segment; `HeldInv` that a work is in one pair of hands (the main
thread's, the queue's, a worker's); `CountInv` that `nfini` counts the segments
of a file that nobody holds. The point of the proof is the wakeup of the writer:
when `nfini` reaches the number of segments, a set of that cardinality is all of
them, so no work that is merged and recycled is still held. `ResultInv` and
`ExtentInv` then give the order of what is merged. At exit `idle` is a bijection
onto the works, so freeing what is idle frees all. For a claim behind a stray
return of the wait the case is split: if nobody used the context any more (a file
failed and left it claimed, `UnusedStatic`), the claim is as good as one that was
signalled; if it was in use, the main thread is in the race that `ContextsSafe`
excepts, while everything about works and segments holds on.

**Buffer manager and layout.** `ListStaysExact`, `TilingHolds`, `NidsStayValid`
and `WritesStayDisjoint` are `ListExact`, `BlocksTiled`, `NidsHold` and
`WritesDisjoint`, for every plan, that is, any number of inodes of any size in
any order of jobs, and every block and slot size. `BufMgrProofs` shows once and for all that each function of
`lib/cache.c` preserves `MgrInv`:

* `PrefixInv`: the mapped bbs are the first of the list, their addresses ascend
  and `last_mapped` is the last of them;
* `BucketInv`: the buckets are exact;
* `TileInv`: every block up to `tail_blkaddr` is in exactly one bb, on the list
  or gone;
* `MetaInv`: the count of metadata blocks, an equation with the cardinality of
  the blocks given up;
* `KeyInv`: a key names one bh.

They need each other. An attach may grow a bb by blocks only at the end of the
image; that the block check of `__erofs_battach` (`oob`, the next bb's address,
`tail_blkaddr`) says so is arithmetic about rounding (`OobUse`, `OobIs`) together
with `PrefixInv`. The searches find a bb that can be attached to because the
buckets are exact (`FindMappedIs`), and so `erofs_balloc` cannot fail when the
inline data fits in a block (`BallocInv`), which its callers take for granted.
The bound on the bucket search (`FullestFit`) is what makes `BucketUsable` true.
The loops of `erofs_mapbh` and `erofs_bflush` are recursive functions over an
interval; that they have a value, and what it is, is shown by taking a least
counterexample (`MapRunExists`, `MapRunInv`, `BflushInv`), so the results hold
for lists of any length. `erofs_bflush` frees bbs of the list it walks; its loop
invariant `FlushedUpTo` says where the rest of the old list is in the new one.

`LayoutInv` adds what the jobs keep: `KeysInv` (between two jobs there are only
the bhs of the inodes made so far, each to be written, inline tails, and the two
tables) and `NidsInv` (a nid given out is the address of its inode's bh).
`NidsHold` is not inductive because it speaks about the end only: a nid taken
early must survive every later job. It does, because every operation of a job
changes the bhs of that job only (`Changed`), and an address once given is kept.

`WritesDisjoint` needs the inside of a bb. Extents are written at different
times: the data of a file when its job runs, inodes and inline tails at the
flush, the super block last. In between the bb may be attached to, grow, or
leave the list, so that two extents are disjoint now says nothing about the
next one. `SpaceInv` is inductive on top of `LayoutInv`:

* `FitInv`: the bhs of a bb lie in its first `off` units, none over another;
* `WroteInv`: everything written lies in a mapped bb, in units that are `Spent`,
  that is, below its `off` and clear of every bh it still has, and no two of the
  extents overlap;
* `SpotsInv`, while the tree is built: the super block, the device table and
  inodes are not empty, inline data is right behind its inode in the block where
  the inode ends, and nothing written so far is an inode or a tail;
* `NoneBare`, at the flush: no bb without a bh is left on the list, so that
  writing the super block moves the end of the image no more, and the size it
  records is final.

Every function of `lib/cache.c` preserves `FitInv` and keeps spent units spent
(`SpaceDone`): an attach appends behind `off`, a drop takes a bh away, and only
an empty bb is revoked. What is newly written is what a bh that is gone held
(`FromBh`), hence clear of the other bhs of its bb by `FitInv`, clear of what
was written there before by `WroteInv`, and in other blocks than the rest by
`TileInv` (`AddWrites`). That a tail fits in the block of its inode is the room
`erofs_balloc` is asked to leave for it (`BallocSpace`), still there when
`erofs_battach` comes (`WithInlineSpace`).

**Thread pool.** `Drained` is that the destructor returns only when every task
has finished (`PoolDrains`). `PoolIInv` adds to it: `OrderInv` (the tasks
started followed by those queued are those committed, in order), `CountInv`
(every task that was started was counted or is being run), `RunInv` (`_run` is
cleared once everything was committed), `PoolInv` (there is a thread once
tasks are committed), `ReturnInv` (a thread returns only when `_run` is cleared
and the queue is empty) and `EndInv`. It needs `PoolInv`: a join over no
threads would return with all tasks queued. The theorem is about what has been
done when the join returns; that it may not return is in section 6.

**Extraction.** `TreeCorrect` is `TreeExtracted`, `LogComplete` is
`FailuresLogged`, for every image, any number of threads and any size of the
table. Three inductive invariants build on each other. `ExtractInv` is that no
path shows the data of another inode; data alone is not inductive, because with
`-f` a file is rewritten under all its names at once, so `FilesOK` says that
every path shows a file that was created at a name of the same inode, `TableInv`
that a slot names a path of the inode it holds, whoever had the slot before, and
`WorkInv` that threads write nodes of the image only. `LogInv` counts: the files
that wait, those with a thread and those counted are all of them, so when the
counter reaches the number of files every result was noted. `TreeInv` is that
every file waits, is with a thread, or is right: there, and, if it is a hard
link, the file at the path in the table. It needs that the source of the links
is created before them and that no link is taken for its source, which is where
`ImagesSound` enters.

**Only model-checked.** Liveness (`CallsReturn`, `MainReturns`, `BuildEnds`,
`CompressEnds`, `PoolEnds`) and fair refinement, which are beyond the prover;
and the models of formats (ZFile, Overlay, Xattr, Readers), whose properties are
about what folds and recursions over data compute. This includes the two that
look like reference counting: `CountsExact`, because the removal of a directory
is a recursion over the tree below it, and `ItemsHeld`, because the second pass
counts whatever the reader decodes from the bytes of the first image.

## 6. Findings

The run `mkfs_build_swallow` is refuted by TLC: `erofs_mkfs_dump_tree`
overwrites the error of an entry (`lib/inode.c:1764`), and the build succeeds
with entries of nid 0. `PROJECT.json` quotes what it disagrees with.

The following were met while modelling. Those marked (TLC) were also seen as
counterexamples of the models before the case was excepted by name.

*Threads.* (TLC) The two waits without a loop (section 3). A dfops worker that meets
an error leaves a main thread waiting in a flush or before a full ring for ever
(`lib/inode.c:1378`, the exception in `MainReturns`); its result is not looked
at (`lib/inode.c:1852`); a fragment that cannot be packed leaves the static
context claimed and the next file waiting (`lib/compress.c:1465`, the exception
in `CompressEnds`); when a work cannot be allocated, queued segments keep
pointing to a context that is freed (`lib/compress.c:1329`); a short read whose
`errno` is 0 drops the rest of a segment (`lib/compress.c:1024`).
`metablkcnt` is not initialised (`lib/cache.c:36`), so `BlocksTiled` counts
relative to what the memory held. Whether a compact inode suffices is decided
before hard links are counted (`lib/inode.c:1091`).

*Extraction tool.* (TLC, `Missed`) The destructor of the pool clears `_run` and
notifies without the lock (`extract/include/threadpool.h:46`): a thread between
its test and its sleep misses both, and the join, whose comment says that the
threads are sure to finish (`threadpool.h:51`), does not return. (TLC) A
hard-linked path that is a prefix of its source is taken
for it and not created (`extract/ExtractHelper.cpp:488`), possible when two
inodes share a slot. (TLC) `-f` does not rewrite an existing source of hard
links (`ExtractHelper.cpp:485`). (TLC) With `-s` the failure log is written
while the pool still runs (`ExtractOperation.cpp:325`). Attributes are not set
on hard links (`ErofsNode.cpp:149`).

*Compressed files.* (TLC, `PatchedSixteen`) A tail that is taken back where the indexes end with
a pack of sixteen: `z_erofs_drop_inline_pcluster` writes 16 bits over a 14-bit
item and clears two bits of the cluster offset (`lib/compress.c:982`). (TLC,
`UnrotatedTail`) With fragments and inlined tails, the packed inode is marked interlaced, and a
raw tail that is inlined in it is not rotated but read as if it were
(`lib/compress.c:1444`, `566-575`, `lib/decompress.c:511-527`). (TLC,
`LooksBehind`) Dedupe may end a file with big clusters in a one-block extent
within the last cluster; its length is then looked up behind the last index
(`lib/zmap.c:471`). All three are met in the `zfile` configurations; a file whose
fragment is in a packed inode with such a defect is excepted with it.

*Archives and layers.* (TLC, `linked`) A header that replaces a name which is a
hard link takes the parent from the old inode (`lib/tar.c:969`), so `..` of a new
directory is wrong and the assertion at `lib/inode.c:1753` fails. It also fails
for a file whose first name is gone and whose last is a hard link elsewhere; in a
release build that has no effect, since the parent is set right behind the
assertion. Removing a directory decrements a link count of its parent that adding never incremented
(`lib/tar.c:586`). In three layers, an opaque directory or file of the middle
one does not hide the lowest (`lib/rebuild.c:302`). An opaque mark in the root
is refused with `-ENOTDIR`. A character device 0:0 does not mark its directory
as having whiteouts. A hard link that names itself dereferences NULL. A file of
a base image cannot be replaced by a directory.

*Attributes.* (TLC, `PrefixLost`) The table of long prefixes is written for
directory sources only (`mkfs/main.c:1409`): in an image from an archive or from
another image, an attribute with such a prefix is passed over by readers. (TLC,
`repeated`) A directory whose header, or whose opaque mark, occurs twice in an
archive gets a key that both set twice (`lib/tar.c:976`), and a reader finds the
older value. (TLC, `RootLost`) A rebuild drops the attributes of the root
(`lib/rebuild.c:396`). (TLC, `TooShort`) With a reserved size of 1 to 8 bytes and
no attributes of the root, `erofs_export_xattr_ibody` meets its assertion and
fails (`lib/xattr.c:1030`); with 9 to 12 the body is a header, which readers
refuse with `-EOPNOTSUPP` (`lib/xattr.c:1068`). `put_xattritem` frees an item
that is still hashed; no caller makes that matter (`ItemsHeld`).

*fsck.* A wrong checksum of the super block ends with exit status 0. A hole at
the end of a chunk-based file is not extracted. Changing the owner after the
mode clears the suid bit. An attribute without a value hides those behind it.
A caller who may not make a device fails on its second link, and one who
extracts a read-only file with attributes on the second link of that. The order
of names is not checked across blocks, nor the type in an entry against the
inode. An error of a callback is replaced by "missing" when `.` or `..` have
not been met yet. An entry that names the root recurses until the path is too
long.

*FUSE.* `getattr` replies twice after a read error (`fuse/main.c:268`). A debug
build fails a readdir whose buffer is full before `.` and `..` were met.

## 7. Not modelled, and the plan

Left out inside the modelled components: `erofs_mkfs_reserve_data_blocks`
(pre-reserved data area), failures halfway through
`erofs_mkfs_handle_directory`, cancellation on Android (`__BIONIC__`), failing
allocations, external devices (a chunk is compared by its address only), groups,
files of 4 GiB and the error of a forced compact inode, `security.capability`
being cleared by a change of owner, what an inode of the base image that is no
sound directory makes of the patching of `..`, symbolic links and special files in the
extraction tool, the number fields and checksums of tar headers, and the
requests for attributes of the FUSE driver.

Not modelled at all: the compressor back ends and the vendored algorithms
(third-party code, or wrappers around it); disk buffers, block device I/O and
the hash map (thin layers, which the models of their users take as correct);
option parsing, configuration, block lists, exclusion rules and the dumper
(sequential, and about text). They are listed with their reasons in
`PROJECT.json`.

Next:

1. the phases and error exits of `mkfs/main.c`;
2. the extraction tool's other node types, and the path cache of the Windows
   driver.
