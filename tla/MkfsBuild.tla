----------------------------- MODULE MkfsBuild ------------------------------
(***************************************************************************)
(* Building an image from a source directory (lib/inode.c): the main       *)
(* thread walks the tree (erofs_mkfs_dump_tree), reads each directory,     *)
(* and sends one job per inode and one more per directory to the dfops     *)
(* worker; the worker places inodes (NDIR, DIR) and writes directories     *)
(* (DIR_BH), for which it needs the nid of every entry.  After the join,   *)
(* mkfs/main.c flushes the buffers and drops the root.                     *)
(*                                                                         *)
(* Inodes are reference counted with atomic operations, but the hash table *)
(* that finds hard links is not locked: erofs_iput of a last reference     *)
(* unlinks the inode from it.                                              *)
(*                                                                         *)
(* The ring between the threads is the pipe that DfopsRing implements.  A  *)
(* job of the worker does not fail here, and the wait of a flush does not  *)
(* return without a signal: DfopsRing models both.                         *)
(***************************************************************************)
EXTENDS Integers, Sequences, FiniteSets

CONSTANTS
  Dirs, Files,  \* the directories and the other inodes of the source tree
  Root,         \* its root directory
  Trees,        \* the trees to build: the entries of every directory, sorted
  FailSets,     \* the sets of inodes erofs_mkfs_handle_inode may fail for
  Cap,          \* q->entries: the jobs in the ring and the one being handled
  NULL          \* no inode, no job

Inodes == Dirs \cup Files

(* kids is a tree: every directory but the root has one entry, at a depth  *)
(* below its parent's; files may have any number of entries (hard links).  *)
IsTree(kids) ==
  /\ kids \in [Dirs -> Seq(Inodes)]
  /\ \E depth \in [Dirs -> 0..Cardinality(Dirs)] :
       /\ depth[Root] = 0
       /\ \A d, e \in Dirs :
            \A k \in 1..Len(kids[d]) : kids[d][k] = e => depth[e] = depth[d] + 1
  /\ \A e \in Dirs \ {Root} :
       \E d \in Dirs : \E k \in 1..Len(kids[d]) :
         /\ kids[d][k] = e
         /\ \A c \in Dirs : \A j \in 1..Len(kids[c]) :
              kids[c][j] = e => c = d /\ j = k

(* enum erofs_mkfs_jobtype *)
JobTypes == {"NDIR", "DIR", "DIR_BH", "MAX"}

ASSUME MkfsAssumption ==
  /\ IsFiniteSet(Dirs)
  /\ Root \in Dirs
  /\ Dirs \cap Files = {}
  /\ NULL \notin Inodes
  /\ NULL \notin [type : JobTypes, inode : Inodes \cup {NULL}]
  /\ FailSets \subseteq SUBSET Inodes
  /\ Cap \in Nat \ {0}
  /\ \A kids \in Trees : IsTree(kids)

VARIABLES
  kids,     \* the source tree
  failing,  \* the inodes erofs_mkfs_handle_inode fails for
  i_count,  \* reference count of every inode; 0 before iget and after free
  freed,    \* the inodes that were freed
  parent,   \* i_parent, NULL until erofs_mark_parent_inode
  nlink,    \* i_nlink
  bh,       \* the buffer of every inode: "none", or the op it is flushed with
  inl,      \* the buffer of its inline data, likewise
  dents,    \* every directory's entries as written: "open" until its DIR_BH
  mpc,      \* where the main thread is
  dumpdir,  \* the directories left to dump, linked by next_dirwrite
  idx,      \* the entry of dir = Head(dumpdir) it is at
  subs,     \* the subdirectories of dir it met
  out,      \* the job it is sending
  err,      \* the error erofs_mkfs_build_tree returns
  jobs,     \* the jobs in the ring
  wpc       \* whether the worker still runs

tree == <<kids, failing, i_count, freed, parent, nlink, bh, inl, dents>>
vars == <<kids, failing, i_count, freed, parent, nlink, bh, inl, dents, mpc,
          dumpdir, idx, subs, out, err, jobs, wpc>>

Job(t, i) == [type |-> t, inode |-> i]

(* The entries of a directory: "." is 0, ".." is -1. *)
Entries(d) == -1..Len(kids[d])
Target(d, k) == CASE k = 0 -> d [] k = -1 -> parent[d] [] OTHER -> kids[d][k]

(* How often inode i occurs among the entries of d numbered in K. *)
Occurs(i, d, K) == Cardinality({k \in K : Target(d, k) = i})

Init ==
  /\ kids \in Trees /\ failing \in FailSets
  /\ i_count = [i \in Inodes |-> IF i = Root THEN 1 ELSE 0]
  /\ freed = {}
  /\ parent = [i \in Inodes |-> NULL]
  /\ nlink = [i \in Inodes |-> 1]
  /\ bh = [i \in Inodes |-> "none"]
  /\ inl = [i \in Inodes |-> "none"]
  /\ dents = [d \in Dirs |-> [k \in Entries(d) |-> "open"]]
  /\ mpc = "root"
  /\ dumpdir = <<Root>>
  /\ idx = 1
  /\ subs = << >>
  /\ out = NULL
  /\ err = FALSE
  /\ jobs = << >>
  /\ wpc = "run"
-----------------------------------------------------------------------------
(* The main thread *)

(* erofs_init_empty_dir: the references "." and ".." of d take to i, with  *)
(* p the parent of d.                                                      *)
DotRefs(i, d, p) == (IF i = d THEN 1 ELSE 0) + (IF i = p THEN 1 ELSE 0)

(* The link count of a directory: ".", ".." and its subdirectories.        *)
DirLinks(d) == 2 + Cardinality({k \in 1..Len(kids[d]) : kids[d][k] \in Dirs})

(* erofs_mkfs_handle_directory(d), with p marked as the parent of d:       *)
(* erofs_iget_from_srcpath of every entry finds or makes its inode (one    *)
(* freed before is made anew), erofs_init_empty_dir refers to d and to p,  *)
(* and the link count is that of the subdirectories.                       *)
ReadDir(d, p, grab) ==
  LET made == {i \in freed : \E k \in 1..Len(kids[d]) : kids[d][k] = i}
  IN /\ i_count' = [i \in Inodes |->
                      i_count[i] + Cardinality({k \in 1..Len(kids[d]) : kids[d][k] = i})
                        + DotRefs(i, d, p) + (IF i = d THEN grab ELSE 0)]
     /\ freed' = freed \ made
     /\ parent' = [i \in Inodes |-> IF i = d THEN p
                                    ELSE IF i \in made THEN NULL ELSE parent[i]]
     /\ nlink' = [i \in Inodes |-> IF i = d THEN DirLinks(d)
                                   ELSE IF i \in made THEN 1 ELSE nlink[i]]

(* erofs_igrab of the root as dumpdir, then erofs_mkfs_handle_inode(root). *)
(* If that fails, __erofs_mkfs_build_tree drops one reference and the      *)
(* build ends with the error.                                              *)
HandleRoot ==
  /\ mpc = "root"
  /\ \/ /\ Root \in failing
        /\ err' = TRUE
        /\ mpc' = "stop"
        /\ parent' = [parent EXCEPT ![Root] = Root]
        /\ UNCHANGED <<i_count, freed, nlink, out>>
     \/ /\ Root \notin failing
        /\ ReadDir(Root, Root, 1)
        /\ mpc' = "flush"
        /\ out' = Job("DIR", Root)
        /\ UNCHANGED err
  /\ UNCHANGED <<kids, failing, bh, inl, dents, dumpdir, idx, subs, jobs, wpc>>

(* erofs_mkfs_go; afterwards dump_tree takes its reference to a directory  *)
(* it will have to dump.                                                   *)
Go ==
  /\ out # NULL
  /\ Len(jobs) < Cap
  /\ jobs' = Append(jobs, out)
  /\ out' = NULL
  /\ IF mpc = "scan" /\ out.type = "DIR"
     THEN /\ i_count' = [i_count EXCEPT ![out.inode] = @ + 1]
          /\ subs' = Append(subs, out.inode)
     ELSE UNCHANGED <<i_count, subs>>
  /\ mpc' = CASE mpc = "dir_bh" -> IF dumpdir = << >> THEN "stop" ELSE "scan"
              [] mpc = "stop"   -> "join"
              [] OTHER          -> mpc
  /\ UNCHANGED <<kids, failing, freed, parent, nlink, bh, inl, dents, dumpdir, idx, err,
                 wpc>>

(* Whether everything sent so far was handled.                             *)
Drained == jobs = << >>

(* erofs_mkfs_flushjobs, then the root nid is read off its buffer. *)
FlushJobs ==
  /\ mpc = "flush"
  /\ out = NULL
  /\ Drained
  /\ mpc' = "scan"
  /\ UNCHANGED <<tree, dumpdir, idx, subs, out, err, jobs, wpc>>

Scanning == mpc = "scan" /\ out = NULL /\ idx <= Len(kids[Head(dumpdir)])
Here == kids[Head(dumpdir)][idx]

(* The entry's inode was not met before: handle it.  A directory is read   *)
(* here; the job for either kind is sent next.                             *)
Visited(i) == parent[i] # NULL

(* The job that places an inode.                                           *)
(* Fault: a directory is written instead.                                  *)
PlaceJob_DirBh(i) == Job(IF i \in Dirs THEN "DIR_BH" ELSE "NDIR", i)
PlaceJob(i) == Job(IF i \in Dirs THEN "DIR" ELSE "NDIR", i)

HandleNew ==
  /\ Scanning
  /\ ~Visited(Here)
  /\ Here \notin failing
  /\ IF Here \in Dirs
     THEN ReadDir(Here, Head(dumpdir), 0)
     ELSE /\ parent' = [parent EXCEPT ![Here] = Head(dumpdir)]
          /\ UNCHANGED <<i_count, freed, nlink>>
  /\ out' = PlaceJob(Here)
  /\ idx' = idx + 1
  /\ UNCHANGED <<kids, failing, bh, inl, dents, mpc, dumpdir, subs, err, jobs,
                 wpc>>

(* Its handling fails: the loop over the entries is left, and the error is *)
(* overwritten by the result of sending the DIR_BH job.                    *)
HandleFails ==
  /\ Scanning
  /\ ~Visited(Here)
  /\ Here \in failing
  /\ parent' = [parent EXCEPT ![Here] = Head(dumpdir)]
  /\ idx' = Len(kids[Head(dumpdir)]) + 1
  /\ UNCHANGED <<kids, failing, i_count, freed, nlink, bh, inl, dents, mpc, dumpdir,
                 subs, out, err, jobs, wpc>>

(* A hard link to an inode met before.                                     *)
HardLink ==
  /\ Scanning
  /\ Visited(Here)
  /\ nlink' = [nlink EXCEPT ![Here] = @ + 1]
  /\ idx' = idx + 1
  /\ UNCHANGED <<kids, failing, i_count, freed, parent, bh, inl, dents, mpc, dumpdir,
                 subs, out, err, jobs, wpc>>

(* The directories to dump next: the subdirectories just met are linked in *)
(* front of those left over.                                               *)
(* Fault: the last of them is not linked to those left over.               *)
NextDirs_Cut == IF subs # << >> THEN subs ELSE Tail(dumpdir)
NextDirs == subs \o Tail(dumpdir)

(* All entries were met: the subdirectories are dumped next, before the    *)
(* directories left over, and the directory's DIR_BH job is sent.          *)
EndDir ==
  /\ mpc = "scan" /\ out = NULL
  /\ idx > Len(kids[Head(dumpdir)])
  /\ out' = Job("DIR_BH", Head(dumpdir))
  /\ dumpdir' = NextDirs
  /\ idx' = 1
  /\ subs' = << >>
  /\ mpc' = "dir_bh"
  /\ UNCHANGED <<tree, err, jobs, wpc>>

Stop ==
  /\ mpc = "stop" /\ out = NULL
  /\ out' = Job("MAX", NULL)
  /\ UNCHANGED <<tree, mpc, dumpdir, idx, subs, err, jobs, wpc>>

(* The worker is joined.  A failed build goes on to mkfs's error exit. *)
Join ==
  /\ mpc = "join"
  /\ wpc = "exited"
  /\ mpc' = IF err THEN "done" ELSE "joined"
  /\ UNCHANGED <<tree, dumpdir, idx, subs, out, err, jobs, wpc>>

(* References dropped from a set of inodes, by[i] of them from inode i:    *)
(* one that reaches 0 frees the inode and takes it off the hash table.     *)
Iput(by) ==
  /\ i_count' = [i \in Inodes |-> i_count[i] - by[i]]
  /\ freed' = freed \cup {i \in Inodes : by[i] > 0 /\ i_count[i] - by[i] <= 0}

(* erofs_bflush: the inodes and the inline data whose buffers are ready    *)
(* are written and their references dropped; others stay (-EBUSY).         *)
Bflush ==
  /\ mpc = "joined"
  /\ Iput([i \in Inodes |-> (IF bh[i] = "write" THEN 1 ELSE 0)
                              + (IF inl[i] = "write" THEN 1 ELSE 0)])
  /\ bh' = [i \in Inodes |-> IF bh[i] = "write" THEN "none" ELSE bh[i]]
  /\ inl' = [i \in Inodes |-> IF inl[i] = "write" THEN "none" ELSE inl[i]]
  /\ mpc' = "flushed"
  /\ UNCHANGED <<kids, failing, parent, nlink, dents, dumpdir, idx, subs, out, err,
                 jobs, wpc>>

(* erofs_fixup_root_inode and erofs_iput(root) *)
RootPut ==
  /\ mpc = "flushed"
  /\ Iput([i \in Inodes |-> IF i = Root THEN 1 ELSE 0])
  /\ mpc' = "done"
  /\ UNCHANGED <<kids, failing, parent, nlink, bh, inl, dents, dumpdir, idx, subs, out,
                 err, jobs, wpc>>
-----------------------------------------------------------------------------
(* The dfops worker: the job at the head of the ring is handled, and taken *)
(* off when it is done.                                                    *)

Handling(t) == wpc = "run" /\ jobs # << >> /\ Head(jobs).type = t
Subject == Head(jobs).inode

(* The reference an inode's buffer takes (bh->fsprivate).                  *)
(* Fault: the pointer is kept without one.                                 *)
BufferRef_None == 0
BufferRef == 1

(* erofs_prepare_inode_buffer: a buffer for the inode, with a reference,   *)
(* and one for its tail-end data when that can be inlined.                 *)
PrepareBuffer(i, op, inlop) ==
  /\ bh' = [bh EXCEPT ![i] = op]
  /\ inl' = [inl EXCEPT ![i] = inlop]

(* erofs_mkfs_handle_nondirectory: the data, the inode's buffer and        *)
(* erofs_write_tail_end, which refers to the inode for inline data.        *)
JobNdir ==
  /\ Handling("NDIR")
  /\ \E inlop \in {"none", "write"} :
       /\ PrepareBuffer(Subject, "write", inlop)
       /\ i_count' = [i_count EXCEPT ![Subject] =
                        @ + BufferRef + (IF inlop = "write" THEN 1 ELSE 0)]
  /\ jobs' = Tail(jobs)
  /\ UNCHANGED <<kids, failing, freed, parent, nlink, dents, mpc, dumpdir, idx, subs,
                 out, err, wpc>>

(* EROFS_MKFS_JOB_DIR: the buffer, which is not to be flushed yet. *)
JobDir ==
  /\ Handling("DIR")
  /\ \E inlop \in {"none", "skip"} : PrepareBuffer(Subject, "skip", inlop)
  /\ i_count' = [i_count EXCEPT ![Subject] = @ + BufferRef]
  /\ jobs' = Tail(jobs)
  /\ UNCHANGED <<kids, failing, freed, parent, nlink, dents, mpc, dumpdir, idx, subs,
                 out, err, wpc>>

(* erofs_lookupnid: an inode without a buffer has no nid yet, and 0 is     *)
(* written.                                                                *)
LookupNid(i) == IF bh[i] = "none" THEN "zero" ELSE "nid"

(* The reference of dump_tree that a written directory gives up.           *)
DumpRef == 1

(* EROFS_MKFS_JOB_DIR_BH: erofs_write_dir_file resolves every entry and    *)
(* drops its reference (erofs_d_invalidate), then the tail-end data and    *)
(* the inode may be flushed and dump_tree's reference goes.                *)
JobDirBh ==
  /\ Handling("DIR_BH")
  /\ dents' = [dents EXCEPT ![Subject] =
                 [k \in Entries(Subject) |-> LookupNid(Target(Subject, k))]]
  /\ bh' = [bh EXCEPT ![Subject] = "write"]
  /\ inl' = [inl EXCEPT ![Subject] = IF @ = "skip" THEN "write" ELSE @]
  /\ Iput([i \in Inodes |->
             Occurs(i, Subject, Entries(Subject))
               + (IF i = Subject THEN DumpRef ELSE 0)
               - (IF i = Subject /\ inl[i] = "skip" THEN 1 ELSE 0)])
  /\ jobs' = Tail(jobs)
  /\ UNCHANGED <<kids, failing, parent, nlink, mpc, dumpdir, idx, subs, out, err, wpc>>

(* A job type past the last one ends the worker.                           *)
(* Fault: it is taken for an unknown job and skipped.                      *)
AfterMax_Skip == "run"
AfterMax == "exited"

JobMax ==
  /\ Handling("MAX")
  /\ wpc' = AfterMax
  /\ jobs' = Tail(jobs)
  /\ UNCHANGED <<tree, mpc, dumpdir, idx, subs, out, err>>
-----------------------------------------------------------------------------
Main == \/ HandleRoot \/ Go \/ FlushJobs \/ HandleNew \/ HandleFails \/ HardLink
        \/ EndDir \/ Stop \/ Join \/ Bflush \/ RootPut
Worker == JobNdir \/ JobDir \/ JobDirBh \/ JobMax

Next == Main \/ Worker

Spec == Init /\ [][Next]_vars /\ WF_vars(Main) /\ WF_vars(Worker)
-----------------------------------------------------------------------------
(* A directory is written only once everything it names has a place in the *)
(* image: no entry, "." and ".." included, gets the nid of an inode whose  *)
(* buffer was not allocated yet.                                           *)
EntriesPlaced == \A d \in Dirs : \A k \in DOMAIN dents[d] : dents[d][k] # "zero"

(* The same for a build in which the handling of no entry fails; and the   *)
(* root, whose buffer erofs_mkfs_dump_tree reads right after the flush, is *)
(* placed by then, unless the flush was ended by a stray return of its     *)
(* wait (DfopsRing).                                                       *)
EntriesPlacedIfHandled == /\ failing = {} => EntriesPlaced
                          /\ mpc = "scan" => bh[Root] # "none"

(* "DBG_BUGON(inode->bh || inode->bh_inline)": an inode's buffers are      *)
(* allocated once, hard links or not.                                      *)
PreparedOnce ==
  wpc = "run" /\ jobs # << >> /\ Head(jobs).type \in {"NDIR", "DIR"}
    => bh[Subject] = "none" /\ inl[Subject] = "none"

(* No inode is freed while the two threads run: the inode hash table, on   *)
(* which erofs_iget looks for hard links, is changed by the main thread    *)
(* only, and what the jobs refer to is live.  Entries that were given up   *)
(* are freed by the worker.                                                *)
NoFreeWhileBuilding ==
  wpc = "run" => /\ failing = {} => freed = {}
                 /\ \A n \in 1..Len(jobs) :
                      jobs[n].type # "MAX" => i_count[jobs[n].inode] > 0

(* And after the build and the flush every inode is freed: no reference is *)
(* leaked, also not when entries were given up on an error.                *)
LifetimesRight ==
  /\ NoFreeWhileBuilding
  /\ mpc = "done" /\ ~err => \A i \in Inodes : i_count[i] = 0

(* When the handling of no inode fails, every directory is written: the    *)
(* hand-made chain of directories loses none; and none is prepared twice.  *)
WrittenOnce ==
  /\ mpc = "joined" /\ failing = {} => \A d \in Dirs : bh[d] = "write"
  /\ PreparedOnce

(* The build comes to an end, also after failures. *)
BuildEnds == <>(mpc = "done")
=============================================================================
