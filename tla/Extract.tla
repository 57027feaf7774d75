------------------------------ MODULE Extract -------------------------------
(***************************************************************************)
(* Extracting the files of an image (extract/ExtractOperation.cpp,         *)
(* ErofsNode.cpp, ExtractHelper.cpp, ErofsHardlinkHandle.cpp).  The nodes  *)
(* were collected by a walk over the image.  erofsNodeClassification puts  *)
(* directories first and notes, for every inode with several links, the    *)
(* path its data will be extracted at, in a table with one slot per nid    *)
(* modulo NR.  Directories are made by the main thread, everything else by *)
(* the threads of a pool (or by the main thread too).  A node that fails   *)
(* keeps a message, and all messages are written to a log at the end.      *)
(*                                                                         *)
(* The pool hands out nodes in order and is destroyed when all were run:   *)
(* ThreadPool models how.  Contents are the nid they come from; a file is  *)
(* known by the path it was created at, so that links can be told apart    *)
(* from copies.                                                            *)
(***************************************************************************)
EXTENDS Integers, Sequences, FiniteSets, SequencesExt

CONSTANTS
  Images,    \* sequences of nodes [nid, path, dir, nlink] an image may yield
  Paths,     \* the paths of the nodes
  PrefixOf,  \* the pairs of paths <<p, q>> where p is a prefix of q
  Before,    \* the sets of paths that may exist before the extraction
  BadNids,   \* the inodes whose data cannot be decoded
  NR,        \* NR_HARDLINK_HASHTABLE
  Threads,   \* the threads of the pool
  Modes,     \* a subset of {"single", "multi", "silent"}
  Overwrite, \* a subset of BOOLEAN: -f
  NULL

ASSUME ExtractAssumption ==
  /\ \A img \in Images :
       /\ img \in Seq([nid : Nat, path : Paths, dir : BOOLEAN, nlink : Nat])
       /\ IsInjective([k \in 1..Len(img) |-> img[k].path])
  /\ PrefixOf \subseteq Paths \X Paths
  /\ \A p \in Paths : <<p, p>> \in PrefixOf
  /\ Before \subseteq SUBSET Paths
  /\ NR \in Nat \ {0}
  /\ Modes \subseteq {"single", "multi", "silent"}
  /\ Overwrite \subseteq BOOLEAN
  /\ NULL \notin Paths
  /\ NULL \notin [at : Paths, data : Int]
  /\ NULL \notin [nid : Nat, path : Paths]

(* What the walk over an image yields: one inode is one kind of file with  *)
(* one link count, above 1 when it has several paths; and the walk lists a *)
(* directory before its entries and these in the order of their names, so  *)
(* that no path comes after one it is a prefix of.                         *)
ASSUME ImagesSound ==
  \A img \in Images : \A j, k \in 1..Len(img) :
    /\ img[j].nid = img[k].nid =>
         /\ img[j].dir = img[k].dir /\ img[j].nlink = img[k].nlink
         /\ j = k \/ img[j].nlink > 1
    /\ j < k => <<img[k].path, img[j].path>> \notin PrefixOf

VARIABLES
  nodes,     \* erofsNodes
  mode,      \* one thread, a pool with progress, or a pool and -s
  overwrite, \* eo->overwrite
  pc,        \* where the main thread is
  idx,       \* the node it is at
  hardlink,  \* erofsHardlinkMap: the nid and path in every slot, or NULL
  nodeDirs,  \* the directories
  nodeOther, \* everything else; those not handed out yet
  file,      \* every path's file, [at, data], or NULL
  tpc,       \* where every thread is
  tnode,     \* the node it extracts
  terr,      \* the result it got
  info,      \* the nodes that keep a message
  failed,    \* exceptionSize
  count,     \* extractTaskRunCount
  log        \* the nodes named in exception.log

vars == <<nodes, mode, overwrite, pc, idx, hardlink, nodeDirs, nodeOther, file,
          tpc, tnode, terr, info, failed, count, log>>
env == <<nodes, mode, overwrite>>
threads == <<tpc, tnode, terr>>
result == <<info, failed, count>>

Old == -1  \* the contents of a file from before
Bad == -2  \* the contents of a file whose decoding stopped

Init ==
  /\ nodes \in Images /\ mode \in Modes /\ overwrite \in Overwrite
  /\ pc = "classify" /\ idx = 1
  /\ hardlink = [s \in 0..NR-1 |-> NULL]
  /\ nodeDirs = << >> /\ nodeOther = << >>
  /\ \E B \in Before :
       file = [p \in Paths |-> IF p \in B THEN [at |-> p, data |-> Old] ELSE NULL]
  /\ tpc = [t \in Threads |-> "idle"]
  /\ tnode = [t \in Threads |-> NULL]
  /\ terr = [t \in Threads |-> "done"]
  /\ info = {} /\ failed = 0 /\ count = 0 /\ log = {}
-----------------------------------------------------------------------------
(* The table of hard links *)

Slot(nid) == nid % NR

(* erofsHardlinkFind: the path in the slot, if it is that of this inode.   *)
(* Fault: the nid is not compared.                                         *)
HardlinkFind_Any(nid) ==
  IF hardlink[Slot(nid)] # NULL THEN hardlink[Slot(nid)].path ELSE NULL
HardlinkFind(nid) ==
  IF hardlink[Slot(nid)] # NULL /\ hardlink[Slot(nid)].nid = nid
  THEN hardlink[Slot(nid)].path ELSE NULL

(* erofsNodeClassification, one node. *)
Classify ==
  /\ pc = "classify" /\ idx <= Len(nodes)
  /\ LET n == nodes[idx]
     IN IF n.dir
        THEN /\ nodeDirs' = Append(nodeDirs, n)
             /\ UNCHANGED <<hardlink, nodeOther>>
        ELSE /\ hardlink' = IF n.nlink > 1 /\ HardlinkFind(n.nid) = NULL
                            THEN [hardlink EXCEPT ![Slot(n.nid)] =
                                    [nid |-> n.nid, path |-> n.path]]
                            ELSE hardlink
             /\ nodeOther' = Append(nodeOther, n)
             /\ UNCHANGED nodeDirs
  /\ idx' = idx + 1
  /\ UNCHANGED <<env, pc, file, threads, result, log>>

Classified ==
  /\ pc = "classify" /\ idx > Len(nodes)
  /\ pc' = "dirs"
  /\ UNCHANGED <<env, idx, hardlink, nodeDirs, nodeOther, file, threads, result,
                 log>>
-----------------------------------------------------------------------------
(* Writing one node: the files that result from F, and the error *)

(* erofs_extract_file: a new file, or with -f a truncated one, which every *)
(* path of it then shows; otherwise an existing file is skipped.           *)
ExtractFile(F, n, p) ==
  LET data == IF n.nid \in BadNids THEN Bad ELSE n.nid
      err  == IF n.nid \in BadNids THEN "error" ELSE "done"
  IN IF F[p] = NULL
     THEN [file |-> [F EXCEPT ![p] = [at |-> p, data |-> data]], err |-> err]
     ELSE IF overwrite
     THEN [file |-> [q \in Paths |->
                       IF F[q] # NULL /\ F[q].at = F[p].at
                       THEN [at |-> F[q].at, data |-> data] ELSE F[q]],
           err |-> err]
     ELSE [file |-> F, err |-> "skip"]

(* The comparison strncmp(srcPath, targetPath, strlen(targetPath)). *)
SamePath(src, target) == <<target, src>> \in PrefixOf

(* What link() makes of the target. *)
Linked(F, src, target) == [F EXCEPT ![target] = F[src]]

(* erofs_extract_hardlink: the data goes to the path in the table, unless  *)
(* there is a file already, and the node's path is linked to it; an        *)
(* existing target is replaced with -f and skipped without.                *)
ExtractHardlink(F, n, src, target) ==
  LET r == IF F[src] = NULL THEN ExtractFile(F, n, src)
                            ELSE [file |-> F, err |-> "done"]
  IN IF SamePath(src, target) THEN r
     ELSE IF r.file[target] = NULL \/ overwrite
     THEN [file |-> Linked(r.file, src, target), err |-> r.err]
     ELSE [file |-> r.file, err |-> "skip"]

(* writeNodeEntity2File.  A path of the table is handled under             *)
(* erofsHardlinkLock; other paths belong to one node: one step either way. *)
WriteNode(F, n) ==
  IF HardlinkFind(n.nid) # NULL
  THEN ExtractHardlink(F, n, HardlinkFind(n.nid), n.path)
  ELSE IF n.dir
  THEN [file |-> [F EXCEPT ![n.path] = [at |-> n.path, data |-> n.nid]], err |-> "done"]
  ELSE ExtractFile(F, n, n.path)

(* initExceptionInfo: a skipped file is no exception. *)
Exception(err) == err \notin {"done", "skip"}

(* extractNodeTask: the node is written and a failure is kept, at once. *)
NodeTask(n) ==
  LET r == WriteNode(file, n)
  IN /\ file' = r.file
     /\ info' = IF Exception(r.err) THEN info \cup {n} ELSE info
     /\ failed' = IF Exception(r.err) THEN failed + 1 ELSE failed
-----------------------------------------------------------------------------
(* The main thread *)

ExtractDir ==
  /\ pc = "dirs" /\ nodeDirs # << >>
  /\ NodeTask(Head(nodeDirs))
  /\ nodeDirs' = Tail(nodeDirs)
  /\ UNCHANGED <<env, pc, idx, hardlink, nodeOther, threads, count, log>>

DirsDone ==
  /\ pc = "dirs" /\ nodeDirs = << >>
  /\ pc' = IF mode = "single" THEN "files" ELSE "pool"
  /\ UNCHANGED <<env, idx, hardlink, nodeDirs, nodeOther, file, threads, result,
                 log>>

(* extractErofsNode *)
ExtractOne ==
  /\ pc = "files" /\ nodeOther # << >>
  /\ NodeTask(Head(nodeOther))
  /\ nodeOther' = Tail(nodeOther)
  /\ UNCHANGED <<env, pc, idx, hardlink, nodeDirs, threads, count, log>>

FilesDone ==
  /\ pc = "files" /\ nodeOther = << >>
  /\ pc' = "report"
  /\ UNCHANGED <<env, idx, hardlink, nodeDirs, nodeOther, file, threads, result,
                 log>>

NFiles == Cardinality({k \in 1..Len(nodes) : ~nodes[k].dir})

(* Whether the progress loop is left.                                      *)
(* Fault: one node early.                                                  *)
AllCounted_Early == count + 1 >= NFiles
AllCounted == count >= NFiles

(* extractErofsNodeMultiThread: all nodes were committed; with -s nobody   *)
(* waits for them here.                                                    *)
Progress ==
  /\ pc = "pool"
  /\ mode = "silent" \/ AllCounted
  /\ pc' = "report"
  /\ UNCHANGED <<env, idx, hardlink, nodeDirs, nodeOther, file, threads, result,
                 log>>

(* writeExceptionInfo2File *)
Report ==
  /\ pc = "report"
  /\ log' = IF failed > 0 THEN info ELSE {}
  /\ pc' = "destroy"
  /\ UNCHANGED <<env, idx, hardlink, nodeDirs, nodeOther, file, threads, result>>

(* The pool is destroyed behind the last statement, all tasks having run. *)
Destroy ==
  /\ pc = "destroy"
  /\ nodeOther = << >> /\ \A t \in Threads : tpc[t] = "idle"
  /\ pc' = "end"
  /\ UNCHANGED <<env, idx, hardlink, nodeDirs, nodeOther, file, threads, result,
                 log>>
-----------------------------------------------------------------------------
(* A thread of the pool: extractNodeTaskMultiThread *)

Pooled == mode # "single" /\ pc \in {"pool", "report", "destroy"}

TakeNode(t) ==
  /\ Pooled
  /\ tpc[t] = "idle" /\ nodeOther # << >>
  /\ tnode' = [tnode EXCEPT ![t] = Head(nodeOther)]
  /\ nodeOther' = Tail(nodeOther)
  /\ tpc' = [tpc EXCEPT ![t] = "write"]
  /\ UNCHANGED <<env, pc, idx, hardlink, nodeDirs, file, terr, result, log>>

ThreadWrite(t) ==
  /\ tpc[t] = "write"
  /\ file' = WriteNode(file, tnode[t]).file
  /\ terr' = [terr EXCEPT ![t] = WriteNode(file, tnode[t]).err]
  /\ tpc' = [tpc EXCEPT ![t] = "note"]
  /\ UNCHANGED <<env, pc, idx, hardlink, nodeDirs, nodeOther, tnode, result, log>>

ThreadNote(t) ==
  /\ tpc[t] = "note"
  /\ info' = IF Exception(terr[t]) THEN info \cup {tnode[t]} ELSE info
  /\ failed' = IF Exception(terr[t]) THEN failed + 1 ELSE failed
  /\ tpc' = [tpc EXCEPT ![t] = "count"]
  /\ UNCHANGED <<env, pc, idx, hardlink, nodeDirs, nodeOther, file, tnode, terr,
                 count, log>>

ThreadCount(t) ==
  /\ tpc[t] = "count"
  /\ count' = count + 1
  /\ tpc' = [tpc EXCEPT ![t] = "idle"]
  /\ tnode' = [tnode EXCEPT ![t] = NULL]
  /\ UNCHANGED <<env, pc, idx, hardlink, nodeDirs, nodeOther, file, terr, info,
                 failed, log>>
-----------------------------------------------------------------------------
Next ==
  \/ Classify \/ Classified \/ ExtractDir \/ DirsDone \/ ExtractOne \/ FilesDone
  \/ Progress \/ Report \/ Destroy
  \/ \E t \in Threads :
       TakeNode(t) \/ ThreadWrite(t) \/ ThreadNote(t) \/ ThreadCount(t)

Spec == Init /\ [][Next]_vars
-----------------------------------------------------------------------------
Extracted == {k \in 1..Len(nodes) : ~nodes[k].dir}

(* No path ever shows the data of another inode, also when two inodes      *)
(* share a slot of the table.                                              *)
OwnData == \A k \in Extracted :
  file[nodes[k].path] # NULL => file[nodes[k].path].data \in {nodes[k].nid, Old, Bad}

(* At the end the paths of an inode are links to one file, whichever       *)
(* thread came first, and paths of different inodes are not: unless a file *)
(* from before is in the way, or another inode with several links has the  *)
(* slot of the table.                                                      *)
Ours(k) == file[nodes[k].path] # NULL /\ file[nodes[k].path].data # Old
SlotToItself(k) == \A j \in Extracted :
  nodes[j].nlink > 1 /\ Slot(nodes[j].nid) = Slot(nodes[k].nid)
    => nodes[j].nid = nodes[k].nid
LinksShared ==
  pc = "end" => \A j, k \in Extracted :
    Ours(j) /\ Ours(k) /\ SlotToItself(j) =>
      ((nodes[j].nid = nodes[k].nid) <=> (file[nodes[j].path].at = file[nodes[k].path].at))

(* "Extract all items": at the end every node has a file, but one that     *)
(* shares its slot; "overwrite files that already exist": with -f no data  *)
(* from before survives, but at the source of hard links.                  *)
AllExtracted ==
  pc = "end" => \A k \in Extracted :
    /\ nodes[k].nlink = 1 \/ SlotToItself(k) => file[nodes[k].path] # NULL
    /\ overwrite /\ nodes[k].nlink = 1 /\ file[nodes[k].path] # NULL
         => file[nodes[k].path].data # Old

(* The extracted tree is that of the image, whichever thread did what. *)
TreeExtracted == OwnData /\ LinksShared /\ AllExtracted

(* "the info has been saved": the log names every node that failed, but    *)
(* with -s, which does not wait for the pool before it writes the log.     *)
FailuresLogged == pc = "end" /\ mode # "silent" => log = info
=============================================================================
