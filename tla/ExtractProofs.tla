--------------------------- MODULE ExtractProofs ----------------------------
(***************************************************************************)
(* The extracted tree is that of the image and the log names every         *)
(* failure, for every image, any number of threads and every size of the   *)
(* table of hard links.  Three inductive invariants build on each other:   *)
(* ExtractInv (no path shows the data of another inode), LogInv (what      *)
(* waits, runs and was counted are all the files) and TreeInv (every file  *)
(* waits, is with a thread or is right).                                   *)
(***************************************************************************)
EXTENDS Extract, FiniteSetTheorems, TLAPS

Node == [nid : Nat, path : Paths, dir : BOOLEAN, nlink : Nat]
FileRec == [at : Paths, data : Int]

(* The nodes of this image. *)
Listed == {nodes[k] : k \in 1..Len(nodes)}

(* Two paths are the same, or names of one inode. *)
Same(p, q) ==
  p = q \/ \E m, n \in Listed : m.path = p /\ n.path = q /\ m.nid = n.nid

(* Every file was created at a path of its inode and has its contents. *)
FilesOK(F) ==
  /\ F \in [Paths -> FileRec \cup {NULL}]
  /\ \A p \in Paths : F[p] # NULL =>
       /\ F[p] \in FileRec
       /\ Same(F[p].at, p)
       /\ \A n \in Listed : n.path = p => F[p].data \in {n.nid, Old, Bad}

ImageInv == nodes \in Images

(* The table holds paths of the inodes it names. *)
TableInv ==
  /\ DOMAIN hardlink = 0..(NR - 1)
  /\ \A s \in 0..(NR - 1) : hardlink[s] # NULL =>
       \E n \in Listed : n.nid = hardlink[s].nid /\ n.path = hardlink[s].path

(* What is still to be written are nodes of the image. *)
WorkInv ==
  /\ idx \in Nat \ {0}
  /\ nodeDirs \in Seq(Listed) /\ nodeOther \in Seq(Listed)
  /\ DOMAIN tpc = Threads /\ DOMAIN tnode = Threads
  /\ \A t \in Threads : tpc[t] = "write" => tnode[t] \in Listed

ExtractInv == ImageInv /\ TableInv /\ WorkInv /\ FilesOK(file)
-----------------------------------------------------------------------------
LEMMA ListedNodes ==
  ASSUME ImageInv
  PROVE  /\ nodes \in Seq(Node) /\ Listed \subseteq Node
         /\ \A m, n \in Listed : m.path = n.path => m = n
<1>1. nodes \in Seq(Node) /\ IsInjective([k \in 1..Len(nodes) |-> nodes[k].path])
  BY ExtractAssumption DEF ImageInv, Node
<1>2. \A j, k \in 1..Len(nodes) : nodes[j].path = nodes[k].path => j = k
  BY <1>1 DEF IsInjective
<1> QED
  BY <1>1, <1>2 DEF Listed

(* Names of one inode: what Same promises of nodes, and that it passes on. *)
LEMMA SameNid ==
  ASSUME ImageInv, NEW m \in Listed, NEW n \in Listed, Same(m.path, n.path)
  PROVE  m.nid = n.nid
BY ListedNodes DEF Same

LEMMA SameTrans ==
  ASSUME ImageInv, NEW p, NEW q, NEW r, Same(p, q), Same(q, r)
  PROVE  Same(p, r)
BY ListedNodes DEF Same

LEMMA SameSym ==
  ASSUME NEW p, NEW q, Same(p, q)
  PROVE  Same(q, p)
BY DEF Same

(* erofs_extract_file at a path of the inode leaves every file right: with *)
(* -f it rewrites the paths of one file, which are names of the inode.     *)
LEMMA ExtractFileOK ==
  ASSUME ImageInv, NEW F, FilesOK(F), NEW n \in Listed, NEW p \in Paths,
         Same(p, n.path)
  PROVE  FilesOK(ExtractFile(F, n, p).file)
<1> DEFINE data == IF n.nid \in BadNids THEN Bad ELSE n.nid
           G == ExtractFile(F, n, p).file
<1>1. data \in {n.nid, Bad} /\ data \in Int
  BY ListedNodes DEF Node, Bad
<1>2. ASSUME NEW m \in Listed, Same(m.path, p) PROVE data \in {m.nid, Old, Bad}
  BY <1>1, <1>2, SameTrans, SameNid
<1>3. CASE F[p] = NULL
  <2>1. G = [F EXCEPT ![p] = [at |-> p, data |-> data]]
    BY <1>3 DEF ExtractFile
  <2>2. [at |-> p, data |-> data] \in FileRec
    BY <1>1 DEF FileRec
  <2>3. G \in [Paths -> FileRec \cup {NULL}]
    BY <2>1, <2>2 DEF FilesOK
  <2>4. ASSUME NEW q \in Paths, G[q] # NULL
        PROVE  /\ G[q] \in FileRec
               /\ Same(G[q].at, q)
               /\ \A m \in Listed : m.path = q => G[q].data \in {m.nid, Old, Bad}
    <3>1. CASE q = p
      <4>1. G[q] = [at |-> p, data |-> data]
        BY <2>1, <3>1 DEF FilesOK
      <4> HIDE DEF G, data
      <4>2. \A m \in Listed : m.path = q => data \in {m.nid, Old, Bad}
        BY <3>1, <1>2 DEF Same
      <4> QED
        BY <4>1, <4>2, <2>2, <3>1 DEF Same
    <3>2. CASE q # p
      BY <2>1, <2>4, <3>2 DEF FilesOK
    <3> QED
      BY <3>1, <3>2
  <2> QED
    BY <2>3, <2>4 DEF FilesOK
<1>4. CASE F[p] # NULL /\ overwrite
  <2>1. G = [q \in Paths |-> IF F[q] # NULL /\ F[q].at = F[p].at
                             THEN [at |-> F[q].at, data |-> data] ELSE F[q]]
    BY <1>4 DEF ExtractFile
  <2>2. \A q \in Paths : F[q] # NULL => [at |-> F[q].at, data |-> data] \in FileRec
    BY <1>1 DEF FilesOK, FileRec
  <2>3. G \in [Paths -> FileRec \cup {NULL}]
    BY <2>1, <2>2 DEF FilesOK
  <2>4. ASSUME NEW q \in Paths, G[q] # NULL
        PROVE  /\ G[q] \in FileRec
               /\ Same(G[q].at, q)
               /\ \A m \in Listed : m.path = q => G[q].data \in {m.nid, Old, Bad}
    <3>1. CASE F[q] # NULL /\ F[q].at = F[p].at
      <4>1. G[q] = [at |-> F[q].at, data |-> data]
        BY <2>1, <3>1
      <4>2. Same(F[q].at, q) /\ Same(F[p].at, p)
        BY <1>4, <3>1 DEF FilesOK
      <4>3. Same(q, p)
        BY <4>2, <3>1, SameSym, SameTrans
      <4> HIDE DEF G, data
      <4>4. \A m \in Listed : m.path = q => data \in {m.nid, Old, Bad}
        BY <4>3, <1>2
      <4> QED
        BY <4>1, <4>2, <4>4, <2>2, <3>1
    <3>2. CASE ~(F[q] # NULL /\ F[q].at = F[p].at)
      BY <2>1, <2>4, <3>2 DEF FilesOK
    <3> QED
      BY <3>1, <3>2
  <2> QED
    BY <2>3, <2>4 DEF FilesOK
<1>5. CASE F[p] # NULL /\ ~overwrite
  BY <1>5 DEF ExtractFile
<1> QED
  BY <1>3, <1>4, <1>5

(* link() shows the contents of a name of the inode. *)
LEMMA LinkedOK ==
  ASSUME ImageInv, NEW F, FilesOK(F), NEW src \in Paths, NEW target \in Paths,
         NEW m \in Listed, m.path = src, Same(src, target)
  PROVE  FilesOK(Linked(F, src, target))
<1> DEFINE G == Linked(F, src, target)
<1>1. G \in [Paths -> FileRec \cup {NULL}]
  BY DEF FilesOK, Linked
<1>2. ASSUME NEW q \in Paths, G[q] # NULL
      PROVE  /\ G[q] \in FileRec
             /\ Same(G[q].at, q)
             /\ \A n \in Listed : n.path = q => G[q].data \in {n.nid, Old, Bad}
  <2>1. CASE q = target
    <3>1. G[q] = F[src] /\ F[src] # NULL
      BY <1>2, <2>1 DEF FilesOK, Linked
    <3>2. Same(F[src].at, src) /\ F[src].data \in {m.nid, Old, Bad} /\ F[src] \in FileRec
      BY <3>1 DEF FilesOK
    <3>3. Same(F[src].at, q)
      BY <3>2, <2>1, SameTrans
    <3>4. \A n \in Listed : n.path = q => n.nid = m.nid
      BY <2>1, SameNid
    <3> QED
      BY <3>1, <3>2, <3>3, <3>4
  <2>2. CASE q # target
    BY <1>2, <2>2 DEF FilesOK, Linked
  <2> QED
    BY <2>1, <2>2
<1> QED
  BY <1>1, <1>2 DEF FilesOK

(* The table names a path of the inode it is asked for. *)
LEMMA FindOK ==
  ASSUME ImageInv, TableInv, NEW n \in Listed, HardlinkFind(n.nid) # NULL
  PROVE  \E m \in Listed : m.nid = n.nid /\ m.path = HardlinkFind(n.nid)
<1>1. n.nid \in Nat
  BY ListedNodes DEF Node
<1>2. Slot(n.nid) \in 0..(NR - 1)
  BY <1>1, ExtractAssumption DEF Slot
<1>3. /\ hardlink[Slot(n.nid)] # NULL /\ hardlink[Slot(n.nid)].nid = n.nid
      /\ HardlinkFind(n.nid) = hardlink[Slot(n.nid)].path
  BY DEF HardlinkFind
<1> QED
  BY <1>2, <1>3 DEF TableInv

(* writeNodeEntity2File leaves every file right, whatever the others did. *)
LEMMA WriteNodeOK ==
  ASSUME ImageInv, TableInv, FilesOK(file), NEW n \in Listed
  PROVE  FilesOK(WriteNode(file, n).file)
<1>1. n \in Node /\ n.path \in Paths /\ n.nid \in Int
  BY ListedNodes DEF Node
<1>2. CASE HardlinkFind(n.nid) # NULL
  <2>1. PICK m \in Listed : m.nid = n.nid /\ m.path = HardlinkFind(n.nid)
    BY <1>2, FindOK
  <2> DEFINE src == m.path
             r == IF file[src] = NULL THEN ExtractFile(file, n, src)
                                      ELSE [file |-> file, err |-> "done"]
  <2>2. Same(src, n.path) /\ src \in Paths
    BY <2>1, ListedNodes DEF Same, Node
  <2>3. FilesOK(r.file)
    BY <2>2, ExtractFileOK
  <2>4. FilesOK(Linked(r.file, src, n.path))
    <3> HIDE DEF r
    <3> QED
      BY <2>2, <2>3, <1>1, LinkedOK
  <2>5. WriteNode(file, n) = ExtractHardlink(file, n, src, n.path)
    BY <1>2, <2>1 DEF WriteNode
  <2>6. ExtractHardlink(file, n, src, n.path).file \in {r.file, Linked(r.file, src, n.path)}
    BY DEF ExtractHardlink
  <2> QED
    BY <2>3, <2>4, <2>5, <2>6
<1>3. CASE HardlinkFind(n.nid) = NULL /\ n.dir
  <2> DEFINE rec == [at |-> n.path, data |-> n.nid]
             G == [file EXCEPT ![n.path] = rec]
  <2>1. WriteNode(file, n).file = G
    BY <1>3 DEF WriteNode
  <2>2. rec \in FileRec
    BY <1>1 DEF FileRec
  <2>3. G \in [Paths -> FileRec \cup {NULL}]
    BY <2>2 DEF FilesOK
  <2>4. ASSUME NEW q \in Paths, G[q] # NULL
        PROVE  /\ G[q] \in FileRec
               /\ Same(G[q].at, q)
               /\ \A m \in Listed : m.path = q => G[q].data \in {m.nid, Old, Bad}
    <3>1. CASE q = n.path
      <4>1. G[q] = rec
        BY <3>1, <1>1 DEF FilesOK
      <4>2. \A m \in Listed : m.path = q => m = n
        BY <3>1, ListedNodes
      <4> QED
        BY <4>1, <4>2, <2>2, <3>1 DEF Same
    <3>2. CASE q # n.path
      BY <2>4, <3>2 DEF FilesOK
    <3> QED
      BY <3>1, <3>2
  <2>5. FilesOK(G)
    BY <2>3, <2>4 DEF FilesOK
  <2> QED
    BY <2>1, <2>5
<1>4. CASE HardlinkFind(n.nid) = NULL /\ ~n.dir
  <2>1. WriteNode(file, n) = ExtractFile(file, n, n.path)
    BY <1>4 DEF WriteNode
  <2>2. Same(n.path, n.path)
    BY DEF Same
  <2> QED
    BY <1>1, <2>1, <2>2, ExtractFileOK
<1> QED
  BY <1>2, <1>3, <1>4
-----------------------------------------------------------------------------
LEMMA ExtractInit == Init => ExtractInv
<1> SUFFICES ASSUME Init PROVE ExtractInv
  OBVIOUS
<1>1. ImageInv
  BY DEF Init, ImageInv
<1>2. TableInv
  BY DEF Init, TableInv
<1>3. WorkInv
  BY DEF Init, WorkInv
<1>4. FilesOK(file)
  <2>1. PICK B \in Before :
          file = [p \in Paths |-> IF p \in B THEN [at |-> p, data |-> Old] ELSE NULL]
    BY DEF Init
  <2>2. \A p \in Paths : [at |-> p, data |-> Old] \in FileRec
    BY DEF FileRec, Old
  <2>3. file \in [Paths -> FileRec \cup {NULL}]
    BY <2>1, <2>2
  <2>4. \A p \in Paths : file[p] # NULL => file[p] = [at |-> p, data |-> Old]
    BY <2>1
  <2> QED
    BY <2>2, <2>3, <2>4 DEF FilesOK, Same
<1> QED
  BY <1>1, <1>2, <1>3, <1>4 DEF ExtractInv

(* The image does not change, and with it what right files are. *)
LEMMA SameImage ==
  ASSUME ExtractInv, nodes' = nodes
  PROVE  /\ ImageInv' /\ Listed' = Listed
         /\ (hardlink' = hardlink => TableInv')
         /\ (FilesOK(file') => FilesOK(file)')
<1>1. Listed' = Listed
  BY DEF Listed
<1>2. ImageInv'
  BY DEF ExtractInv, ImageInv
<1>3. ASSUME hardlink' = hardlink PROVE TableInv'
  BY <1>1, <1>3 DEF ExtractInv, TableInv
<1>4. ASSUME FilesOK(file') PROVE FilesOK(file)'
  BY <1>1, <1>4 DEF FilesOK, Same
<1> QED
  BY <1>1, <1>2, <1>3, <1>4

(* Taking a node off a list: it and the rest are nodes of the image. *)
LEMMA TakeOK ==
  ASSUME NEW S, NEW q \in Seq(S), q # << >>
  PROVE  Head(q) \in S /\ Tail(q) \in Seq(S)
OBVIOUS

LEMMA ExtractStep == ExtractInv /\ [Next]_vars => ExtractInv'
<1> SUFFICES ASSUME ExtractInv, [Next]_vars PROVE ExtractInv'
  OBVIOUS
<1> USE DEF ExtractInv
<1>0. nodes' = nodes
  BY DEF Next, vars, env, Classify, Classified, ExtractDir, DirsDone, ExtractOne,
         FilesDone, Progress, Report, Destroy, TakeNode, ThreadWrite, ThreadNote,
         ThreadCount
<1>i. /\ ImageInv' /\ Listed' = Listed
      /\ (hardlink' = hardlink => TableInv')
      /\ (FilesOK(file') => FilesOK(file)')
  BY <1>0, SameImage
<1>1. CASE Classify
  <2> DEFINE n == nodes[idx]
  <2>1. idx \in 1..Len(nodes)
    BY <1>1, ListedNodes DEF Classify, WorkInv
  <2>2. n \in Listed
    BY <2>1 DEF Listed
  <2>3. TableInv'
    <3>1. CASE hardlink' = hardlink
      BY <3>1, <1>i
    <3>2. CASE hardlink' # hardlink
      <4>1. hardlink' = [hardlink EXCEPT ![Slot(n.nid)] = [nid |-> n.nid, path |-> n.path]]
        BY <1>1, <3>2 DEF Classify
      <4> HIDE DEF n
      <4> QED
        BY <4>1, <2>2, <1>i DEF TableInv
    <3> QED
      BY <3>1, <3>2
  <2>4. WorkInv'
    <3>1. nodeDirs' \in Seq(Listed) /\ nodeOther' \in Seq(Listed)
      <4>1. Append(nodeDirs, n) \in Seq(Listed) /\ Append(nodeOther, n) \in Seq(Listed)
        <5> HIDE DEF n
        <5> QED
          BY <2>2 DEF WorkInv
      <4>2. nodeDirs' \in {nodeDirs, Append(nodeDirs, n)}
        BY <1>1 DEF Classify
      <4>3. nodeOther' \in {nodeOther, Append(nodeOther, n)}
        BY <1>1 DEF Classify
      <4> QED
        BY <4>1, <4>2, <4>3 DEF WorkInv
    <3>2. idx' \in Nat \ {0} /\ tpc' = tpc /\ tnode' = tnode
      BY <1>1 DEF Classify, WorkInv, threads
    <3> QED
      BY <3>1, <3>2, <1>i DEF WorkInv
  <2>5. file' = file
    BY <1>1 DEF Classify
  <2> QED
    BY <2>3, <2>4, <2>5, <1>i
<1>2. CASE ExtractDir
  <2>1. Head(nodeDirs) \in Listed /\ Tail(nodeDirs) \in Seq(Listed)
    BY <1>2, TakeOK DEF ExtractDir, WorkInv
  <2>2. file' = WriteNode(file, Head(nodeDirs)).file
    BY <1>2 DEF ExtractDir, NodeTask
  <2>3. FilesOK(file')
    BY <2>1, <2>2, WriteNodeOK
  <2>4. WorkInv' /\ hardlink' = hardlink
    BY <1>2, <2>1, <1>i DEF ExtractDir, WorkInv, threads
  <2> QED
    BY <2>3, <2>4, <1>i
<1>3. CASE ExtractOne
  <2>1. Head(nodeOther) \in Listed /\ Tail(nodeOther) \in Seq(Listed)
    BY <1>3, TakeOK DEF ExtractOne, WorkInv
  <2>2. file' = WriteNode(file, Head(nodeOther)).file
    BY <1>3 DEF ExtractOne, NodeTask
  <2>3. FilesOK(file')
    BY <2>1, <2>2, WriteNodeOK
  <2>4. WorkInv' /\ hardlink' = hardlink
    BY <1>3, <2>1, <1>i DEF ExtractOne, WorkInv, threads
  <2> QED
    BY <2>3, <2>4, <1>i
<1>4. ASSUME NEW t \in Threads, TakeNode(t) PROVE ExtractInv'
  <2>1. Head(nodeOther) \in Listed /\ Tail(nodeOther) \in Seq(Listed)
    BY <1>4, TakeOK DEF TakeNode, WorkInv
  <2>2. WorkInv' /\ hardlink' = hardlink /\ file' = file
    BY <1>4, <2>1, <1>i DEF TakeNode, WorkInv
  <2> QED
    BY <2>2, <1>i
<1>5. ASSUME NEW t \in Threads, ThreadWrite(t) PROVE ExtractInv'
  <2>1. tnode[t] \in Listed
    BY <1>5 DEF ThreadWrite, WorkInv
  <2>2. FilesOK(file')
    BY <1>5, <2>1, WriteNodeOK DEF ThreadWrite
  <2>3. WorkInv' /\ hardlink' = hardlink
    BY <1>5, <1>i DEF ThreadWrite, WorkInv
  <2> QED
    BY <2>2, <2>3, <1>i
<1>6. ASSUME NEW t \in Threads, ThreadNote(t) \/ ThreadCount(t) PROVE ExtractInv'
  <2>1. WorkInv' /\ hardlink' = hardlink /\ file' = file
    BY <1>6, <1>i DEF ThreadNote, ThreadCount, WorkInv
  <2> QED
    BY <2>1, <1>i
<1>7. CASE \/ Classified \/ DirsDone \/ FilesDone \/ Progress \/ Report \/ Destroy
           \/ UNCHANGED vars
  <2>1. /\ idx' = idx /\ nodeDirs' = nodeDirs /\ nodeOther' = nodeOther
        /\ tpc' = tpc /\ tnode' = tnode /\ hardlink' = hardlink /\ file' = file
    BY <1>7 DEF Classified, DirsDone, FilesDone, Progress, Report, Destroy, vars,
                threads
  <2>2. WorkInv'
    BY <2>1, <1>i DEF WorkInv
  <2> QED
    BY <2>1, <2>2, <1>i
<1> QED
  BY <1>1, <1>2, <1>3, <1>4, <1>5, <1>6, <1>7 DEF Next

(* erofs_extract_file, erofs_extract_hardlink: at every moment each path   *)
(* of a file shows the contents of its own inode, what was there before,   *)
(* or what a failed decoding left, whatever the threads and the sharing of *)
(* slots.                                                                  *)
THEOREM OwnDataCorrect == Spec => []OwnData
<1>1. ExtractInv => OwnData
  <2> SUFFICES ASSUME ExtractInv, NEW k \in Extracted,
                      file[nodes[k].path] # NULL
               PROVE  file[nodes[k].path].data \in {nodes[k].nid, Old, Bad}
    BY DEF OwnData
  <2>1. nodes[k] \in Listed /\ nodes[k].path \in Paths
    BY ListedNodes DEF ExtractInv, Extracted, Listed, Node
  <2> QED
    BY <2>1 DEF ExtractInv, FilesOK
<1> QED
  BY <1>1, ExtractInit, ExtractStep, PTL DEF Spec
-----------------------------------------------------------------------------
(* The whole tree.  Between classification and the end every file is       *)
(* waiting, with a thread, or right; files of one inode hang together at   *)
(* the path in the table.                                                  *)

Busy == {t \in Threads : tpc[t] # "idle"}

(* A node that nobody has begun to write. *)
Waiting(n) == \E i \in 1..Len(nodeOther) : nodeOther[i] = n
Held(n) == \E t \in Threads : tpc[t] = "write" /\ tnode[t] = n

(* What AllExtracted asks of one node in the files F. *)
GoodIn(F, k) ==
  /\ nodes[k].nlink = 1 \/ SlotToItself(k) => F[nodes[k].path] # NULL
  /\ overwrite /\ nodes[k].nlink = 1 /\ F[nodes[k].path] # NULL
       => F[nodes[k].path].data # Old

(* A node with several links and a slot of its own. *)
Shared(k) == nodes[k].nlink > 1 /\ SlotToItself(k)

(* The table: an entry is of a file met so far with several links, in the  *)
(* slot of its inode; the entry of a shared inode is its first path.       *)
EntryInv ==
  \A s \in 0..(NR - 1) : hardlink[s] # NULL =>
    \E k \in Extracted :
      /\ k < idx /\ nodes[k].nlink > 1 /\ Slot(nodes[k].nid) = s
      /\ hardlink[s] = [nid |-> nodes[k].nid, path |-> nodes[k].path]
FirstInv ==
  \A k \in Extracted : k < idx /\ Shared(k) =>
    \E f \in Extracted :
      /\ f <= k /\ nodes[f].nid = nodes[k].nid
      /\ HardlinkFind(nodes[k].nid) = nodes[f].path

(* A file of a shared inode is a link to the one at the path in the table, *)
(* or was there before.                                                    *)
LinkedIn(F, k) ==
  F[nodes[k].path] # NULL =>
    \/ F[nodes[k].path].at = HardlinkFind(nodes[k].nid)
    \/ F[nodes[k].path] = [at |-> nodes[k].path, data |-> Old]

BeginInv ==
  pc = "classify" =>
    /\ \A p \in Paths : file[p] # NULL => file[p] = [at |-> p, data |-> Old]
    /\ \A k \in Extracted : k < idx => Waiting(nodes[k])
DoneInv ==
  pc # "classify" =>
    /\ idx > Len(nodes)
    /\ \A k \in Extracted :
         /\ Waiting(nodes[k]) \/ Held(nodes[k]) \/ GoodIn(file, k)
         /\ Shared(k) => LinkedIn(file, k)
EndInv == pc = "end" => nodeOther = << >> /\ Busy = {}

TreeInv == EntryInv /\ FirstInv /\ BeginInv /\ DoneInv /\ EndInv
-----------------------------------------------------------------------------
(* The log.  The nodes waiting, in the pool and counted are all of them.   *)

FilesBefore(i) == {k \in 1..Len(nodes) : k < i /\ ~nodes[k].dir}

LogInv ==
  /\ failed \in Nat /\ (failed = 0 <=> info = {})
  /\ count \in Nat /\ mode \in Modes
  /\ mode = "single" => Busy = {}
  /\ pc = "files" => mode = "single"
  /\ pc = "pool" => mode # "single"
  /\ pc = "classify" =>
       count = 0 /\ Busy = {} /\ Len(nodeOther) = Cardinality(FilesBefore(idx))
  /\ pc # "classify" /\ mode # "single" =>
       count + Cardinality(Busy) + Len(nodeOther) = NFiles
  /\ IsFiniteSet(Busy)
  /\ mode # "silent" /\ pc \in {"report", "destroy", "end"} =>
       nodeOther = << >> /\ Busy = {}
  /\ mode # "silent" /\ pc \in {"destroy", "end"} => log = info
-----------------------------------------------------------------------------
LEMMA LogInit == Init => LogInv
<1> SUFFICES ASSUME Init PROVE LogInv
  OBVIOUS
<1>1. Busy = {} /\ IsFiniteSet(Busy) /\ Cardinality(Busy) = 0
  <2>1. Busy = {}
    BY DEF Init, Busy
  <2> QED
    BY <2>1, FS_EmptySet
<1>2. FilesBefore(idx) = {} /\ Cardinality(FilesBefore(idx)) = 0
  <2>1. FilesBefore(idx) = {}
    BY ExtractAssumption DEF Init, FilesBefore
  <2> QED
    BY <2>1, FS_EmptySet
<1>3. Len(nodeOther) = 0
  BY DEF Init
<1>4. /\ failed = 0 /\ info = {} /\ count = 0 /\ mode \in Modes /\ pc = "classify"
  BY DEF Init
<1> QED
  BY <1>1, <1>2, <1>3, <1>4 DEF LogInv

(* One more thread is busy, or one fewer. *)
LEMMA BusyMore ==
  ASSUME DOMAIN tpc = Threads, IsFiniteSet(Busy), NEW t \in Threads, tpc[t] = "idle",
         NEW v, v # "idle", tpc' = [tpc EXCEPT ![t] = v]
  PROVE  IsFiniteSet(Busy') /\ Cardinality(Busy') = Cardinality(Busy) + 1
<1>1. Busy' = Busy \cup {t} /\ t \notin Busy
  BY DEF Busy
<1> QED
  BY <1>1, FS_AddElement

LEMMA BusyFewer ==
  ASSUME DOMAIN tpc = Threads, IsFiniteSet(Busy), NEW t \in Threads, tpc[t] # "idle",
         tpc' = [tpc EXCEPT ![t] = "idle"]
  PROVE  IsFiniteSet(Busy') /\ Cardinality(Busy') = Cardinality(Busy) - 1
<1>1. Busy' = Busy \ {t} /\ t \in Busy
  BY DEF Busy
<1> QED
  BY <1>1, FS_RemoveElement

LEMMA BusySame ==
  ASSUME DOMAIN tpc = Threads, NEW t \in Threads, tpc[t] # "idle",
         NEW v, v # "idle", tpc' = [tpc EXCEPT ![t] = v]
  PROVE  Busy' = Busy
BY DEF Busy

(* The files before the next node: this one too unless it is a directory. *)
LEMMA FilesBeforeNext ==
  ASSUME ImageInv, NEW i \in 1..Len(nodes)
  PROVE  /\ IsFiniteSet(FilesBefore(i)) /\ Cardinality(FilesBefore(i)) \in Nat
         /\ nodes[i].dir => FilesBefore(i + 1) = FilesBefore(i)
         /\ ~nodes[i].dir => Cardinality(FilesBefore(i + 1)) = Cardinality(FilesBefore(i)) + 1
<1>1. Len(nodes) \in Nat
  BY ListedNodes
<1>2. IsFiniteSet(1..Len(nodes))
  BY <1>1, FS_Interval
<1>3. IsFiniteSet(FilesBefore(i))
  BY <1>2, FS_Subset DEF FilesBefore
<1>4. ASSUME nodes[i].dir PROVE FilesBefore(i + 1) = FilesBefore(i)
  BY <1>1, <1>4 DEF FilesBefore
<1>5. ASSUME ~nodes[i].dir
      PROVE  Cardinality(FilesBefore(i + 1)) = Cardinality(FilesBefore(i)) + 1
  <2>1. FilesBefore(i + 1) = FilesBefore(i) \cup {i} /\ i \notin FilesBefore(i)
    BY <1>1, <1>5 DEF FilesBefore
  <2> QED
    BY <2>1, <1>3, FS_AddElement
<1> QED
  BY <1>3, <1>4, <1>5, FS_CardinalityType

LEMMA FilesBeforeAll ==
  ASSUME ImageInv, NEW i \in Nat, i > Len(nodes)
  PROVE  Cardinality(FilesBefore(i)) = NFiles
<1>1. Len(nodes) \in Nat
  BY ListedNodes
<1>2. FilesBefore(i) = {k \in 1..Len(nodes) : ~nodes[k].dir}
  BY <1>1 DEF FilesBefore
<1> QED
  BY <1>2 DEF NFiles

(* A failure is counted whenever it is noted. *)
LEMMA NotedCounted ==
  ASSUME failed \in Nat, failed = 0 <=> info = {}, NEW err, NEW n,
         info' = IF Exception(err) THEN info \cup {n} ELSE info,
         failed' = IF Exception(err) THEN failed + 1 ELSE failed
  PROVE  failed' \in Nat /\ (failed' = 0 <=> info' = {})
<1>1. CASE Exception(err)
  <2>1. failed' = failed + 1 /\ info' = info \cup {n}
    BY <1>1
  <2>2. info' # {}
    BY <2>1
  <2> QED
    BY <2>1, <2>2
<1>2. CASE ~Exception(err)
  BY <1>2
<1> QED
  BY <1>1, <1>2

LEMMA LogStep == ExtractInv /\ LogInv /\ [Next]_vars => LogInv'
<1> SUFFICES ASSUME ExtractInv, LogInv, [Next]_vars PROVE LogInv'
  OBVIOUS
<1>0. nodes' = nodes /\ mode' = mode /\ NFiles' = NFiles
  BY DEF Next, vars, env, Classify, Classified, ExtractDir, DirsDone, ExtractOne,
         FilesDone, Progress, Report, Destroy, TakeNode, ThreadWrite, ThreadNote,
         ThreadCount, NFiles
<1>t. /\ ImageInv /\ idx \in Nat \ {0} /\ nodeOther \in Seq(Listed)
      /\ Len(nodeOther) \in Nat /\ DOMAIN tpc = Threads
  BY DEF ExtractInv, WorkInv
<1>f. \A i : FilesBefore(i)' = FilesBefore(i')
  BY <1>0 DEF FilesBefore
<1>c. Cardinality(Busy) \in Nat /\ (Cardinality(Busy) = 0 <=> Busy = {})
  BY FS_CardinalityType, FS_EmptySet DEF LogInv
<1>1. CASE Classify
  <2>1. idx \in 1..Len(nodes) /\ idx' = idx + 1
    BY <1>1, <1>t, ListedNodes DEF Classify
  <2>2. Len(nodeOther') = Cardinality(FilesBefore(idx'))
    <3>1. CASE nodes[idx].dir
      <4>1. nodeOther' = nodeOther
        BY <1>1, <3>1 DEF Classify
      <4> QED
        BY <4>1, <3>1, <2>1, <1>1, FilesBeforeNext, <1>t DEF LogInv, Classify
    <3>2. CASE ~nodes[idx].dir
      <4>1. nodeOther' = Append(nodeOther, nodes[idx])
        BY <1>1, <3>2 DEF Classify
      <4>2. Len(nodeOther') = Len(nodeOther) + 1
        BY <4>1, <1>t
      <4> QED
        BY <4>2, <3>2, <2>1, <1>1, FilesBeforeNext, <1>t DEF LogInv, Classify
    <3> QED
      BY <3>1, <3>2
  <2>3. /\ Busy' = Busy /\ count' = count /\ info' = info /\ failed' = failed
        /\ pc = "classify" /\ pc' = pc
    BY <1>1 DEF Classify, threads, result, Busy
  <2> QED
    BY <2>2, <2>3, <1>0 DEF LogInv, FilesBefore
<1>2. CASE Classified
  <2>1. /\ Busy' = Busy /\ count' = count /\ info' = info /\ failed' = failed
        /\ nodeOther' = nodeOther /\ pc = "classify" /\ pc' = "dirs" /\ idx > Len(nodes)
    BY <1>2 DEF Classified, threads, result, Busy
  <2>2. Len(nodeOther) = NFiles
    BY <2>1, <1>t, FilesBeforeAll DEF LogInv
  <2>3. count + Cardinality(Busy) + Len(nodeOther) = NFiles
    BY <2>1, <2>2, <1>c, <1>t DEF LogInv
  <2> QED
    BY <2>1, <2>3, <1>0 DEF LogInv
<1>3. CASE ExtractDir
  <2>1. /\ Busy' = Busy /\ count' = count /\ nodeOther' = nodeOther
        /\ pc = "dirs" /\ pc' = "dirs"
    BY <1>3 DEF ExtractDir, threads, Busy
  <2>2. failed' \in Nat /\ (failed' = 0 <=> info' = {})
    BY <1>3, NotedCounted DEF ExtractDir, NodeTask, LogInv
  <2> QED
    BY <2>1, <2>2, <1>0 DEF LogInv
<1>4. CASE DirsDone
  <2>1. /\ Busy' = Busy /\ count' = count /\ nodeOther' = nodeOther
        /\ info' = info /\ failed' = failed
        /\ pc = "dirs" /\ pc' = IF mode = "single" THEN "files" ELSE "pool"
    BY <1>4 DEF DirsDone, threads, result, Busy
  <2> QED
    BY <2>1, <1>0 DEF LogInv
<1>5. CASE ExtractOne
  <2>1. Busy' = Busy /\ count' = count /\ pc = "files" /\ pc' = "files"
    BY <1>5 DEF ExtractOne, threads, Busy
  <2>2. failed' \in Nat /\ (failed' = 0 <=> info' = {})
    BY <1>5, NotedCounted DEF ExtractOne, NodeTask, LogInv
  <2> QED
    BY <2>1, <2>2, <1>0 DEF LogInv
<1>6. CASE FilesDone
  <2>1. /\ Busy' = Busy /\ count' = count /\ nodeOther' = nodeOther /\ nodeOther = << >>
        /\ info' = info /\ failed' = failed /\ pc = "files" /\ pc' = "report"
    BY <1>6 DEF FilesDone, threads, result, Busy
  <2> QED
    BY <2>1, <1>0 DEF LogInv
<1>7. CASE Progress
  <2>1. /\ Busy' = Busy /\ count' = count /\ nodeOther' = nodeOther
        /\ info' = info /\ failed' = failed /\ pc = "pool" /\ pc' = "report"
        /\ mode = "silent" \/ count >= NFiles
    BY <1>7 DEF Progress, AllCounted, threads, result, Busy
  <2>2. ASSUME mode # "silent" PROVE nodeOther = << >> /\ Busy = {}
    <3>1. count + Cardinality(Busy) + Len(nodeOther) = NFiles /\ count \in Nat
      BY <2>1 DEF LogInv
    <3>2. Cardinality(Busy) = 0 /\ Len(nodeOther) = 0
      BY <3>1, <2>1, <2>2, <1>c, <1>t
    <3> QED
      BY <3>2, <1>c, <1>t
  <2> QED
    BY <2>1, <2>2, <1>0 DEF LogInv
<1>8. CASE Report
  <2>1. /\ Busy' = Busy /\ count' = count /\ nodeOther' = nodeOther
        /\ info' = info /\ failed' = failed /\ pc = "report" /\ pc' = "destroy"
        /\ log' = IF failed > 0 THEN info ELSE {}
    BY <1>8 DEF Report, threads, result, Busy
  <2>2. log' = info
    BY <2>1 DEF LogInv
  <2> QED
    BY <2>1, <2>2, <1>0 DEF LogInv
<1>9. CASE Destroy \/ UNCHANGED vars
  <2>1. /\ Busy' = Busy /\ count' = count /\ nodeOther' = nodeOther /\ log' = log
        /\ info' = info /\ failed' = failed /\ idx' = idx
        /\ (pc = "destroy" /\ pc' = "end") \/ pc' = pc
    BY <1>9 DEF Destroy, vars, threads, result, Busy
  <2>2. FilesBefore(idx)' = FilesBefore(idx)
    BY <2>1, <1>0 DEF FilesBefore
  <2> QED
    BY <2>1, <2>2, <1>0 DEF LogInv
<1>10. ASSUME NEW t \in Threads, TakeNode(t) PROVE LogInv'
  <2>1. /\ count' = count /\ info' = info /\ failed' = failed /\ log' = log
        /\ mode # "single" /\ pc \in {"pool", "report", "destroy"} /\ pc' = pc
        /\ tpc[t] = "idle" /\ nodeOther # << >> /\ nodeOther' = Tail(nodeOther)
        /\ tpc' = [tpc EXCEPT ![t] = "write"]
    BY <1>10 DEF TakeNode, Pooled, result
  <2>2. Len(nodeOther') = Len(nodeOther) - 1
    BY <2>1, <1>t
  <2>3. IsFiniteSet(Busy') /\ Cardinality(Busy') = Cardinality(Busy) + 1
    BY <2>1, <1>t, BusyMore DEF LogInv
  <2>4. count' + Cardinality(Busy') + Len(nodeOther') = NFiles
    BY <2>1, <2>2, <2>3, <1>c, <1>t DEF LogInv
  <2> QED
    BY <2>1, <2>3, <2>4, <1>0 DEF LogInv
<1>11. ASSUME NEW t \in Threads, ThreadWrite(t) PROVE LogInv'
  <2>1. /\ count' = count /\ info' = info /\ failed' = failed /\ log' = log
        /\ pc' = pc /\ idx' = idx /\ nodeOther' = nodeOther
        /\ tpc[t] = "write" /\ tpc' = [tpc EXCEPT ![t] = "note"]
    BY <1>11 DEF ThreadWrite, result
  <2>2. Busy' = Busy
    BY <2>1, <1>t, BusySame
  <2>3. FilesBefore(idx)' = FilesBefore(idx)
    BY <2>1, <1>0 DEF FilesBefore
  <2> QED
    BY <2>1, <2>2, <2>3, <1>0 DEF LogInv
<1>12. ASSUME NEW t \in Threads, ThreadNote(t) PROVE LogInv'
  <2>1. /\ count' = count /\ pc' = pc /\ idx' = idx /\ nodeOther' = nodeOther
        /\ tpc[t] = "note" /\ tpc' = [tpc EXCEPT ![t] = "count"]
    BY <1>12 DEF ThreadNote
  <2>2. Busy' = Busy /\ Busy # {}
    <3>1. t \in Busy
      BY <2>1 DEF Busy
    <3> QED
      BY <3>1, <2>1, <1>t, BusySame
  <2>3. failed' \in Nat /\ (failed' = 0 <=> info' = {})
    BY <1>12, NotedCounted DEF ThreadNote, LogInv
  <2> QED
    BY <2>1, <2>2, <2>3, <1>0 DEF LogInv
<1>13. ASSUME NEW t \in Threads, ThreadCount(t) PROVE LogInv'
  <2>1. /\ count' = count + 1 /\ info' = info /\ failed' = failed /\ log' = log
        /\ pc' = pc /\ idx' = idx /\ nodeOther' = nodeOther
        /\ tpc[t] = "count" /\ tpc' = [tpc EXCEPT ![t] = "idle"]
    BY <1>13 DEF ThreadCount
  <2>2. Busy # {}
    BY <2>1 DEF Busy
  <2>3. IsFiniteSet(Busy') /\ Cardinality(Busy') = Cardinality(Busy) - 1
    BY <2>1, <1>t, BusyFewer DEF LogInv
  <2>4. pc # "classify" /\ mode # "single"
    BY <2>2 DEF LogInv
  <2>5. count' + Cardinality(Busy') + Len(nodeOther') = NFiles /\ count' \in Nat
    BY <2>1, <2>3, <2>4, <1>c, <1>t DEF LogInv
  <2> QED
    BY <2>1, <2>2, <2>3, <2>4, <2>5, <1>0 DEF LogInv
<1> QED
  BY <1>1, <1>2, <1>3, <1>4, <1>5, <1>6, <1>7, <1>8, <1>9, <1>10, <1>11, <1>12, <1>13
     DEF Next

(* writeExceptionInfo2File: unless -s leaves without waiting, the log is   *)
(* written when every node that could fail has been noted, and names all   *)
(* of them, for every image and any number of threads.                     *)
THEOREM LogComplete == Spec => []FailuresLogged
<1>1. LogInv => FailuresLogged
  BY DEF LogInv, FailuresLogged
<1> QED
  BY <1>1, ExtractInit, ExtractStep, LogInit, LogStep, PTL DEF Spec
-----------------------------------------------------------------------------
(* What the assumptions say of the nodes at hand. *)
LEMMA NodeFacts ==
  ASSUME ImageInv, NEW j \in 1..Len(nodes), NEW k \in 1..Len(nodes)
  PROVE  /\ nodes[k] \in Listed /\ nodes[k] \in Node
         /\ nodes[k].path \in Paths /\ nodes[k].nid \in Nat
         /\ nodes[j].path = nodes[k].path => j = k
         /\ nodes[j].nid = nodes[k].nid =>
              /\ nodes[j].dir = nodes[k].dir /\ nodes[j].nlink = nodes[k].nlink
              /\ j = k \/ nodes[j].nlink > 1
         /\ j < k => <<nodes[k].path, nodes[j].path>> \notin PrefixOf
<1>1. nodes \in Seq(Node) /\ IsInjective([i \in 1..Len(nodes) |-> nodes[i].path])
  BY ExtractAssumption DEF ImageInv, Node
<1>2. nodes[k] \in Node
  BY <1>1
<1>3. nodes[j].path = nodes[k].path => j = k
  BY <1>1 DEF IsInjective
<1>4. nodes[k].path \in Paths /\ nodes[k].nid \in Nat
  BY <1>2 DEF Node
<1>5. /\ nodes[j].nid = nodes[k].nid =>
           /\ nodes[j].dir = nodes[k].dir /\ nodes[j].nlink = nodes[k].nlink
           /\ j = k \/ nodes[j].nlink > 1
      /\ j < k => <<nodes[k].path, nodes[j].path>> \notin PrefixOf
  BY ImagesSound DEF ImageInv
<1> QED
  BY <1>2, <1>3, <1>4, <1>5 DEF Listed

(* A file is no NULL. *)
LEMMA RecNotNull ==
  ASSUME NEW p \in Paths, NEW d \in Int
  PROVE  /\ [at |-> p, data |-> d] # NULL
         /\ [at |-> p, data |-> d] \in FileRec
<1>1. [at |-> p, data |-> d] \in FileRec
  BY DEF FileRec
<1>2. NULL \notin FileRec
  BY ExtractAssumption DEF FileRec
<1> QED
  BY <1>1, <1>2

(* erofs_extract_file: what it does to the files. *)
LEMMA ExtractFileEffect ==
  ASSUME ImageInv, NEW F, FilesOK(F), NEW n \in Listed, NEW p \in Paths,
         Same(p, n.path), NEW G, G = ExtractFile(F, n, p).file
  PROVE  /\ \A q \in Paths : F[q] # NULL => G[q] # NULL
         /\ G[p] # NULL
         /\ \A q \in Paths : G[q] # F[q] => Same(q, n.path)
         /\ overwrite \/ F[p] = NULL => G[p].data # Old
         /\ F[p] = NULL => G[p].at = p /\ \A q \in Paths : q # p => G[q] = F[q]
<1> DEFINE data == IF n.nid \in BadNids THEN Bad ELSE n.nid
<1>1. data \in Int /\ data # Old
  <2>1. n.nid \in Nat
    BY ListedNodes DEF Node
  <2> QED
    BY <2>1 DEF Bad, Old
<1>2. DOMAIN F = Paths
  BY DEF FilesOK
<1>3. CASE F[p] = NULL
  <2>1. G = [F EXCEPT ![p] = [at |-> p, data |-> data]]
    BY <1>3 DEF ExtractFile
  <2> HIDE DEF data
  <2>2. G[p] = [at |-> p, data |-> data] /\ \A q \in Paths : q # p => G[q] = F[q]
    BY <2>1, <1>2
  <2>3. G[p] # NULL /\ G[p].at = p /\ G[p].data # Old
    BY <2>2, <1>1, RecNotNull
  <2> QED
    BY <2>2, <2>3
<1>4. CASE F[p] # NULL /\ overwrite
  <2>1. G = [q \in Paths |-> IF F[q] # NULL /\ F[q].at = F[p].at
                             THEN [at |-> F[q].at, data |-> data] ELSE F[q]]
    BY <1>4 DEF ExtractFile
  <2> HIDE DEF data
  <2>2. ASSUME NEW q \in Paths, F[q] # NULL, F[q].at = F[p].at
        PROVE  G[q] # NULL /\ G[q].data # Old /\ Same(q, n.path)
    <3>1. G[q] = [at |-> F[q].at, data |-> data]
      BY <2>1, <2>2
    <3>2. F[q] \in FileRec /\ Same(F[q].at, q) /\ Same(F[p].at, p)
      BY <1>4, <2>2 DEF FilesOK
    <3>3. F[q].at \in Paths
      BY <3>2 DEF FileRec
    <3>4. Same(q, p)
      BY <3>2, <2>2, SameSym, SameTrans
    <3>5. Same(q, n.path)
      BY <3>4, SameTrans
    <3> QED
      BY <3>1, <3>3, <3>5, <1>1, RecNotNull
  <2>3. \A q \in Paths : ~(F[q] # NULL /\ F[q].at = F[p].at) => G[q] = F[q]
    BY <2>1
  <2> QED
    BY <2>2, <2>3, <1>4
<1>5. CASE F[p] # NULL /\ ~overwrite
  BY <1>5 DEF ExtractFile
<1> QED
  BY <1>3, <1>4, <1>5

(* erofs_extract_hardlink: the file r after the data was written, and the  *)
(* link made of it.                                                        *)
LEMMA HardlinkEffect ==
  ASSUME ImageInv, NEW F, FilesOK(F), NEW n \in Listed, NEW src \in Paths,
         NEW m \in Listed, m.path = src, Same(src, n.path),
         NEW G, G = ExtractHardlink(F, n, src, n.path).file
  PROVE  /\ \A q \in Paths : F[q] # NULL => G[q] # NULL
         /\ G[src] # NULL
         /\ \A q \in Paths : G[q] # F[q] => Same(q, n.path)
         /\ ~SamePath(src, n.path) => G[n.path] # NULL
         /\ F[src] = NULL => G[src].at = src
         /\ F[src] # NULL => G[src] = F[src]
         /\ \A q \in Paths : G[q] # F[q] => q = src \/ (q = n.path /\ G[q] = G[src])
<1> DEFINE r == IF F[src] = NULL THEN ExtractFile(F, n, src)
                                 ELSE [file |-> F, err |-> "done"]
           R == r.file
<1>1. /\ \A q \in Paths : F[q] # NULL => R[q] # NULL
      /\ R[src] # NULL
      /\ F[src] = NULL => R[src].at = src
      /\ F[src] # NULL => R[src] = F[src]
      /\ \A q \in Paths : q # src => R[q] = F[q]
  <2>1. CASE F[src] = NULL
    <3>1. R = ExtractFile(F, n, src).file
      BY <2>1
    <3> HIDE DEF R
    <3> QED
      BY <3>1, <2>1, ExtractFileEffect
  <2>2. CASE F[src] # NULL
    BY <2>2
  <2> QED
    BY <2>1, <2>2
<1>2. FilesOK(R)
  BY ExtractFileOK
<1>3. DOMAIN R = Paths /\ n.path \in Paths
  <2>1. DOMAIN R = Paths
    <3> HIDE DEF R
    <3> QED
      BY <1>2 DEF FilesOK
  <2>2. n.path \in Paths
    BY ListedNodes DEF Node
  <2> QED
    BY <2>1, <2>2
<1>4. /\ SamePath(src, n.path) => G = R
      /\ ~SamePath(src, n.path) /\ (R[n.path] = NULL \/ overwrite)
           => G = Linked(R, src, n.path)
      /\ ~SamePath(src, n.path) /\ ~(R[n.path] = NULL \/ overwrite) => G = R
  BY DEF ExtractHardlink
<1> HIDE DEF r, R
<1>5. CASE G = R /\ (SamePath(src, n.path) \/ R[n.path] # NULL)
  BY <1>1, <1>3, <1>4, <1>5
<1>6. CASE ~SamePath(src, n.path) /\ G = Linked(R, src, n.path)
  <2>1. G[n.path] = R[src] /\ \A q \in Paths : q # n.path => G[q] = R[q]
    BY <1>6, <1>3 DEF Linked
  <2>2. G[src] = R[src]
    BY <2>1
  <2>3. Same(n.path, n.path)
    BY DEF Same
  <2> QED
    BY <2>1, <2>2, <2>3, <1>1, <1>3
<1> QED
  BY <1>4, <1>5, <1>6

LEMMA WriteEffect ==
  ASSUME ImageInv, TableInv, FilesOK(file), NEW n \in Listed,
         NEW G, G = WriteNode(file, n).file
  PROVE  /\ \A q \in Paths : file[q] # NULL => G[q] # NULL
         /\ \A q \in Paths : G[q] # file[q] => Same(q, n.path)
<1>1. n.path \in Paths /\ n.nid \in Int
  BY ListedNodes DEF Node
<1>2. Same(n.path, n.path)
  BY DEF Same
<1>3. CASE HardlinkFind(n.nid) # NULL
  <2>1. PICK m \in Listed : m.nid = n.nid /\ m.path = HardlinkFind(n.nid)
    BY <1>3, FindOK
  <2>2. Same(m.path, n.path) /\ m.path \in Paths
    BY <2>1, ListedNodes DEF Same, Node
  <2>3. G = ExtractHardlink(file, n, m.path, n.path).file
    BY <1>3, <2>1 DEF WriteNode
  <2> QED
    BY <2>2, <2>3, HardlinkEffect
<1>4. CASE HardlinkFind(n.nid) = NULL /\ n.dir
  <2>1. G = [file EXCEPT ![n.path] = [at |-> n.path, data |-> n.nid]]
    BY <1>4 DEF WriteNode
  <2>2. DOMAIN file = Paths
    BY DEF FilesOK
  <2>3. G[n.path] = [at |-> n.path, data |-> n.nid]
        /\ \A q \in Paths : q # n.path => G[q] = file[q]
    BY <2>1, <2>2, <1>1
  <2>4. G[n.path] # NULL
    BY <2>3, <1>1, RecNotNull
  <2> QED
    BY <2>3, <2>4, <1>2
<1>5. CASE HardlinkFind(n.nid) = NULL /\ ~n.dir
  <2>1. G = ExtractFile(file, n, n.path).file
    BY <1>5 DEF WriteNode
  <2> QED
    BY <2>1, <1>1, <1>2, ExtractFileEffect
<1> QED
  BY <1>3, <1>4, <1>5
-----------------------------------------------------------------------------
(* Only inodes with several links are in the table. *)
LEMMA FindLinks ==
  ASSUME ImageInv, TableInv, EntryInv, NEW k \in Extracted,
         HardlinkFind(nodes[k].nid) # NULL
  PROVE  nodes[k].nlink > 1
<1>1. k \in 1..Len(nodes) /\ nodes[k].nid \in Nat
  BY NodeFacts DEF Extracted
<1>2. Slot(nodes[k].nid) \in 0..(NR - 1)
  BY <1>1, ExtractAssumption DEF Slot
<1>3. hardlink[Slot(nodes[k].nid)] # NULL /\ hardlink[Slot(nodes[k].nid)].nid = nodes[k].nid
  BY DEF HardlinkFind
<1>4. PICK j \in Extracted :
        /\ nodes[j].nlink > 1
        /\ hardlink[Slot(nodes[k].nid)] = [nid |-> nodes[j].nid, path |-> nodes[j].path]
  BY <1>2, <1>3 DEF EntryInv
<1>5. nodes[j].nid = nodes[k].nid /\ j \in 1..Len(nodes)
  BY <1>3, <1>4 DEF Extracted
<1> QED
  BY <1>1, <1>4, <1>5, NodeFacts

(* The path in the table of an inode that shares its slot with no other is *)
(* that of its first node; only this one is a prefix of it.                *)
LEMMA FindShared ==
  ASSUME ImageInv, WorkInv, FirstInv, idx > Len(nodes), NEW k \in Extracted, Shared(k)
  PROVE  \E f \in Extracted :
           /\ nodes[f].nid = nodes[k].nid
           /\ HardlinkFind(nodes[k].nid) = nodes[f].path
           /\ SamePath(nodes[f].path, nodes[k].path) => f = k
           /\ nodes[f].path \in Paths /\ nodes[f] \in Listed /\ nodes[f].path # NULL
<1>1. k \in 1..Len(nodes) /\ Len(nodes) \in Nat /\ idx \in Nat
  BY ListedNodes DEF Extracted, WorkInv
<1>2. k < idx
  BY <1>1
<1>3. PICK f \in Extracted :
        /\ f <= k /\ nodes[f].nid = nodes[k].nid
        /\ HardlinkFind(nodes[k].nid) = nodes[f].path
  BY <1>2 DEF FirstInv
<1>4. f \in 1..Len(nodes)
  BY DEF Extracted
<1>5. f = k \/ f < k
  BY <1>1, <1>3, <1>4
<1>6. SamePath(nodes[f].path, nodes[k].path) => f = k
  BY <1>1, <1>4, <1>5, NodeFacts DEF SamePath
<1>7. nodes[f].path \in Paths /\ nodes[f] \in Listed
  BY <1>4, NodeFacts
<1>8. nodes[f].path # NULL
  BY <1>7, ExtractAssumption
<1> QED
  BY <1>3, <1>6, <1>7, <1>8

(* Nodes of one inode agree on sharing. *)
LEMMA SharedTogether ==
  ASSUME ImageInv, NEW j \in Extracted, NEW k \in Extracted,
         nodes[j].nid = nodes[k].nid, Shared(k)
  PROVE  Shared(j)
<1>1. j \in 1..Len(nodes) /\ k \in 1..Len(nodes)
  BY DEF Extracted
<1>2. nodes[j].nlink = nodes[k].nlink
  BY <1>1, NodeFacts
<1> QED
  BY <1>2 DEF Shared, SlotToItself

(* A node that was written is right. *)
LEMMA WriteGood ==
  ASSUME ImageInv, TableInv, WorkInv, EntryInv, FirstInv, FilesOK(file),
         idx > Len(nodes), NEW k \in Extracted,
         NEW G, G = WriteNode(file, nodes[k]).file
  PROVE  GoodIn(G, k)
<1> DEFINE n == nodes[k]
<1>1. k \in 1..Len(nodes) /\ n \in Listed /\ n.path \in Paths /\ ~n.dir
  BY NodeFacts DEF Extracted
<1>2. Same(n.path, n.path)
  BY DEF Same
<1>3. CASE HardlinkFind(n.nid) # NULL
  <2>1. n.nlink > 1
    BY <1>3, FindLinks
  <2>2. SUFFICES ASSUME SlotToItself(k) PROVE G[n.path] # NULL
    BY <2>1 DEF GoodIn
  <2>3. PICK f \in Extracted :
          /\ nodes[f].nid = n.nid
          /\ HardlinkFind(n.nid) = nodes[f].path
          /\ SamePath(nodes[f].path, n.path) => f = k
          /\ nodes[f].path \in Paths /\ nodes[f] \in Listed
    BY <2>1, <2>2, FindShared DEF Shared
  <2>4. G = ExtractHardlink(file, n, nodes[f].path, n.path).file
    BY <1>3, <2>3 DEF WriteNode
  <2>5. Same(nodes[f].path, n.path)
    BY <2>3, <1>1 DEF Same
  <2>6. G[nodes[f].path] # NULL /\ (~SamePath(nodes[f].path, n.path) => G[n.path] # NULL)
    <3> HIDE DEF n
    <3> QED
      BY <1>1, <2>3, <2>4, <2>5, HardlinkEffect
  <2> QED
    BY <2>3, <2>6
<1>4. CASE HardlinkFind(n.nid) = NULL
  <2>1. G = ExtractFile(file, n, n.path).file
    BY <1>1, <1>4 DEF WriteNode
  <2>2. G[n.path] # NULL /\ (overwrite => G[n.path].data # Old)
    <3> HIDE DEF n
    <3> QED
      BY <1>1, <1>2, <2>1, ExtractFileEffect
  <2> QED
    BY <2>2 DEF GoodIn
<1> QED
  BY <1>3, <1>4

(* Writing another node keeps a right one right. *)
LEMMA KeepGood ==
  ASSUME ImageInv, TableInv, FilesOK(file), NEW i \in 1..Len(nodes),
         NEW k \in Extracted, i # k, GoodIn(file, k),
         NEW G, G = WriteNode(file, nodes[i]).file
  PROVE  GoodIn(G, k)
<1>1. /\ k \in 1..Len(nodes) /\ nodes[k] \in Listed /\ nodes[k].path \in Paths
      /\ nodes[i] \in Listed
  BY NodeFacts DEF Extracted
<1>2. /\ file[nodes[k].path] # NULL => G[nodes[k].path] # NULL
      /\ G[nodes[k].path] # file[nodes[k].path] => Same(nodes[k].path, nodes[i].path)
  BY <1>1, WriteEffect
<1>3. CASE G[nodes[k].path] = file[nodes[k].path]
  BY <1>3 DEF GoodIn
<1>4. CASE G[nodes[k].path] # file[nodes[k].path]
  <2>1. nodes[k].nid = nodes[i].nid
    BY <1>1, <1>2, <1>4, SameNid
  <2>2. nodes[k].nlink > 1
    BY <1>1, <2>1, NodeFacts
  <2> QED
    BY <1>2, <2>2 DEF GoodIn
<1> QED
  BY <1>3, <1>4

(* The files of a shared inode stay links to the one in the table. *)
LEMMA KeepLinked ==
  ASSUME ImageInv, TableInv, WorkInv, EntryInv, FirstInv, FilesOK(file),
         idx > Len(nodes), NEW i \in 1..Len(nodes),
         NEW k \in Extracted, Shared(k),
         \A j \in Extracted : Shared(j) => LinkedIn(file, j),
         NEW G, G = WriteNode(file, nodes[i]).file
  PROVE  LinkedIn(G, k)
<1>1. /\ k \in 1..Len(nodes) /\ nodes[k] \in Listed /\ nodes[k].path \in Paths
      /\ nodes[i] \in Listed
  BY NodeFacts DEF Extracted
<1>2. G[nodes[k].path] # file[nodes[k].path] => Same(nodes[k].path, nodes[i].path)
  BY <1>1, WriteEffect
<1>3. CASE G[nodes[k].path] = file[nodes[k].path]
  BY <1>3 DEF LinkedIn
<1>4. CASE G[nodes[k].path] # file[nodes[k].path]
  <2>1. nodes[k].nid = nodes[i].nid
    BY <1>1, <1>2, <1>4, SameNid
  <2>2. PICK f \in Extracted :
          /\ nodes[f].nid = nodes[k].nid
          /\ HardlinkFind(nodes[k].nid) = nodes[f].path
          /\ nodes[f].path \in Paths /\ nodes[f] \in Listed /\ nodes[f].path # NULL
    BY FindShared
  <2> DEFINE src == nodes[f].path
  <2>3. G = ExtractHardlink(file, nodes[i], src, nodes[i].path).file
    BY <2>1, <2>2 DEF WriteNode
  <2>4. Same(src, nodes[i].path)
    BY <1>1, <2>1, <2>2 DEF Same
  <2>5. /\ file[src] = NULL => G[src].at = src
        /\ file[src] # NULL => G[src] = file[src]
        /\ G[nodes[k].path] = G[src]
    <3>1. /\ file[src] = NULL => G[src].at = src
          /\ file[src] # NULL => G[src] = file[src]
          /\ \A q \in Paths : G[q] # file[q] =>
               q = src \/ (q = nodes[i].path /\ G[q] = G[src])
      <4> HIDE DEF src
      <4>1. src \in Paths /\ src = nodes[f].path /\ nodes[f] \in Listed
        BY <2>2 DEF src
      <4> QED
        BY <1>1, <2>3, <2>4, <4>1, HardlinkEffect
    <3> QED
      BY <3>1, <1>1, <1>4
  <2>6. G[src].at = src
    <3>1. CASE file[src] = NULL
      BY <2>5, <3>1
    <3>2. CASE file[src] # NULL
      <4>1. LinkedIn(file, f)
        BY <2>2, SharedTogether
      <4>2. file[src].at = src
        BY <4>1, <3>2, <2>2 DEF LinkedIn
      <4> QED
        BY <4>2, <3>2, <2>5
    <3> QED
      BY <3>1, <3>2
  <2> QED
    BY <2>2, <2>5, <2>6 DEF LinkedIn
<1> QED
  BY <1>3, <1>4
-----------------------------------------------------------------------------
LEMMA TreeInit == Init => TreeInv
<1> SUFFICES ASSUME Init PROVE TreeInv
  OBVIOUS
<1>0. ImageInv /\ idx = 1 /\ pc = "classify"
  BY DEF Init, ImageInv
<1>1. EntryInv
  BY DEF Init, EntryInv
<1>2. \A k \in Extracted : ~(k < idx)
  BY <1>0, ListedNodes DEF Extracted
<1>3. FirstInv
  BY <1>2 DEF FirstInv
<1>4. \A p \in Paths : file[p] # NULL => file[p] = [at |-> p, data |-> Old]
  BY DEF Init
<1> QED
  BY <1>0, <1>1, <1>2, <1>3, <1>4 DEF TreeInv, BeginInv, DoneInv, EndInv

(* What does not change with the image, -f and the table. *)
LEMMA TreeFrame ==
  ASSUME nodes' = nodes, overwrite' = overwrite
  PROVE  /\ Extracted' = Extracted
         /\ \A k : Shared(k)' <=> Shared(k)
         /\ \A k : GoodIn(file, k)' <=> GoodIn(file', k)
         /\ hardlink' = hardlink =>
              /\ \A x : HardlinkFind(x)' = HardlinkFind(x)
              /\ \A k : LinkedIn(file, k)' <=> LinkedIn(file', k)
<1>1. Extracted' = Extracted
  BY DEF Extracted
<1>2. \A k : SlotToItself(k)' <=> SlotToItself(k)
  BY <1>1 DEF SlotToItself, Slot
<1>3. \A k : Shared(k)' <=> Shared(k)
  BY <1>2 DEF Shared
<1>4. \A k : GoodIn(file, k)' <=> GoodIn(file', k)
  BY <1>2 DEF GoodIn
<1>5. ASSUME hardlink' = hardlink PROVE \A x : HardlinkFind(x)' = HardlinkFind(x)
  BY <1>5 DEF HardlinkFind, Slot
<1>6. ASSUME hardlink' = hardlink
      PROVE  \A k : LinkedIn(file, k)' <=> LinkedIn(file', k)
  BY <1>5, <1>6 DEF LinkedIn
<1> QED
  BY <1>1, <1>3, <1>4, <1>5, <1>6

LEMMA TableKept ==
  ASSUME EntryInv, FirstInv, nodes' = nodes, overwrite' = overwrite,
         hardlink' = hardlink, idx' = idx
  PROVE  EntryInv' /\ FirstInv'
<1>1. EntryInv'
  BY TreeFrame DEF EntryInv, Slot
<1>2. FirstInv'
  BY TreeFrame DEF FirstInv
<1> QED
  BY <1>1, <1>2

(* erofsNodeClassification keeps the table right. *)
LEMMA TableStep ==
  ASSUME ImageInv, TableInv, WorkInv, EntryInv, FirstInv, Classify
  PROVE  EntryInv' /\ FirstInv'
<1> DEFINE n == nodes[idx]
           s == Slot(n.nid)
           entry == [nid |-> n.nid, path |-> n.path]
<1>1. /\ nodes' = nodes /\ overwrite' = overwrite /\ idx' = idx + 1
      /\ idx \in 1..Len(nodes) /\ Len(nodes) \in Nat
  BY ListedNodes DEF Classify, env, WorkInv
<1>2. /\ n.nid \in Nat /\ n.path \in Paths
  BY <1>1, NodeFacts
<1>3. s \in 0..(NR - 1) /\ entry # NULL
  <2>1. entry \in [nid : Nat, path : Paths]
    BY <1>2
  <2> QED
    BY <1>2, <2>1, ExtractAssumption DEF Slot
<1>4. /\ Extracted' = Extracted /\ Extracted \subseteq 1..Len(nodes)
      /\ \A k : Shared(k)' <=> Shared(k)
  BY <1>1, TreeFrame DEF Extracted
<1>5. CASE n.dir
  <2>1. hardlink' = hardlink
    BY <1>5 DEF Classify
  <2>2. idx \notin Extracted
    BY <1>5 DEF Extracted
  <2>3. EntryInv'
    <3>1. \A k \in Extracted : k < idx => k < idx'
      BY <1>1, <1>4
    <3> QED
      BY <3>1, <2>1, <1>1, <1>4 DEF EntryInv, Slot
  <2>4. FirstInv'
    <3>1. \A k \in Extracted : k < idx' => k < idx
      BY <2>2, <1>1, <1>4
    <3> QED
      BY <3>1, <2>1, <1>1, <1>4, TreeFrame DEF FirstInv
  <2> QED
    BY <2>3, <2>4
<1>6. CASE ~n.dir /\ n.nlink > 1 /\ HardlinkFind(n.nid) = NULL
  <2>1. hardlink' = [hardlink EXCEPT ![s] = entry]
    BY <1>6 DEF Classify
  <2>2. idx \in Extracted
    BY <1>1, <1>6 DEF Extracted
  <2>3. hardlink'[s] = entry /\ \A x \in 0..(NR - 1) : x # s => hardlink'[x] = hardlink[x]
    BY <2>1, <1>3 DEF TableInv
  <2>4. EntryInv'
    <3> SUFFICES ASSUME NEW x \in 0..(NR - 1), hardlink'[x] # NULL
                 PROVE  \E k \in Extracted :
                          /\ k < idx' /\ nodes[k].nlink > 1 /\ Slot(nodes[k].nid) = x
                          /\ hardlink'[x] = [nid |-> nodes[k].nid, path |-> nodes[k].path]
      BY <1>1, <1>4 DEF EntryInv, Slot
    <3>1. CASE x = s
      BY <3>1, <2>2, <2>3, <1>1, <1>6
    <3>2. CASE x # s
      <4>1. \A k \in Extracted : k < idx => k < idx'
        BY <1>1, <1>4
      <4> QED
        BY <4>1, <3>2, <2>3 DEF EntryInv
    <3> QED
      BY <3>1, <3>2
  <2>5. FirstInv'
    <3> SUFFICES ASSUME NEW k \in Extracted, k < idx', Shared(k)
                 PROVE  \E f \in Extracted :
                          /\ f <= k /\ nodes[f].nid = nodes[k].nid
                          /\ HardlinkFind(nodes[k].nid)' = nodes[f].path
      BY <1>1, <1>4 DEF FirstInv
    <3>1. CASE k = idx
      <4>1. HardlinkFind(nodes[k].nid)' = n.path
        BY <3>1, <2>3, <1>1, <1>3 DEF HardlinkFind, Slot
      <4>2. k <= k
        BY <3>1, <1>1
      <4> QED
        BY <4>1, <4>2, <3>1
    <3>2. CASE k # idx
      <4>1. k < idx
        BY <3>2, <1>1, <1>4
      <4>2. PICK f \in Extracted :
              /\ f <= k /\ nodes[f].nid = nodes[k].nid
              /\ HardlinkFind(nodes[k].nid) = nodes[f].path
        BY <4>1 DEF FirstInv
      <4>3. nodes[f].path # NULL
        <5>1. nodes[f].path \in Paths
          BY <1>4, NodeFacts
        <5> QED
          BY <5>1, ExtractAssumption
      <4>4. Slot(nodes[k].nid) # s
        <5> SUFFICES ASSUME Slot(nodes[k].nid) = s PROVE FALSE
          OBVIOUS
        <5>1. n.nid = nodes[k].nid
          BY <2>2, <1>6 DEF Shared, SlotToItself
        <5> QED
          BY <5>1, <4>2, <4>3, <1>6
      <4>5. Slot(nodes[k].nid) \in 0..(NR - 1)
        <5>1. nodes[k].nid \in Nat
          BY <1>4, NodeFacts
        <5> QED
          BY <5>1, ExtractAssumption DEF Slot
      <4>6. HardlinkFind(nodes[k].nid)' = HardlinkFind(nodes[k].nid)
        <5>1. hardlink'[Slot(nodes[k].nid)] = hardlink[Slot(nodes[k].nid)]
          BY <2>3, <4>4, <4>5
        <5> QED
          BY <5>1, <1>1 DEF HardlinkFind, Slot
      <4> QED
        BY <4>2, <4>6
    <3> QED
      BY <3>1, <3>2
  <2> QED
    BY <2>4, <2>5
<1>7. CASE ~n.dir /\ ~(n.nlink > 1 /\ HardlinkFind(n.nid) = NULL)
  <2>1. hardlink' = hardlink
    BY <1>7 DEF Classify
  <2>3. EntryInv'
    <3>1. \A k \in Extracted : k < idx => k < idx'
      BY <1>1, <1>4
    <3> QED
      BY <3>1, <2>1, <1>1, <1>4 DEF EntryInv, Slot
  <2>4. FirstInv'
    <3> SUFFICES ASSUME NEW k \in Extracted, k < idx', Shared(k)
                 PROVE  \E f \in Extracted :
                          /\ f <= k /\ nodes[f].nid = nodes[k].nid
                          /\ HardlinkFind(nodes[k].nid) = nodes[f].path
      BY <1>1, <1>4, <2>1, TreeFrame DEF FirstInv
    <3>1. CASE k = idx
      <4>1. HardlinkFind(n.nid) # NULL
        BY <3>1, <1>7 DEF Shared
      <4>2. hardlink[s] # NULL /\ hardlink[s].nid = n.nid /\ HardlinkFind(n.nid) = hardlink[s].path
        BY <4>1 DEF HardlinkFind
      <4>3. PICK f \in Extracted :
              f < idx /\ hardlink[s] = [nid |-> nodes[f].nid, path |-> nodes[f].path]
        BY <4>2, <1>3 DEF EntryInv
      <4>4. f <= k
        BY <4>3, <3>1, <1>1, <1>4
      <4>5. hardlink[s].nid = nodes[f].nid /\ hardlink[s].path = nodes[f].path
        BY <4>3
      <4> QED
        BY <4>2, <4>4, <4>5, <3>1
    <3>2. CASE k # idx
      <4>1. k < idx
        BY <3>2, <1>1, <1>4
      <4> QED
        BY <4>1 DEF FirstInv
    <3> QED
      BY <3>1, <3>2
  <2> QED
    BY <2>3, <2>4
<1> QED
  BY <1>5, <1>6, <1>7

(* writeNodeEntity2File, whoever runs it: its node becomes right, and the  *)
(* others stay so.                                                         *)
LEMMA WriteStep ==
  ASSUME ExtractInv, TreeInv, pc # "classify", NEW n \in Listed,
         nodes' = nodes, overwrite' = overwrite, hardlink' = hardlink,
         file' = WriteNode(file, n).file
  PROVE  \A k \in Extracted :
           /\ (nodes[k] = n \/ GoodIn(file, k) => GoodIn(file, k)')
           /\ (Shared(k) => LinkedIn(file, k)')
<1> SUFFICES ASSUME NEW k \in Extracted
             PROVE  /\ (nodes[k] = n \/ GoodIn(file, k) => GoodIn(file', k))
                    /\ (Shared(k) => LinkedIn(file', k))
  BY TreeFrame
<1>1. PICK i \in 1..Len(nodes) : n = nodes[i]
  BY DEF Listed
<1>2. /\ ImageInv /\ TableInv /\ WorkInv /\ FilesOK(file)
      /\ EntryInv /\ FirstInv /\ idx > Len(nodes)
      /\ \A j \in Extracted : Shared(j) => LinkedIn(file, j)
  BY DEF ExtractInv, TreeInv, DoneInv
<1>3. k \in 1..Len(nodes)
  BY DEF Extracted
<1>4. nodes[k] = n \/ GoodIn(file, k) => GoodIn(file', k)
  <2>1. CASE nodes[k] = n
    BY <2>1, <1>2, WriteGood
  <2>2. CASE nodes[k] # n
    BY <2>2, <1>1, <1>2, KeepGood
  <2> QED
    BY <2>1, <2>2
<1>5. Shared(k) => LinkedIn(file', k)
  BY <1>1, <1>2, KeepLinked
<1> QED
  BY <1>4, <1>5

(* The rest of the list. *)
LEMMA WaitingTail ==
  ASSUME nodeOther \in Seq(Listed), nodeOther # << >>, nodeOther' = Tail(nodeOther)
  PROVE  \A n : Waiting(n) => n = Head(nodeOther) \/ Waiting(n)'
<1> SUFFICES ASSUME NEW n, Waiting(n), n # Head(nodeOther) PROVE Waiting(n)'
  OBVIOUS
<1>1. PICK i \in 1..Len(nodeOther) : nodeOther[i] = n
  BY DEF Waiting
<1>2. i # 1
  BY <1>1
<1>3. i - 1 \in 1..Len(nodeOther') /\ nodeOther'[i - 1] = n
  BY <1>1, <1>2
<1> QED
  BY <1>3 DEF Waiting

LEMMA TreeStep == ExtractInv /\ LogInv /\ TreeInv /\ [Next]_vars => TreeInv'
<1> SUFFICES ASSUME ExtractInv, LogInv, TreeInv, [Next]_vars PROVE TreeInv'
  OBVIOUS
<1>0. nodes' = nodes /\ overwrite' = overwrite
  BY DEF Next, vars, env, Classify, Classified, ExtractDir, DirsDone, ExtractOne,
         FilesDone, Progress, Report, Destroy, TakeNode, ThreadWrite, ThreadNote,
         ThreadCount
<1>t. /\ ImageInv /\ TableInv /\ WorkInv /\ idx \in Nat \ {0}
      /\ nodeOther \in Seq(Listed) /\ DOMAIN tpc = Threads /\ DOMAIN tnode = Threads
  BY DEF ExtractInv, WorkInv
<1>v. EntryInv /\ FirstInv /\ BeginInv /\ DoneInv /\ EndInv
  BY DEF TreeInv
<1>e. /\ Extracted' = Extracted
      /\ \A k : Shared(k)' <=> Shared(k)
      /\ \A k : GoodIn(file, k)' <=> GoodIn(file', k)
      /\ hardlink' = hardlink =>  \A k : LinkedIn(file, k)' <=> LinkedIn(file', k)
  BY <1>0, TreeFrame
<1>g. file' = file => \A k : GoodIn(file, k) => GoodIn(file, k)'
  BY <1>e
<1>l. file' = file /\ hardlink' = hardlink =>
        \A k : LinkedIn(file, k) => LinkedIn(file, k)'
  BY <1>e
<1>1. CASE Classify
  <2>1. EntryInv' /\ FirstInv'
    BY <1>1, <1>t, <1>v, TableStep
  <2>2. pc = "classify" /\ pc' = pc /\ file' = file /\ idx' = idx + 1
    BY <1>1 DEF Classify
  <2>3. ASSUME NEW k \in Extracted, k < idx' PROVE Waiting(nodes[k])'
    <3>1. CASE k = idx
      <4>1. ~nodes[idx].dir
        BY <3>1 DEF Extracted
      <4>2. nodeOther' = Append(nodeOther, nodes[k])
        BY <1>1, <3>1, <4>1 DEF Classify
      <4>3. Len(nodeOther') \in 1..Len(nodeOther') /\ nodeOther'[Len(nodeOther')] = nodes[k]
        BY <4>2, <1>t
      <4> QED
        BY <4>3, <1>0 DEF Waiting
    <3>2. CASE k # idx
      <4>1. k < idx
        BY <3>2, <2>2, <2>3, <1>t, ListedNodes DEF Extracted
      <4>2. PICK i \in 1..Len(nodeOther) : nodeOther[i] = nodes[k]
        BY <4>1, <2>2, <1>v DEF BeginInv, Waiting
      <4>3. nodeOther' \in {nodeOther, Append(nodeOther, nodes[idx])}
        BY <1>1 DEF Classify
      <4>4. i \in 1..Len(nodeOther') /\ nodeOther'[i] = nodes[k]
        BY <4>2, <4>3, <1>t
      <4> QED
        BY <4>4, <1>0 DEF Waiting
    <3> QED
      BY <3>1, <3>2
  <2>4. BeginInv'
    <3>1. \A p \in Paths : file'[p] # NULL => file'[p] = [at |-> p, data |-> Old]
      BY <2>2, <1>v DEF BeginInv
    <3>2. \A k \in Extracted' : k < idx' => Waiting(nodes[k])'
      BY <2>3, <1>e
    <3> QED
      BY <3>1, <3>2 DEF BeginInv
  <2> QED
    BY <2>1, <2>2, <2>4 DEF TreeInv, DoneInv, EndInv
<1>2. CASE Classified
  <2>1. /\ pc = "classify" /\ pc' = "dirs" /\ idx > Len(nodes) /\ idx' = idx
        /\ hardlink' = hardlink /\ file' = file /\ nodeOther' = nodeOther
    BY <1>2 DEF Classified
  <2>2. EntryInv' /\ FirstInv'
    BY <2>1, <1>0, <1>v, TableKept
  <2>3. ASSUME NEW k \in Extracted
        PROVE  Waiting(nodes[k])' /\ (Shared(k) => LinkedIn(file, k)')
    <3>0. k \in 1..Len(nodes) /\ Len(nodes) \in Nat
      BY <1>t, ListedNodes DEF Extracted
    <3>1. k < idx /\ nodes[k].path \in Paths
      <4>1. k < idx
        BY <3>0, <2>1, <1>t
      <4>2. nodes[k].path \in Paths
        BY <3>0, <1>t, NodeFacts
      <4> QED
        BY <4>1, <4>2
    <3>2. Waiting(nodes[k])
      BY <3>1, <2>1, <1>v DEF BeginInv
    <3>3. LinkedIn(file, k)
      BY <3>1, <2>1, <1>v DEF BeginInv, LinkedIn
    <3> QED
      BY <3>2, <3>3, <2>1, <1>0, <1>l DEF Waiting
  <2>4. DoneInv'
    BY <2>1, <2>3, <1>0, <1>e DEF DoneInv
  <2> QED
    BY <2>1, <2>2, <2>4 DEF TreeInv, BeginInv, EndInv
<1>3. CASE ExtractDir
  <2>1. /\ pc = "dirs" /\ pc' = "dirs" /\ idx' = idx /\ hardlink' = hardlink
        /\ nodeOther' = nodeOther /\ tpc' = tpc /\ tnode' = tnode
        /\ nodeDirs # << >> /\ file' = WriteNode(file, Head(nodeDirs)).file
    BY <1>3 DEF ExtractDir, NodeTask, threads
  <2>2. EntryInv' /\ FirstInv'
    BY <2>1, <1>0, <1>v, TableKept
  <2>3. Head(nodeDirs) \in Listed
    BY <2>1, <1>t, TakeOK DEF WorkInv
  <2>4. \A k \in Extracted :
          /\ (GoodIn(file, k) => GoodIn(file, k)') /\ (Shared(k) => LinkedIn(file, k)')
    BY <2>1, <2>3, <1>0, WriteStep
  <2>5. \A n : (Waiting(n) => Waiting(n)') /\ (Held(n) => Held(n)')
    BY <2>1 DEF Waiting, Held
  <2>6. DoneInv'
    BY <2>1, <2>4, <2>5, <1>0, <1>e, <1>v DEF DoneInv
  <2> QED
    BY <2>1, <2>2, <2>6 DEF TreeInv, BeginInv, EndInv
<1>4. CASE ExtractOne
  <2>1. /\ pc = "files" /\ pc' = "files" /\ idx' = idx /\ hardlink' = hardlink
        /\ tpc' = tpc /\ tnode' = tnode /\ nodeOther # << >>
        /\ nodeOther' = Tail(nodeOther) /\ file' = WriteNode(file, Head(nodeOther)).file
    BY <1>4 DEF ExtractOne, NodeTask, threads
  <2>2. EntryInv' /\ FirstInv'
    BY <2>1, <1>0, <1>v, TableKept
  <2>3. Head(nodeOther) \in Listed
    BY <2>1, <1>t, TakeOK
  <2>4. \A k \in Extracted :
          /\ (nodes[k] = Head(nodeOther) \/ GoodIn(file, k) => GoodIn(file, k)')
          /\ (Shared(k) => LinkedIn(file, k)')
    BY <2>1, <2>3, <1>0, WriteStep
  <2>5. \A n : (Waiting(n) => n = Head(nodeOther) \/ Waiting(n)') /\ (Held(n) => Held(n)')
    BY <2>1, <1>t, WaitingTail DEF Held
  <2>6. DoneInv'
    BY <2>1, <2>4, <2>5, <1>0, <1>e, <1>v DEF DoneInv
  <2> QED
    BY <2>1, <2>2, <2>6 DEF TreeInv, BeginInv, EndInv
<1>5. ASSUME NEW t \in Threads, TakeNode(t) PROVE TreeInv'
  <2>1. /\ pc \in {"pool", "report", "destroy"} /\ pc' = pc /\ idx' = idx
        /\ hardlink' = hardlink /\ file' = file /\ nodeOther # << >>
        /\ nodeOther' = Tail(nodeOther) /\ tpc[t] = "idle"
        /\ tpc' = [tpc EXCEPT ![t] = "write"]
        /\ tnode' = [tnode EXCEPT ![t] = Head(nodeOther)]
    BY <1>5 DEF TakeNode, Pooled
  <2>2. EntryInv' /\ FirstInv'
    BY <2>1, <1>0, <1>v, TableKept
  <2>3. \A n : Held(n) => Held(n)'
    BY <2>1, <1>t DEF Held
  <2>4. \A n : n = Head(nodeOther) => Held(n)'
    <3>1. tpc'[t] = "write" /\ tnode'[t] = Head(nodeOther)
      BY <2>1, <1>t
    <3> QED
      BY <3>1 DEF Held
  <2>5. \A n : Waiting(n) => Held(n)' \/ Waiting(n)'
    BY <2>1, <2>4, <1>t, WaitingTail
  <2>6. DoneInv'
    BY <2>1, <2>3, <2>5, <1>0, <1>e, <1>g, <1>l, <1>v DEF DoneInv
  <2> QED
    BY <2>1, <2>2, <2>6 DEF TreeInv, BeginInv, EndInv
<1>6. ASSUME NEW t \in Threads, ThreadWrite(t) PROVE TreeInv'
  <2>1. /\ pc' = pc /\ idx' = idx /\ hardlink' = hardlink /\ nodeOther' = nodeOther
        /\ tpc[t] = "write" /\ tpc' = [tpc EXCEPT ![t] = "note"] /\ tnode' = tnode
        /\ file' = WriteNode(file, tnode[t]).file
    BY <1>6 DEF ThreadWrite
  <2>2. EntryInv' /\ FirstInv'
    BY <2>1, <1>0, <1>v, TableKept
  <2>3. tnode[t] \in Listed
    BY <2>1, <1>t DEF WorkInv
  <2>4. pc # "classify" /\ pc # "end"
    BY <2>1, <1>v DEF LogInv, EndInv, Busy
  <2>5. \A k \in Extracted :
          /\ (nodes[k] = tnode[t] \/ GoodIn(file, k) => GoodIn(file, k)')
          /\ (Shared(k) => LinkedIn(file, k)')
    BY <2>1, <2>3, <2>4, <1>0, WriteStep
  <2>6. \A n : Held(n) => n = tnode[t] \/ Held(n)'
    <3> SUFFICES ASSUME NEW n, Held(n), n # tnode[t] PROVE Held(n)'
      OBVIOUS
    <3>1. PICK u \in Threads : tpc[u] = "write" /\ tnode[u] = n
      BY DEF Held
    <3>2. u # t
      BY <3>1
    <3>3. tpc'[u] = "write" /\ tnode'[u] = n
      BY <3>1, <3>2, <2>1, <1>t
    <3> QED
      BY <3>3 DEF Held
  <2>7. \A n : Waiting(n) => Waiting(n)'
    BY <2>1 DEF Waiting
  <2>8. DoneInv'
    BY <2>1, <2>5, <2>6, <2>7, <1>0, <1>e, <1>v DEF DoneInv
  <2> QED
    BY <2>1, <2>2, <2>4, <2>8 DEF TreeInv, BeginInv, EndInv
<1>7. ASSUME NEW t \in Threads, ThreadNote(t) \/ ThreadCount(t) PROVE TreeInv'
  <2>1. /\ pc' = pc /\ idx' = idx /\ hardlink' = hardlink /\ nodeOther' = nodeOther
        /\ file' = file /\ tpc[t] \in {"note", "count"}
        /\ \A u \in Threads : u # t => tpc'[u] = tpc[u] /\ tnode'[u] = tnode[u]
    BY <1>7, <1>t DEF ThreadNote, ThreadCount
  <2>2. EntryInv' /\ FirstInv'
    BY <2>1, <1>0, <1>v, TableKept
  <2>3. pc # "classify" /\ pc # "end"
    BY <2>1, <1>v DEF LogInv, EndInv, Busy
  <2>4. \A n : Held(n) => Held(n)'
    <3> SUFFICES ASSUME NEW n, Held(n) PROVE Held(n)'
      OBVIOUS
    <3>1. PICK u \in Threads : tpc[u] = "write" /\ tnode[u] = n
      BY DEF Held
    <3>2. tpc'[u] = "write" /\ tnode'[u] = n
      BY <3>1, <2>1
    <3> QED
      BY <3>2 DEF Held
  <2>5. \A n : Waiting(n) => Waiting(n)'
    BY <2>1 DEF Waiting
  <2>6. DoneInv'
    BY <2>1, <2>4, <2>5, <1>0, <1>e, <1>g, <1>l, <1>v DEF DoneInv
  <2> QED
    BY <2>1, <2>2, <2>3, <2>6 DEF TreeInv, BeginInv, EndInv
<1>8. CASE DirsDone \/ FilesDone \/ Progress \/ Report \/ Destroy \/ UNCHANGED vars
  <2>1. /\ idx' = idx /\ hardlink' = hardlink /\ nodeOther' = nodeOther /\ file' = file
        /\ tpc' = tpc /\ tnode' = tnode
    BY <1>8 DEF DirsDone, FilesDone, Progress, Report, Destroy, vars, threads
  <2>2. EntryInv' /\ FirstInv'
    BY <2>1, <1>0, <1>v, TableKept
  <2>3. \A n : /\ Waiting(n)' <=> Waiting(n)
               /\ Held(n)' <=> Held(n)
    BY <2>1 DEF Waiting, Held
  <2>4. Busy' = Busy
    BY <2>1 DEF Busy
  <2>5. pc' = pc \/ (pc # "classify" /\ pc' # "classify")
    BY <1>8 DEF DirsDone, FilesDone, Progress, Report, Destroy, vars
  <2>6. BeginInv'
    BY <2>1, <2>3, <2>5, <1>0, <1>e, <1>v DEF BeginInv
  <2>7. DoneInv'
    BY <2>1, <2>3, <2>5, <1>0, <1>e, <1>g, <1>l, <1>v DEF DoneInv
  <2>8. EndInv'
    <3>1. CASE Destroy
      BY <3>1, <2>1, <2>4 DEF Destroy, EndInv, Busy
    <3>2. CASE ~Destroy
      <4>1. pc' = "end" => pc = "end"
        BY <1>8, <3>2 DEF DirsDone, FilesDone, Progress, Report, vars
      <4> QED
        BY <4>1, <2>1, <2>4, <1>v DEF EndInv
    <3> QED
      BY <3>1, <3>2
  <2> QED
    BY <2>2, <2>6, <2>7, <2>8 DEF TreeInv
<1> QED
  BY <1>1, <1>2, <1>3, <1>4, <1>5, <1>6, <1>7, <1>8 DEF Next

(* At the end nothing waits and no thread has a node, so every file is     *)
(* right.                                                                  *)
LEMMA TreeSafe == ExtractInv /\ TreeInv => LinksShared /\ AllExtracted
<1> SUFFICES ASSUME ExtractInv, TreeInv, pc = "end" PROVE LinksShared /\ AllExtracted
  BY DEF LinksShared, AllExtracted
<1>1. \A k \in Extracted : GoodIn(file, k) /\ (Shared(k) => LinkedIn(file, k))
  <2>1. \A n : ~Waiting(n) /\ ~Held(n)
    BY DEF TreeInv, EndInv, Waiting, Held, Busy
  <2> QED
    BY <2>1 DEF TreeInv, DoneInv
<1>2. AllExtracted
  BY <1>1 DEF AllExtracted, GoodIn
<1>3. LinksShared
  <2> SUFFICES ASSUME NEW j \in Extracted, NEW k \in Extracted,
                      Ours(j), Ours(k), SlotToItself(j)
               PROVE  (nodes[j].nid = nodes[k].nid) <=>
                        (file[nodes[j].path].at = file[nodes[k].path].at)
    BY DEF LinksShared
  <2>0. ImageInv /\ FilesOK(file)
    BY DEF ExtractInv
  <2>1. /\ j \in 1..Len(nodes) /\ nodes[j] \in Listed /\ nodes[j].path \in Paths
        /\ k \in 1..Len(nodes) /\ nodes[k] \in Listed /\ nodes[k].path \in Paths
    BY <2>0, NodeFacts DEF Extracted
  <2>2. ASSUME file[nodes[j].path].at = file[nodes[k].path].at
        PROVE  nodes[j].nid = nodes[k].nid
    <3>1. /\ Same(file[nodes[j].path].at, nodes[j].path)
          /\ Same(file[nodes[k].path].at, nodes[k].path)
      BY <2>0, <2>1 DEF FilesOK, Ours
    <3>2. Same(nodes[j].path, nodes[k].path)
      BY <3>1, <2>2, <2>0, SameSym, SameTrans
    <3> QED
      BY <3>2, <2>0, <2>1, SameNid
  <2>3. ASSUME nodes[j].nid = nodes[k].nid, j # k
        PROVE  file[nodes[j].path].at = file[nodes[k].path].at
    <3>1. nodes[j].nlink > 1
      BY <2>0, <2>1, <2>3, NodeFacts
    <3>2. Shared(j) /\ Shared(k)
      BY <3>1, <2>0, <2>3, SharedTogether DEF Shared
    <3>3. ASSUME NEW i \in Extracted, Shared(i), Ours(i)
          PROVE  file[nodes[i].path].at = HardlinkFind(nodes[i].nid)
      <4>1. file[nodes[i].path] # NULL /\ file[nodes[i].path].data # Old
        BY <3>3 DEF Ours
      <4>2. file[nodes[i].path] # [at |-> nodes[i].path, data |-> Old]
        BY <4>1
      <4>3. LinkedIn(file, i)
        BY <3>3, <1>1
      <4> QED
        BY <4>1, <4>2, <4>3 DEF LinkedIn
    <3> QED
      BY <3>2, <3>3, <2>3
  <2> QED
    BY <2>2, <2>3
<1> QED
  BY <1>2, <1>3

(* The extracted tree is that of the image: contents are never mixed up,   *)
(* and once the pool is destroyed every file is there and the paths of an  *)
(* inode are links to one file, whatever thread wrote which and in which   *)
(* order, for every image, any number of threads and any size of the table *)
(* of hard links (erofs_extract_hardlink, writeNodeEntity2File).           *)
THEOREM TreeCorrect == Spec => []TreeExtracted
<1>1. LinksShared /\ AllExtracted /\ OwnData => TreeExtracted
  BY DEF TreeExtracted
<1> QED
  BY <1>1, OwnDataCorrect, TreeSafe, TreeInit, TreeStep, ExtractInit, ExtractStep,
     LogInit, LogStep, PTL DEF Spec
=============================================================================
