-------------------------- MODULE MkfsBuildProofs ---------------------------
(***************************************************************************)
(* What the build promises, for every source tree, every set of inodes     *)
(* that cannot be handled and every interleaving of the main thread with   *)
(* the dfops worker.                                                       *)
(***************************************************************************)
EXTENDS MkfsBuild, FiniteSetTheorems, WellFoundedInduction, TLAPS

Jobs == [type : JobTypes, inode : Inodes \cup {NULL}]
MainPC == {"root", "flush", "scan", "dir_bh", "stop", "join", "joined", "flushed", "done"}

(* The jobs sent and the one about to be sent. *)
Q == IF out = NULL THEN jobs ELSE Append(jobs, out)

(* A directory whose entries were read, and one whose DIR_BH job was not   *)
(* handled yet: it refers to everything it names.                          *)
Read(d) == d \in Dirs /\ Visited(d) /\ d \notin failing
Open(d) == Read(d) /\ dents[d][0] = "open"

(* The directory dump_tree has sent and has no reference to yet.           *)
Fresh(d) == mpc = "scan" /\ out = Job("DIR", d)

(* The directories left to dump. *)
Chain == subs \o dumpdir

Placing(n, i) == n \in 1..Len(Q) /\ Q[n] = PlaceJob(i)
Writing(n, d) == n \in 1..Len(Q) /\ Q[n] = Job("DIR_BH", d)

(* Inode i has its buffer, or gets it before the n-th job. *)
PlacedBy(i, n) == bh[i] # "none" \/ \E m \in 1..(n - 1) : Placing(m, i)
-----------------------------------------------------------------------------
TypeInv ==
  /\ kids \in Trees /\ failing \subseteq Inodes
  /\ freed \subseteq Inodes
  /\ parent \in [Inodes -> Dirs \cup {NULL}]
  /\ bh \in [Inodes -> {"none", "skip", "write"}]
  /\ inl \in [Inodes -> {"none", "skip", "write"}]
  /\ DOMAIN dents = Dirs
  /\ \A d \in Dirs : dents[d] \in [Entries(d) -> {"open", "zero", "nid"}]
  /\ mpc \in MainPC
  /\ dumpdir \in Seq(Dirs) /\ subs \in Seq(Dirs)
  /\ idx \in Nat \ {0}
  /\ out \in Jobs \cup {NULL} /\ jobs \in Seq(Jobs)
  /\ err \in BOOLEAN
  /\ wpc \in {"run", "exited"}

(* Where the two threads can be. *)
MainInv ==
  /\ mpc = "root" => /\ out = NULL /\ jobs = << >> /\ freed = {} /\ ~err
                     /\ dumpdir = <<Root>> /\ subs = << >> /\ idx = 1
                     /\ \A i \in Inodes : parent[i] = NULL
  /\ mpc = "flush" => /\ out \in {NULL, Job("DIR", Root)}
                      /\ dumpdir = <<Root>> /\ subs = << >> /\ idx = 1
  /\ mpc = "scan" => /\ out = NULL \/ \E i \in Inodes : out = PlaceJob(i)
                     /\ dumpdir # << >>
  /\ mpc = "dir_bh" => /\ \E d \in Dirs : out = Job("DIR_BH", d)
                       /\ subs = << >> /\ idx = 1
  /\ mpc = "stop" => out \in {NULL, Job("MAX", NULL)}
  /\ mpc \in {"join", "joined", "flushed", "done"} => out = NULL
  /\ mpc \in {"stop", "join", "joined", "flushed", "done"} =>
       subs = << >> /\ (err \/ dumpdir = << >>)
  /\ err => /\ mpc \in {"stop", "join", "done"}
            /\ Root \in failing
            /\ \A i \in Inodes \ {Root} : parent[i] = NULL
  /\ mpc # "root" /\ ~err => Read(Root)

WorkerInv ==
  /\ wpc = "exited" => /\ jobs = << >>
                       /\ mpc \in {"join", "joined", "flushed", "done"}
  /\ mpc \in {"joined", "flushed", "done"} => wpc = "exited"
  /\ mpc = "join" /\ wpc = "run" => jobs # << >> /\ jobs[Len(jobs)] = Job("MAX", NULL)
  /\ \A n \in 1..Len(Q) :
       /\ Q[n].type = "MAX" => /\ n = Len(Q)
                               /\ mpc = "join" \/ (mpc = "stop" /\ out # NULL)
       /\ Q[n].type = "NDIR" => Q[n].inode \in Files
       /\ Q[n].type \in {"DIR", "DIR_BH"} => Q[n].inode \in Dirs

(* A job that places an inode is the only one and comes before that inode  *)
(* has a buffer; a directory it places is not written yet, and the entry   *)
(* of a file it places is in a directory written later.                    *)
PlaceInv ==
  \A i \in Inodes : \A n \in 1..Len(Q) : Placing(n, i) =>
    /\ bh[i] = "none" /\ Visited(i) /\ i \notin failing
    /\ \A m \in 1..Len(Q) : Placing(m, i) => m = n
    /\ i \in Dirs => dents[i][0] = "open"
    /\ i \in Files =>
         /\ Open(parent[i])
         /\ \E k \in 1..Len(kids[parent[i]]) : kids[parent[i]][k] = i
         /\ \A m \in 1..(n - 1) : ~Writing(m, parent[i])

(* A job that writes a directory is the only one, and everything the       *)
(* directory names is placed before it, but entries that were given up.    *)
WriteInv ==
  \A d \in Dirs : \A n \in 1..Len(Q) : Writing(n, d) =>
    /\ Open(d)
    /\ \A m \in 1..Len(Q) : Writing(m, d) => m = n
    /\ PlacedBy(d, n) /\ PlacedBy(parent[d], n)
    /\ failing = {} => \A k \in 1..Len(kids[d]) : PlacedBy(kids[d][k], n)

(* An open directory is left to dump, just sent, or about to be written.   *)
ChainInv ==
  ~err /\ mpc # "root" =>
    /\ \A j, k \in 1..Len(Chain) : Chain[j] = Chain[k] => j = k
    /\ \A j \in 1..Len(Chain) :
         /\ Open(Chain[j]) /\ ~Fresh(Chain[j])
         /\ \A n \in 1..Len(Q) : ~Writing(n, Chain[j])
    /\ \A d \in Dirs : Open(d) =>
         \/ \E j \in 1..Len(Chain) : Chain[j] = d
         \/ \E n \in 1..Len(Q) : Writing(n, d)
         \/ Fresh(d)

(* Buffers. *)
BufferInv ==
  \A i \in Inodes :
    /\ inl[i] \in {"none", bh[i]}
    /\ bh[i] # "none" => Visited(i) /\ i \notin failing
    /\ bh[i] = "skip" => Open(i)
    /\ Visited(i) /\ i \notin failing /\ mpc \notin {"flushed", "done"} =>
         PlacedBy(i, Len(Q) + 1)

(* Directories: one that was written was read, the parent of one that was  *)
(* read was read too, and so was that of one that is or was met.           *)
DirInv ==
  \A d \in Dirs :
    /\ dents[d][0] # "open" =>
         Read(d) /\ (mpc \notin {"flushed", "done"} => bh[d] = "write")
    /\ Read(d) => Read(parent[d])
    /\ d # Root /\ (d \in freed \/ Visited(d)) =>
         \E u \in Dirs : \E k \in 1..Len(kids[u]) : kids[u][k] = d /\ Read(u)

(* The references to an inode: its names in open directories, dump_tree's, *)
(* those of its buffers, and that of erofs_mkfs_build_tree to the root.    *)
NamedIn(i, d) == {d} \X {k \in Entries(d) : Target(d, k) = i}
Named(i) == UNION {NamedIn(i, d) : d \in {e \in Dirs : Open(e)}}
One(b) == IF b THEN 1 ELSE 0
Dumping(i) == Open(i) /\ ~Fresh(i)
RootHeld(i) == i = Root /\ ~(mpc = "done" /\ ~err)

CountInv ==
  /\ DOMAIN i_count = Inodes
  /\ \A i \in Inodes :
       /\ IsFiniteSet(Named(i))
       /\ i_count[i] = Cardinality(Named(i)) + One(Dumping(i)) + One(bh[i] # "none")
                         + One(inl[i] = "write") + One(RootHeld(i))
       /\ i \in freed => i_count[i] = 0

(* When nothing fails: what was scanned was met, nothing is freed, and     *)
(* every entry was placed.                                                 *)
HandledInv ==
  failing = {} =>
    /\ mpc = "scan" => \A k \in 1..Len(kids[Head(dumpdir)]) :
         k < idx => Visited(kids[Head(dumpdir)][k])
    /\ \A d \in Dirs :
         dents[d][0] # "open" \/ (\E n \in 1..Len(Q) : Writing(n, d)) =>
           \A k \in 1..Len(kids[d]) : Visited(kids[d][k])
    /\ mpc \notin {"flushed", "done"} => freed = {}
    /\ EntriesPlaced

RootInv == mpc \in {"scan", "dir_bh"} => bh[Root] # "none"

(* What could be flushed was. *)
FlushInv == mpc \in {"flushed", "done"} /\ ~err => \A i \in Inodes : bh[i] # "write"

BuildInv ==
  /\ TypeInv /\ MainInv /\ WorkerInv /\ PlaceInv /\ WriteInv /\ ChainInv
  /\ BufferInv /\ DirInv /\ CountInv /\ HandledInv /\ RootInv
  /\ FlushInv
-----------------------------------------------------------------------------
(* Jobs. *)
LEMMA JobFacts ==
  /\ \A i \in Inodes : /\ PlaceJob(i) \in Jobs /\ PlaceJob(i) # NULL
                       /\ PlaceJob(i).type \in {"NDIR", "DIR"} /\ PlaceJob(i).inode = i
                       /\ (i \in Dirs => PlaceJob(i) = Job("DIR", i))
                       /\ (i \in Files => PlaceJob(i) = Job("NDIR", i))
                       /\ \A j \in Inodes : PlaceJob(i) = PlaceJob(j) => i = j
                       /\ \A d \in Dirs : PlaceJob(i) # Job("DIR_BH", d)
                       /\ PlaceJob(i) # Job("MAX", NULL)
  /\ \A d \in Dirs : /\ Job("DIR_BH", d) \in Jobs /\ Job("DIR_BH", d) # NULL
                     /\ Job("DIR_BH", d).type = "DIR_BH" /\ Job("DIR_BH", d).inode = d
                     /\ Job("DIR_BH", d) # Job("MAX", NULL)
                     /\ \A e \in Dirs : Job("DIR_BH", d) = Job("DIR_BH", e) => d = e
  /\ Job("MAX", NULL) \in Jobs /\ Job("MAX", NULL) # NULL /\ Job("MAX", NULL).type = "MAX"
<1>1. NULL \notin Jobs
  BY MkfsAssumption DEF Jobs
<1>2. ASSUME NEW i \in Inodes
      PROVE  /\ PlaceJob(i) \in Jobs
             /\ PlaceJob(i).type \in {"NDIR", "DIR"} /\ PlaceJob(i).inode = i
             /\ (i \in Dirs => PlaceJob(i) = Job("DIR", i))
             /\ (i \in Files => PlaceJob(i) = Job("NDIR", i))
  BY MkfsAssumption DEF PlaceJob, Job, Jobs, JobTypes, Inodes
<1>3. ASSUME NEW d \in Dirs
      PROVE  /\ Job("DIR_BH", d) \in Jobs
             /\ Job("DIR_BH", d).type = "DIR_BH" /\ Job("DIR_BH", d).inode = d
  BY DEF Job, Jobs, JobTypes, Inodes
<1>4. Job("MAX", NULL) \in Jobs /\ Job("MAX", NULL).type = "MAX"
  BY DEF Job, Jobs, JobTypes
<1> QED
  BY <1>1, <1>2, <1>3, <1>4

(* A job is known by its type and its inode. *)
LEMMA JobKnown ==
  ASSUME NEW j \in Jobs
  PROVE  /\ j.type \in JobTypes /\ j = Job(j.type, j.inode)
         /\ (j.type = "DIR" /\ j.inode \in Dirs => j = PlaceJob(j.inode))
         /\ (j.type = "NDIR" /\ j.inode \in Files => j = PlaceJob(j.inode))
<1>1. j.type \in JobTypes /\ j = Job(j.type, j.inode)
  BY DEF Jobs, Job
<1> QED
  BY <1>1, MkfsAssumption DEF PlaceJob

(* The tree. *)
LEMMA TreeFacts ==
  ASSUME kids \in Trees
  PROVE  /\ \A d \in Dirs : /\ kids[d] \in Seq(Inodes) /\ Len(kids[d]) \in Nat
                            /\ 0 \in Entries(d) /\ -1 \in Entries(d)
                            /\ 1..Len(kids[d]) \subseteq Entries(d)
                            /\ \A k \in Entries(d) : k \in {0, -1} \/ k \in 1..Len(kids[d])
         /\ \A d \in Dirs : \A k \in 1..Len(kids[d]) :
              kids[d][k] \in Inodes /\ kids[d][k] # Root /\ kids[d][k] # d
         /\ \A c \in Dirs, d \in Dirs :
              \A j \in 1..Len(kids[c]), k \in 1..Len(kids[d]) :
                kids[c][j] = kids[d][k] /\ kids[c][j] \in Dirs => c = d /\ j = k
<1>1. IsTree(kids)
  BY MkfsAssumption
<1>2. kids \in [Dirs -> Seq(Inodes)]
  BY <1>1 DEF IsTree
<1>3. \A d \in Dirs : kids[d] \in Seq(Inodes) /\ Len(kids[d]) \in Nat
  BY <1>2
<1>4. \A d \in Dirs : \A k \in 1..Len(kids[d]) : kids[d][k] \in Inodes
  BY <1>3
<1>5. PICK depth \in [Dirs -> 0..Cardinality(Dirs)] :
        /\ depth[Root] = 0
        /\ \A d, e \in Dirs :
             \A k \in 1..Len(kids[d]) : kids[d][k] = e => depth[e] = depth[d] + 1
  BY <1>1 DEF IsTree
<1>6. \A d \in Dirs : depth[d] \in Nat
  BY <1>5, MkfsAssumption, FS_CardinalityType
<1>7. \A d \in Dirs : \A k \in 1..Len(kids[d]) : kids[d][k] # Root /\ kids[d][k] # d
  BY <1>5, <1>6, MkfsAssumption
<1>8. \A d \in Dirs : /\ 0 \in Entries(d) /\ -1 \in Entries(d)
                      /\ 1..Len(kids[d]) \subseteq Entries(d)
                      /\ \A k \in Entries(d) : k \in {0, -1} \/ k \in 1..Len(kids[d])
  BY <1>3 DEF Entries
<1>9. ASSUME NEW c \in Dirs, NEW d \in Dirs, NEW j \in 1..Len(kids[c]),
             NEW k \in 1..Len(kids[d]), kids[c][j] = kids[d][k], kids[c][j] \in Dirs
      PROVE  c = d /\ j = k
  <2>1. kids[c][j] \in Dirs \ {Root}
    BY <1>7, <1>9
  <2> DEFINE e == kids[c][j]
  <2>2. PICK u \in Dirs : \E n \in 1..Len(kids[u]) :
          /\ kids[u][n] = e
          /\ \A v \in Dirs : \A m \in 1..Len(kids[v]) : kids[v][m] = e => v = u /\ m = n
    BY <1>1, <2>1 DEF IsTree
  <2> QED
    BY <2>2, <1>9
<1> QED
  BY <1>3, <1>4, <1>7, <1>8, <1>9

(* Directories are inodes, and NULL is none. *)
LEMMA DirsInodes == Root \in Dirs /\ Dirs \subseteq Inodes /\ NULL \notin Inodes
BY MkfsAssumption DEF Inodes

(* What the entries of a directory name. *)
LEMMA TargetFacts ==
  ASSUME kids \in Trees, NEW d \in Dirs
  PROVE  /\ Target(d, 0) = d /\ Target(d, -1) = parent[d]
         /\ \A k \in 1..Len(kids[d]) : Target(d, k) = kids[d][k]
BY DEF Target
-----------------------------------------------------------------------------
(* The queue of jobs, as the steps change it. *)
LEMMA QType ==
  ASSUME TypeInv
  PROVE  Q \in Seq(Jobs) /\ Len(Q) \in Nat /\ \A n \in 1..Len(Q) : Q[n] \in Jobs
<1>1. Q \in Seq(Jobs)
  BY DEF TypeInv, Q
<1> QED
  BY <1>1

(* Sending a job appends it to the jobs sent. *)
LEMMA QSend ==
  ASSUME TypeInv, out = NULL, NEW x \in Jobs, x # NULL, out' = x, jobs' = jobs
  PROVE  /\ Len(Q') = Len(Q) + 1 /\ Q'[Len(Q) + 1] = x
         /\ \A n \in 1..Len(Q) : Q'[n] = Q[n]
<1>1. Q = jobs /\ Q' = Append(jobs, x) /\ jobs \in Seq(Jobs)
  BY DEF Q, TypeInv
<1> QED
  BY <1>1

(* A job that goes into the ring was among them already. *)
LEMMA QGo ==
  ASSUME TypeInv, out # NULL, out' = NULL, jobs' = Append(jobs, out)
  PROVE  Q' = Q
BY DEF Q

(* The worker takes the first job off. *)
LEMMA QTake ==
  ASSUME TypeInv, jobs # << >>, jobs' = Tail(jobs), out' = out
  PROVE  /\ Len(Q') = Len(Q) - 1 /\ Len(Q) > 0 /\ Q[1] = Head(jobs)
         /\ \A n \in 1..Len(Q') : Q'[n] = Q[n + 1]
<1>1. jobs \in Seq(Jobs) /\ Len(jobs) \in Nat /\ Len(jobs) > 0
  BY DEF TypeInv
<1>2. CASE out = NULL
  BY <1>1, <1>2 DEF Q
<1>3. CASE out # NULL
  <2>1. Q = Append(jobs, out) /\ Q' = Append(Tail(jobs), out)
    BY <1>3 DEF Q
  <2>2. out \in Jobs
    BY <1>3 DEF TypeInv
  <2> QED
    BY <1>1, <2>1, <2>2
<1> QED
  BY <1>2, <1>3

(* A job is sent: x is at the end. *)
LEMMA SendSeen ==
  ASSUME TypeInv, out = NULL, NEW x \in Jobs, x # NULL, out' = x, jobs' = jobs
  PROVE  /\ Len(Q') = Len(Q) + 1
         /\ \A i : \A n \in Nat :
              Placing(n, i)' <=> Placing(n, i) \/ (n = Len(Q) + 1 /\ x = PlaceJob(i))
         /\ \A d : \A n \in Nat :
              Writing(n, d)' <=> Writing(n, d) \/ (n = Len(Q) + 1 /\ x = Job("DIR_BH", d))
<1>1. Len(Q) \in Nat
  BY QType
<1>2. /\ Len(Q') = Len(Q) + 1 /\ Q'[Len(Q) + 1] = x
      /\ \A n \in 1..Len(Q) : Q'[n] = Q[n]
  BY QSend
<1>3. \A n \in Nat : n \in 1..Len(Q') <=> n \in 1..Len(Q) \/ n = Len(Q) + 1
  BY <1>1, <1>2
<1>4. ~(Len(Q) + 1 \in 1..Len(Q))
  BY <1>1
<1> QED
  BY <1>2, <1>3, <1>4 DEF Placing, Writing, PlaceJob, Job

(* A job is taken: the others move up. *)
LEMMA TakeSeen ==
  ASSUME TypeInv, jobs # << >>, jobs' = Tail(jobs), out' = out
  PROVE  /\ Len(Q') = Len(Q) - 1 /\ Len(Q) > 0 /\ Q[1] = Head(jobs)
         /\ \A i : \A n \in Nat \ {0} : Placing(n, i)' <=> Placing(n + 1, i)
         /\ \A d : \A n \in Nat \ {0} : Writing(n, d)' <=> Writing(n + 1, d)
<1>1. Len(Q) \in Nat
  BY QType
<1>2. /\ Len(Q') = Len(Q) - 1 /\ Len(Q) > 0 /\ Q[1] = Head(jobs)
      /\ \A n \in 1..Len(Q') : Q'[n] = Q[n + 1]
  BY QTake
<1>3. \A n \in Nat \ {0} : n \in 1..Len(Q') <=> n + 1 \in 1..Len(Q)
  BY <1>1, <1>2
<1> QED
  BY <1>2, <1>3 DEF Placing, Writing, PlaceJob, Job
-----------------------------------------------------------------------------
(* What stays with the tree. *)
LEMMA TreeKept ==
  ASSUME kids' = kids, failing' = failing, parent' = parent, dents' = dents
  PROVE  /\ \A i : Visited(i)' <=> Visited(i)
         /\ \A d : Read(d)' <=> Read(d)
         /\ \A d : Open(d)' <=> Open(d)
<1>1. \A i : Visited(i)' <=> Visited(i)
  BY DEF Visited
<1>2. \A d : Read(d)' <=> Read(d)
  BY <1>1 DEF Read
<1> QED
  BY <1>1, <1>2 DEF Open

(* The entries of a directory are those of the source tree. *)
LEMMA KidsKept ==
  ASSUME kids' = kids
  PROVE  \A d : Entries(d)' = Entries(d)
BY DEF Entries

(* A buffer stays allocated and a job in its place. *)
LEMMA PlacedSend ==
  ASSUME TypeInv, out = NULL, NEW x \in Jobs, x # NULL, out' = x, jobs' = jobs, bh' = bh
  PROVE  /\ \A i : \A n \in Nat : PlacedBy(i, n) => PlacedBy(i, n)'
         /\ \A i : \A n \in Nat : x = PlaceJob(i) /\ n > Len(Q) + 1 => PlacedBy(i, n)'
         /\ \A i : \A n \in Nat : n <= Len(Q) + 1 /\ PlacedBy(i, n)' => PlacedBy(i, n)
<1>0. Len(Q) \in Nat
  BY QType
<1>1. \A i : \A n \in Nat :
        Placing(n, i)' <=> Placing(n, i) \/ (n = Len(Q) + 1 /\ x = PlaceJob(i))
  BY SendSeen
<1>2. ASSUME NEW i, NEW n \in Nat, x = PlaceJob(i), n > Len(Q) + 1
      PROVE  PlacedBy(i, n)'
  <2>1. \A m \in Nat : m = Len(Q) + 1 => Placing(m, i)' /\ m \in 1..(n - 1)
    BY <1>0, <1>1, <1>2
  <2> QED
    BY <1>0, <2>1 DEF PlacedBy
<1>3. \A i : \A n \in Nat : PlacedBy(i, n) => PlacedBy(i, n)'
  BY <1>1 DEF PlacedBy
<1>4. \A i : \A n \in Nat : n <= Len(Q) + 1 /\ PlacedBy(i, n)' => PlacedBy(i, n)
  BY <1>0, <1>1 DEF PlacedBy
<1> QED
  BY <1>2, <1>3, <1>4

(* What was placed before a job still is when the jobs move up. *)
LEMMA PlacedTake ==
  ASSUME TypeInv, jobs # << >>, jobs' = Tail(jobs), out' = out,
         \A i \in Inodes : bh[i] # "none" \/ Placing(1, i) => bh'[i] # "none"
  PROVE  \A i \in Inodes : \A n \in Nat \ {0} : PlacedBy(i, n + 1) => PlacedBy(i, n)'
<1> SUFFICES ASSUME NEW i \in Inodes, NEW n \in Nat \ {0}, PlacedBy(i, n + 1),
                    bh'[i] = "none"
             PROVE  \E m \in 1..(n - 1) : Placing(m, i)'
  BY DEF PlacedBy
<1>1. PICK m \in 1..n : Placing(m, i)
  BY DEF PlacedBy
<1>2. m # 1
  BY <1>1
<1>3. m - 1 \in 1..(n - 1) /\ m - 1 \in Nat \ {0}
  BY <1>1, <1>2
<1>4. Placing(m - 1, i)'
  <2>1. Placing(m - 1, i)' <=> Placing((m - 1) + 1, i)
    BY <1>3, TakeSeen
  <2> QED
    BY <2>1, <1>1, <1>3
<1> QED
  BY <1>3, <1>4

(* Jobs and buffers that stay the same place the same inodes. *)
LEMMA PlacedKept ==
  ASSUME Q' = Q, bh' = bh
  PROVE  /\ \A i, n : PlacedBy(i, n)' <=> PlacedBy(i, n)
         /\ \A i, n : Placing(n, i)' <=> Placing(n, i)
         /\ \A d, n : Writing(n, d)' <=> Writing(n, d)
<1>1. \A i, n : Placing(n, i)' <=> Placing(n, i)
  BY DEF Placing, PlaceJob, Job
<1>2. \A d, n : Writing(n, d)' <=> Writing(n, d)
  BY DEF Writing, Job
<1> QED
  BY <1>1, <1>2 DEF PlacedBy

(* What is placed by a job is placed by every later one. *)
LEMMA PlacedMono ==
  ASSUME NEW i, NEW n \in Nat, NEW m \in Nat, n <= m, PlacedBy(i, n)
  PROVE  PlacedBy(i, m)
BY DEF PlacedBy
-----------------------------------------------------------------------------
(* References: an inode that something refers to is not freed. *)
LEMMA NamedBy ==
  ASSUME NEW i, NEW d \in Dirs, Open(d), NEW k \in Entries(d), Target(d, k) = i
  PROVE  Named(i) # {}
<1>1. <<d, k>> \in NamedIn(i, d)
  BY DEF NamedIn
<1> QED
  BY <1>1 DEF Named

(* An inode that something refers to has a positive count and is not freed. *)
LEMMA Counted ==
  ASSUME CountInv, NEW i \in Inodes,
         Named(i) # {} \/ Dumping(i) \/ bh[i] # "none" \/ RootHeld(i)
  PROVE  i_count[i] \in Nat /\ i_count[i] > 0 /\ i \notin freed
<1>1. Cardinality(Named(i)) \in Nat /\ (Named(i) # {} => Cardinality(Named(i)) > 0)
  BY FS_CardinalityType, FS_EmptySet DEF CountInv
<1>2. i_count[i] = Cardinality(Named(i)) + One(Dumping(i)) + One(bh[i] # "none")
                     + One(inl[i] = "write") + One(RootHeld(i))
  BY DEF CountInv
<1>3. i_count[i] \in Nat /\ i_count[i] > 0
  BY <1>1, <1>2 DEF One
<1> QED
  BY <1>3 DEF CountInv

(* Reference counts never go below 0. *)
LEMMA CountNat ==
  ASSUME CountInv, NEW i \in Inodes
  PROVE  i_count[i] \in Nat /\ Cardinality(Named(i)) \in Nat
<1>1. Cardinality(Named(i)) \in Nat
  BY FS_CardinalityType DEF CountInv
<1>2. i_count[i] = Cardinality(Named(i)) + One(Dumping(i)) + One(bh[i] # "none")
                     + One(inl[i] = "write") + One(RootHeld(i))
  BY DEF CountInv
<1> QED
  BY <1>1, <1>2 DEF One

(* The inodes of an open directory and of a job that places them are live. *)
LEMMA OpenLive ==
  ASSUME TypeInv, CountInv, NEW d \in Dirs, Open(d)
  PROVE  /\ i_count[d] > 0 /\ d \notin freed
         /\ \A k \in 1..Len(kids[d]) : i_count[kids[d][k]] > 0 /\ kids[d][k] \notin freed
<1>1. kids \in Trees
  BY DEF TypeInv
<1>2. Named(d) # {}
  BY <1>1, TreeFacts, TargetFacts, NamedBy
<1>3. ASSUME NEW k \in 1..Len(kids[d])
      PROVE  Named(kids[d][k]) # {} /\ kids[d][k] \in Inodes
  <2>1. k \in Entries(d) /\ Target(d, k) = kids[d][k] /\ kids[d][k] \in Inodes
    BY <1>1, TreeFacts, TargetFacts
  <2> QED
    BY <2>1, NamedBy
<1> QED
  BY <1>2, <1>3, Counted, DirsInodes

(* So is an inode that waits to be placed. *)
LEMMA PlacingLive ==
  ASSUME TypeInv, CountInv, PlaceInv, NEW i \in Inodes, NEW n \in 1..Len(Q), Placing(n, i)
  PROVE  i_count[i] > 0 /\ i \notin freed
<1>1. CASE i \in Dirs
  <2>1. Open(i)
    BY <1>1 DEF PlaceInv, Open, Read
  <2> QED
    BY <1>1, <2>1, OpenLive
<1>2. CASE i \in Files
  <2>1. Open(parent[i]) /\ \E k \in 1..Len(kids[parent[i]]) : kids[parent[i]][k] = i
    BY <1>2 DEF PlaceInv
  <2>2. parent[i] \in Dirs
    BY <2>1 DEF Open, Read
  <2> QED
    BY <2>1, <2>2, OpenLive
<1> QED
  BY <1>1, <1>2 DEF Inodes
-----------------------------------------------------------------------------
(* erofs_mkfs_handle_directory: only d is read now; the inodes it makes    *)
(* anew are files that nothing refers to.                                  *)
LEMMA ReadDirEffect ==
  ASSUME BuildInv, NEW d \in Dirs, ~Visited(d), d \notin failing, NEW p \in Dirs,
         NEW g, ReadDir(d, p, g), kids' = kids, failing' = failing, dents' = dents
  PROVE  /\ \A i \in Inodes : i \in freed /\ i \notin freed' =>
              /\ i \in Files /\ bh[i] = "none" /\ inl[i] = "none" /\ i_count[i] = 0
              /\ \A n \in 1..Len(Q) : ~Placing(n, i)
         /\ freed' \subseteq freed
         /\ \A k \in 1..Len(kids[d]) : kids[d][k] \notin freed'
         /\ parent'[d] = p
         /\ \A i \in Inodes : i # d => parent'[i] = IF i \in freed /\ i \notin freed'
                                                  THEN NULL ELSE parent[i]
         /\ parent' \in [Inodes -> Dirs \cup {NULL}]
         /\ Visited(d)'
         /\ \A e : Read(e)' <=> Read(e) \/ e = d
         /\ \A e : Open(e)' <=> Open(e) \/ e = d
<1> DEFINE made == {i \in freed : \E k \in 1..Len(kids[d]) : kids[d][k] = i}
<1>0. kids \in Trees /\ parent \in [Inodes -> Dirs \cup {NULL}] /\ CountInv /\ TypeInv
  BY DEF BuildInv, TypeInv
<1>1. /\ freed' = freed \ made
      /\ parent' = [i \in Inodes |-> IF i = d THEN p
                                     ELSE IF i \in made THEN NULL ELSE parent[i]]
  BY DEF ReadDir
<1>2. ~Read(d) /\ dents[d][0] = "open"
  BY DEF Read, BuildInv, DirInv
<1>3. \A i \in made : i \notin Dirs
  <2> SUFFICES ASSUME NEW i \in made, i \in Dirs PROVE FALSE
    OBVIOUS
  <2>1. PICK k \in 1..Len(kids[d]) : kids[d][k] = i
    OBVIOUS
  <2>2. i # Root
    BY <2>1, <1>0, TreeFacts
  <2>3. PICK u \in Dirs : \E m \in 1..Len(kids[u]) : kids[u][m] = i /\ Read(u)
    BY <2>2 DEF BuildInv, DirInv
  <2>4. u = d
    BY <2>1, <2>3, <1>0, TreeFacts
  <2> QED
    BY <2>3, <2>4, <1>2
<1>4. \A i \in Inodes : i \in made <=> i \in freed /\ i \notin freed'
  BY <1>1
<1>5. ASSUME NEW i \in Inodes, i \in freed, i \notin freed'
      PROVE  /\ i \in Files /\ bh[i] = "none" /\ inl[i] = "none" /\ i_count[i] = 0
             /\ \A n \in 1..Len(Q) : ~Placing(n, i)
  <2>1. i \in Files
    BY <1>3, <1>4, <1>5 DEF Inodes
  <2>2. i_count[i] = 0
    BY <1>0, <1>5 DEF CountInv
  <2>3. bh[i] = "none"
    BY <1>0, <1>5, Counted
  <2>4. inl[i] = "none"
    BY <2>3 DEF BuildInv, BufferInv
  <2>5. \A n \in 1..Len(Q) : ~Placing(n, i)
    BY <1>0, <1>5, PlacingLive DEF BuildInv
  <2> QED
    BY <2>1, <2>2, <2>3, <2>4, <2>5
<1>6. \A k \in 1..Len(kids[d]) : kids[d][k] \notin freed'
  BY <1>1
<1>7. d \in Inodes /\ p \in Inodes /\ p # NULL
  BY DirsInodes
<1>8. /\ parent'[d] = p
      /\ \A i \in Inodes : i # d => parent'[i] = IF i \in made THEN NULL ELSE parent[i]
      /\ parent' \in [Inodes -> Dirs \cup {NULL}]
  <2> HIDE DEF made
  <2> QED
    BY <1>0, <1>1, <1>7
<1>9. \A e \in Dirs : e # d => parent'[e] = parent[e]
  <2> HIDE DEF made
  <2> QED
    BY <1>3, <1>8, DirsInodes
<1>10. \A e : Read(e)' <=> Read(e) \/ e = d
  BY <1>7, <1>8, <1>9 DEF Read, Visited
<1>11. \A e : Open(e)' <=> Open(e) \/ e = d
  BY <1>10, <1>2 DEF Open
<1>12. Visited(d)'
  BY <1>7, <1>8 DEF Visited
<1>13. freed' \subseteq freed
  BY <1>1
<1> HIDE DEF made
<1> QED
  BY <1>4, <1>5, <1>6, <1>8, <1>10, <1>11, <1>12, <1>13
-----------------------------------------------------------------------------
(* Where the main thread scans a directory, and what the worker handles. *)
LEMMA OutInQ ==
  ASSUME TypeInv, out # NULL
  PROVE  Len(Q) = Len(jobs) + 1 /\ Q[Len(Q)] = out /\ Len(Q) \in 1..Len(Q) /\ out \in Jobs
<1>1. jobs \in Seq(Jobs) /\ out \in Jobs /\ Q = Append(jobs, out)
  BY DEF TypeInv, Q
<1> QED
  BY <1>1

(* The job the worker handles is the first of those sent. *)
LEMMA HeadFacts ==
  ASSUME BuildInv, wpc = "run", jobs # << >>
  PROVE  /\ Head(jobs) = Q[1] /\ 1 \in 1..Len(Q) /\ Head(jobs) \in Jobs
         /\ Handling("NDIR") => Subject \in Files /\ Placing(1, Subject)
         /\ Handling("DIR") => Subject \in Dirs /\ Placing(1, Subject)
         /\ Handling("DIR_BH") => Subject \in Dirs /\ Writing(1, Subject)
<1>1. jobs \in Seq(Jobs) /\ TypeInv /\ WorkerInv
  BY DEF BuildInv, TypeInv
<1>2. Head(jobs) = Q[1] /\ Len(Q) > 0 /\ Len(Q) \in Nat
  <2>1. CASE out = NULL
    BY <1>1, <2>1 DEF Q
  <2>2. CASE out # NULL
    <3>1. Q = Append(jobs, out)
      BY <2>2 DEF Q
    <3> QED
      BY <1>1, <3>1
  <2> QED
    BY <2>1, <2>2
<1>3. 1 \in 1..Len(Q) /\ Head(jobs) \in Jobs
  BY <1>1, <1>2
<1>4. /\ Head(jobs).type = "NDIR" => Subject \in Files
      /\ Head(jobs).type \in {"DIR", "DIR_BH"} => Subject \in Dirs
  BY <1>1, <1>2, <1>3 DEF WorkerInv, Subject
<1>5. /\ Head(jobs) = Job(Head(jobs).type, Subject)
      /\ (Head(jobs).type = "DIR" /\ Subject \in Dirs => Head(jobs) = PlaceJob(Subject))
      /\ (Head(jobs).type = "NDIR" /\ Subject \in Files => Head(jobs) = PlaceJob(Subject))
  BY <1>3, JobKnown DEF Subject
<1> QED
  BY <1>2, <1>3, <1>4, <1>5 DEF Handling, Placing, Writing

(* The directory being scanned is on the chain. *)
LEMMA ChainHead ==
  ASSUME TypeInv, dumpdir # << >>
  PROVE  /\ Head(dumpdir) \in Dirs /\ Len(subs) + 1 \in 1..Len(Chain)
         /\ Chain[Len(subs) + 1] = Head(dumpdir)
<1>1. subs \in Seq(Dirs) /\ dumpdir \in Seq(Dirs)
  BY DEF TypeInv
<1> QED
  BY <1>1 DEF Chain

(* The directory being scanned is open, and its entries are live. *)
LEMMA ScanFacts ==
  ASSUME BuildInv, mpc = "scan"
  PROVE  /\ Head(dumpdir) \in Dirs /\ dumpdir # << >>
         /\ Open(Head(dumpdir)) /\ ~Fresh(Head(dumpdir))
         /\ \A n \in 1..Len(Q) : ~Writing(n, Head(dumpdir))
         /\ ~err /\ wpc = "run"
         /\ Scanning =>
              /\ idx \in 1..Len(kids[Head(dumpdir)]) /\ Here \in Inodes
              /\ Here # Root /\ Here # Head(dumpdir) /\ Here \notin freed
<1>1. TypeInv /\ MainInv /\ WorkerInv /\ ChainInv /\ CountInv
  BY DEF BuildInv
<1>2. dumpdir # << >> /\ ~err /\ wpc = "run"
  BY <1>1 DEF MainInv, WorkerInv, TypeInv
<1>3. Head(dumpdir) \in Dirs
  BY <1>1, <1>2, ChainHead
<1>4. /\ Open(Head(dumpdir)) /\ ~Fresh(Head(dumpdir))
      /\ \A n \in 1..Len(Q) : ~Writing(n, Head(dumpdir))
  BY <1>1, <1>2, ChainHead DEF ChainInv
<1>5. ASSUME Scanning
      PROVE  /\ idx \in 1..Len(kids[Head(dumpdir)]) /\ Here \in Inodes
             /\ Here # Root /\ Here # Head(dumpdir) /\ Here \notin freed
  <2>1. kids \in Trees /\ idx \in Nat \ {0}
    BY <1>1 DEF TypeInv
  <2>2. idx \in 1..Len(kids[Head(dumpdir)])
    BY <2>1, <1>3, <1>5, TreeFacts DEF Scanning
  <2> QED
    BY <2>1, <2>2, <1>1, <1>3, <1>4, TreeFacts, OpenLive DEF Here
<1> QED
  BY <1>2, <1>3, <1>4, <1>5
-----------------------------------------------------------------------------
(* Every step keeps the types. *)
LEMMA TypeStep == BuildInv /\ [Next]_vars => TypeInv'
<1> SUFFICES ASSUME BuildInv, [Next]_vars PROVE TypeInv'
  OBVIOUS
<1>t. TypeInv /\ kids \in Trees
  BY DEF BuildInv, TypeInv
<1>k. kids' = kids /\ failing' = failing /\ \A d : Entries(d)' = Entries(d)
  <2>1. kids' = kids /\ failing' = failing
    BY DEF Next, Main, Worker, vars, tree, HandleRoot, Go, FlushJobs, HandleNew,
           HandleFails, HardLink, EndDir, Stop, Join, Bflush, RootPut, JobNdir, JobDir,
           JobDirBh, JobMax
  <2> QED
    BY <2>1, KidsKept
<1>1. CASE HandleRoot
  <2>0. Job("DIR", Root) \in Jobs
    BY JobFacts, DirsInodes
  <2>1. parent' \in [Inodes -> Dirs \cup {NULL}] /\ freed' \subseteq Inodes
    <3>1. CASE Root \in failing
      BY <1>1, <1>t, <3>1, DirsInodes DEF HandleRoot, TypeInv
    <3>2. CASE Root \notin failing
      <4>1. ~Visited(Root) /\ ReadDir(Root, Root, 1) /\ dents' = dents
        BY <1>1, <3>2, DirsInodes DEF HandleRoot, BuildInv, MainInv, Visited
      <4>2. parent' \in [Inodes -> Dirs \cup {NULL}] /\ freed' \subseteq freed
        BY <4>1, <3>2, <1>k, ReadDirEffect, DirsInodes
      <4> QED
        BY <4>2, <1>t DEF TypeInv
    <3> QED
      BY <3>1, <3>2
  <2>2. /\ bh' = bh /\ inl' = inl /\ dents' = dents /\ mpc' \in {"stop", "flush"}
        /\ dumpdir' = dumpdir /\ subs' = subs /\ idx' = idx /\ jobs' = jobs
        /\ out' \in {out, Job("DIR", Root)} /\ err' \in {err, TRUE} /\ wpc' = wpc
    BY <1>1 DEF HandleRoot
  <2> QED
    BY <2>0, <2>1, <2>2, <1>k, <1>t DEF TypeInv, MainPC
<1>2. CASE Go
  <2>1. out \in Jobs /\ jobs' = Append(jobs, out) /\ out' = NULL
    BY <1>2, <1>t DEF Go, TypeInv
  <2>2. subs' \in Seq(Dirs)
    <3>1. CASE mpc = "scan" /\ out.type = "DIR"
      <4>1. out.inode \in Dirs
        BY <1>2, <1>t, <3>1, OutInQ DEF Go, BuildInv, WorkerInv
      <4>2. subs' = Append(subs, out.inode)
        BY <1>2, <3>1 DEF Go
      <4> QED
        BY <4>1, <4>2, <1>t DEF TypeInv
    <3>2. CASE ~(mpc = "scan" /\ out.type = "DIR")
      BY <1>2, <1>t, <3>2 DEF Go, TypeInv
    <3> QED
      BY <3>1, <3>2
  <2>3. mpc' \in MainPC
    BY <1>2, <1>t DEF Go, TypeInv, MainPC
  <2>4. /\ freed' = freed /\ parent' = parent /\ bh' = bh /\ inl' = inl
        /\ dents' = dents /\ dumpdir' = dumpdir /\ idx' = idx /\ err' = err /\ wpc' = wpc
    BY <1>2 DEF Go
  <2>5. jobs' \in Seq(Jobs)
    BY <2>1, <1>t DEF TypeInv
  <2> QED
    BY <2>1, <2>2, <2>3, <2>4, <2>5, <1>k, <1>t DEF TypeInv
<1>3. CASE FlushJobs \/ Stop \/ Join \/ HardLink \/ UNCHANGED vars
  <2>1. /\ freed' = freed /\ parent' = parent /\ bh' = bh /\ inl' = inl
        /\ dents' = dents /\ dumpdir' = dumpdir /\ subs' = subs /\ err' = err
        /\ wpc' = wpc /\ jobs' = jobs /\ mpc' \in MainPC
        /\ idx' \in {idx, idx + 1} /\ out' \in {out, Job("MAX", NULL)}
    BY <1>3, <1>t DEF FlushJobs, Stop, Join, HardLink, vars, tree, TypeInv, MainPC
  <2>2. out' \in Jobs \cup {NULL}
    BY <2>1, <1>t, JobFacts DEF TypeInv
  <2> QED
    BY <2>1, <2>2, <1>k, <1>t DEF TypeInv
<1>4. CASE HandleNew
  <2>0. mpc = "scan" /\ Scanning
    BY <1>4 DEF HandleNew, Scanning
  <2>1. Head(dumpdir) \in Dirs /\ Here \in Inodes /\ PlaceJob(Here) \in Jobs
    BY <2>0, ScanFacts, JobFacts
  <2>2. parent' \in [Inodes -> Dirs \cup {NULL}] /\ freed' \subseteq Inodes
    <3>1. CASE Here \in Dirs
      <4>1. /\ ~Visited(Here) /\ Here \notin failing /\ dents' = dents
            /\ ReadDir(Here, Head(dumpdir), 0)
        BY <1>4, <3>1 DEF HandleNew
      <4>2. parent' \in [Inodes -> Dirs \cup {NULL}] /\ freed' \subseteq freed
        BY <4>1, <3>1, <2>1, <1>k, ReadDirEffect
      <4> QED
        BY <4>2, <1>t DEF TypeInv
    <3>2. CASE Here \notin Dirs
      BY <1>4, <3>2, <2>1, <1>t DEF HandleNew, TypeInv
    <3> QED
      BY <3>1, <3>2
  <2>3. /\ bh' = bh /\ inl' = inl /\ dents' = dents /\ mpc' = mpc
        /\ dumpdir' = dumpdir /\ subs' = subs /\ idx' = idx + 1 /\ jobs' = jobs
        /\ out' = PlaceJob(Here) /\ err' = err /\ wpc' = wpc
    BY <1>4 DEF HandleNew
  <2> QED
    BY <2>1, <2>2, <2>3, <1>k, <1>t DEF TypeInv
<1>5. CASE HandleFails
  <2>1. mpc = "scan"
    BY <1>5 DEF HandleFails, Scanning
  <2>2. Head(dumpdir) \in Dirs /\ Len(kids[Head(dumpdir)]) \in Nat
    BY <2>1, <1>t, ScanFacts, TreeFacts
  <2>3. /\ bh' = bh /\ inl' = inl /\ dents' = dents /\ mpc' = mpc /\ freed' = freed
        /\ dumpdir' = dumpdir /\ subs' = subs /\ jobs' = jobs
        /\ out' = out /\ err' = err /\ wpc' = wpc
        /\ idx' = Len(kids[Head(dumpdir)]) + 1
        /\ parent' = [parent EXCEPT ![Here] = Head(dumpdir)]
    BY <1>5 DEF HandleFails
  <2>4. idx' \in Nat \ {0}
    BY <2>2, <2>3
  <2>5. parent' \in [Inodes -> Dirs \cup {NULL}]
    BY <2>2, <2>3, <1>t DEF TypeInv
  <2> QED
    BY <2>3, <2>4, <2>5, <1>k, <1>t DEF TypeInv
<1>6. CASE EndDir
  <2>1. mpc = "scan"
    BY <1>6 DEF EndDir
  <2>2. Head(dumpdir) \in Dirs /\ dumpdir # << >>
    BY <2>1, ScanFacts
  <2>3. Job("DIR_BH", Head(dumpdir)) \in Jobs
    BY <2>2, JobFacts
  <2>4. NextDirs \in Seq(Dirs)
    BY <2>2, <1>t DEF NextDirs, TypeInv
  <2>5. /\ bh' = bh /\ inl' = inl /\ dents' = dents /\ freed' = freed /\ parent' = parent
        /\ dumpdir' = NextDirs /\ subs' = << >> /\ jobs' = jobs /\ mpc' = "dir_bh"
        /\ out' = Job("DIR_BH", Head(dumpdir)) /\ err' = err /\ wpc' = wpc /\ idx' = 1
    BY <1>6 DEF EndDir, tree
  <2> QED
    BY <2>3, <2>4, <2>5, <1>k, <1>t DEF TypeInv, MainPC
<1>7. CASE Bflush \/ RootPut
  <2>1. /\ dents' = dents /\ parent' = parent
        /\ dumpdir' = dumpdir /\ subs' = subs /\ jobs' = jobs /\ mpc' \in MainPC
        /\ out' = out /\ err' = err /\ wpc' = wpc /\ idx' = idx
    BY <1>7 DEF Bflush, RootPut, MainPC
  <2>2. freed' \subseteq Inodes
    BY <1>7, <1>t DEF Bflush, RootPut, Iput, TypeInv
  <2>3. /\ bh' \in [Inodes -> {"none", "skip", "write"}]
        /\ inl' \in [Inodes -> {"none", "skip", "write"}]
    BY <1>7, <1>t DEF Bflush, RootPut, TypeInv
  <2> QED
    BY <2>1, <2>2, <2>3, <1>k, <1>t DEF TypeInv
<1>8. CASE JobNdir \/ JobDir
  <2>1. /\ dents' = dents /\ parent' = parent /\ freed' = freed
        /\ dumpdir' = dumpdir /\ subs' = subs /\ jobs' = Tail(jobs) /\ mpc' = mpc
        /\ out' = out /\ err' = err /\ wpc' = wpc /\ idx' = idx /\ jobs # << >>
    BY <1>8 DEF JobNdir, JobDir, Handling
  <2>2. /\ bh' \in [Inodes -> {"none", "skip", "write"}]
        /\ inl' \in [Inodes -> {"none", "skip", "write"}]
    <3>1. PICK o \in {"skip", "write"}, q \in {"none", "skip", "write"} :
            bh' = [bh EXCEPT ![Subject] = o] /\ inl' = [inl EXCEPT ![Subject] = q]
      <4>1. CASE JobNdir
        BY <4>1 DEF JobNdir, PrepareBuffer
      <4>2. CASE JobDir
        BY <4>2 DEF JobDir, PrepareBuffer
      <4> QED
        BY <1>8, <4>1, <4>2
    <3>2. bh' \in [Inodes -> {"none", "skip", "write"}]
      BY <3>1, <1>t DEF TypeInv
    <3>3. inl' \in [Inodes -> {"none", "skip", "write"}]
      BY <3>1, <1>t DEF TypeInv
    <3> QED
      BY <3>2, <3>3
  <2>3. jobs' \in Seq(Jobs)
    BY <2>1, <1>t DEF TypeInv
  <2> QED
    BY <2>1, <2>2, <2>3, <1>k, <1>t DEF TypeInv
<1>9. CASE JobDirBh
  <2>1. /\ parent' = parent
        /\ dumpdir' = dumpdir /\ subs' = subs /\ jobs' = Tail(jobs) /\ mpc' = mpc
        /\ out' = out /\ err' = err /\ wpc' = wpc /\ idx' = idx /\ jobs # << >>
    BY <1>9 DEF JobDirBh, Handling
  <2>2. bh' \in [Inodes -> {"none", "skip", "write"}]
    BY <1>9, <1>t DEF JobDirBh, TypeInv
  <2>3. inl' \in [Inodes -> {"none", "skip", "write"}]
    <3>1. inl' = [inl EXCEPT ![Subject] = IF @ = "skip" THEN "write" ELSE @]
      BY <1>9 DEF JobDirBh
    <3> QED
      BY <3>1, <1>t DEF TypeInv
  <2>4. freed' \subseteq Inodes
    BY <1>9, <1>t DEF JobDirBh, Iput, TypeInv
  <2>5. DOMAIN dents' = Dirs /\ \A d \in Dirs : dents'[d] \in [Entries(d) -> {"open", "zero", "nid"}]
    <3>1. dents' = [dents EXCEPT ![Subject] =
                      [k \in Entries(Subject) |-> LookupNid(Target(Subject, k))]]
      BY <1>9 DEF JobDirBh
    <3>2. [k \in Entries(Subject) |-> LookupNid(Target(Subject, k))]
            \in [Entries(Subject) -> {"open", "zero", "nid"}]
      BY DEF LookupNid
    <3> QED
      BY <3>1, <3>2, <1>t DEF TypeInv
  <2>6. jobs' \in Seq(Jobs)
    BY <2>1, <1>t DEF TypeInv
  <2> QED
    BY <2>1, <2>2, <2>3, <2>4, <2>5, <2>6, <1>k, <1>t DEF TypeInv
<1>10. CASE JobMax
  <2>1. /\ dents' = dents /\ parent' = parent /\ freed' = freed /\ bh' = bh /\ inl' = inl
        /\ dumpdir' = dumpdir /\ subs' = subs /\ jobs' = Tail(jobs) /\ mpc' = mpc
        /\ out' = out /\ err' = err /\ wpc' = "exited" /\ idx' = idx /\ jobs # << >>
    BY <1>10 DEF JobMax, Handling, AfterMax, tree
  <2>2. jobs' \in Seq(Jobs)
    BY <2>1, <1>t DEF TypeInv
  <2> QED
    BY <2>1, <2>2, <1>k, <1>t DEF TypeInv
<1> QED
  BY <1>1, <1>2, <1>3, <1>4, <1>5, <1>6, <1>7, <1>8, <1>9, <1>10 DEF Next, Main, Worker
-----------------------------------------------------------------------------
(* An entry is met that is not read: a file, or one that is given up. *)
LEMMA MeetEffect ==
  ASSUME BuildInv, NEW i \in Inodes, ~Visited(i), i \notin Dirs \/ i \in failing,
         NEW p \in Dirs, parent' = [parent EXCEPT ![i] = p],
         kids' = kids, failing' = failing, dents' = dents
  PROVE  /\ parent'[i] = p /\ \A j \in Inodes : j # i => parent'[j] = parent[j]
         /\ Visited(i)' /\ \A j \in Inodes : j # i => (Visited(j)' <=> Visited(j))
         /\ \A e : Read(e)' <=> Read(e)
         /\ \A e : Open(e)' <=> Open(e)
<1>1. DOMAIN parent = Inodes
  BY DEF BuildInv, TypeInv
<1>2. parent'[i] = p /\ \A j \in Inodes : j # i => parent'[j] = parent[j]
  BY <1>1
<1>3. p # NULL
  BY DirsInodes
<1>4. Visited(i)' /\ \A j \in Inodes : j # i => (Visited(j)' <=> Visited(j))
  BY <1>2, <1>3 DEF Visited
<1>5. \A e : Read(e)' <=> Read(e)
  BY <1>4, DirsInodes DEF Read
<1> QED
  BY <1>2, <1>4, <1>5 DEF Open

(* HandleNew, split by what the entry is. *)
LEMMA NewEffect ==
  ASSUME BuildInv, HandleNew
  PROVE  /\ mpc = "scan" /\ out = NULL /\ Scanning /\ mpc' = mpc
         /\ Here \in Inodes /\ Head(dumpdir) \in Dirs /\ Here # Head(dumpdir) /\ Here # Root
         /\ ~Visited(Here) /\ Here \notin failing
         /\ PlaceJob(Here) \in Jobs /\ PlaceJob(Here) # NULL /\ out' = PlaceJob(Here)
         /\ kids' = kids /\ failing' = failing /\ bh' = bh /\ inl' = inl /\ dents' = dents
         /\ dumpdir' = dumpdir /\ subs' = subs /\ idx' = idx + 1 /\ err' = err
         /\ jobs' = jobs /\ wpc' = wpc
         /\ Here \in Dirs => ReadDir(Here, Head(dumpdir), 0)
         /\ Here \notin Dirs =>
              /\ parent' = [parent EXCEPT ![Here] = Head(dumpdir)]
              /\ i_count' = i_count /\ freed' = freed
<1>1. mpc = "scan" /\ out = NULL /\ Scanning
  BY DEF HandleNew, Scanning
<1>2. /\ Here \in Inodes /\ Head(dumpdir) \in Dirs /\ Here # Head(dumpdir) /\ Here # Root
  BY <1>1, ScanFacts
<1>3. PlaceJob(Here) \in Jobs /\ PlaceJob(Here) # NULL
  BY <1>2, JobFacts
<1> QED
  BY <1>1, <1>2, <1>3 DEF HandleNew

(* What HandleFails does. *)
LEMMA FailsEffect ==
  ASSUME BuildInv, HandleFails
  PROVE  /\ mpc = "scan" /\ out = NULL /\ Scanning
         /\ Here \in Inodes /\ Head(dumpdir) \in Dirs /\ Here # Root
         /\ ~Visited(Here) /\ Here \in failing
         /\ kids' = kids /\ failing' = failing /\ bh' = bh /\ inl' = inl /\ dents' = dents
         /\ dumpdir' = dumpdir /\ subs' = subs /\ err' = err /\ out' = out
         /\ jobs' = jobs /\ wpc' = wpc /\ i_count' = i_count /\ freed' = freed /\ mpc' = mpc
         /\ parent' = [parent EXCEPT ![Here] = Head(dumpdir)]
<1>1. mpc = "scan" /\ out = NULL /\ Scanning
  BY DEF HandleFails, Scanning
<1>2. Here \in Inodes /\ Head(dumpdir) \in Dirs /\ Here # Root
  BY <1>1, ScanFacts
<1> QED
  BY <1>1, <1>2 DEF HandleFails

(* The steps that leave the tree as it is. *)
TreeSteps == \/ Go \/ FlushJobs \/ HardLink \/ EndDir \/ Stop \/ Join
             \/ JobMax \/ UNCHANGED vars

(* The steps of the main thread that leave the tree alone. *)
LEMMA TreeStepsKeep ==
  ASSUME TreeSteps
  PROVE  /\ kids' = kids /\ failing' = failing /\ freed' = freed /\ parent' = parent
         /\ bh' = bh /\ inl' = inl /\ dents' = dents
         /\ \A i : Visited(i)' <=> Visited(i)
         /\ \A d : Read(d)' <=> Read(d)
         /\ \A d : Open(d)' <=> Open(d)
<1>1. /\ kids' = kids /\ failing' = failing /\ freed' = freed /\ parent' = parent
      /\ bh' = bh /\ inl' = inl /\ dents' = dents
  BY DEF TreeSteps, vars, tree, Go, FlushJobs, HardLink, EndDir, Stop, Join, JobMax
<1> QED
  BY <1>1, TreeKept

(* What was read stays read. *)
LEMMA ReadGrows ==
  ASSUME BuildInv, [Next]_vars, NEW e, Read(e)
  PROVE  Read(e)'
<1>1. CASE HandleRoot
  <2>1. e \in Dirs /\ Visited(e)
    BY DEF Read
  <2> QED
    BY <1>1, <2>1, DirsInodes DEF HandleRoot, BuildInv, MainInv, Visited
<1>2. CASE HandleNew
  <2>1. CASE Here \in Dirs
    BY <1>2, <2>1, NewEffect, ReadDirEffect
  <2>2. CASE Here \notin Dirs
    BY <1>2, <2>2, NewEffect, MeetEffect
  <2> QED
    BY <2>1, <2>2
<1>3. CASE HandleFails
  BY <1>3, FailsEffect, MeetEffect
<1>4. CASE TreeSteps
  BY <1>4, TreeStepsKeep
<1>5. CASE Bflush \/ RootPut \/ JobNdir \/ JobDir \/ JobDirBh
  BY <1>5 DEF Bflush, RootPut, JobNdir, JobDir, JobDirBh, Read, Visited
<1> QED
  BY <1>1, <1>2, <1>3, <1>4, <1>5 DEF Next, Main, Worker, TreeSteps
-----------------------------------------------------------------------------
(* Every step keeps MainInv. *)
LEMMA MainStep == BuildInv /\ [Next]_vars => MainInv'
<1> SUFFICES ASSUME BuildInv, [Next]_vars PROVE MainInv'
  OBVIOUS
<1>t. TypeInv /\ MainInv /\ WorkerInv
  BY DEF BuildInv
<1>1. CASE HandleRoot
  <2>1. CASE Root \in failing
    <3>1. /\ mpc' = "stop" /\ err' = TRUE /\ out' = NULL /\ subs' = << >>
          /\ failing' = failing /\ parent' = [parent EXCEPT ![Root] = Root]
      BY <1>1, <2>1, <1>t DEF HandleRoot, MainInv
    <3>2. \A i \in Inodes \ {Root} : parent'[i] = NULL
      BY <3>1, <1>1, <1>t DEF HandleRoot, MainInv, TypeInv
    <3> QED
      BY <3>1, <3>2, <2>1 DEF MainInv
  <2>2. CASE Root \notin failing
    <3>1. /\ mpc' = "flush" /\ err' = FALSE /\ out' = Job("DIR", Root) /\ subs' = << >>
          /\ dumpdir' = <<Root>> /\ idx' = 1
          /\ kids' = kids /\ failing' = failing /\ dents' = dents
          /\ ReadDir(Root, Root, 1) /\ ~Visited(Root)
      BY <1>1, <2>2, <1>t, DirsInodes DEF HandleRoot, MainInv, TypeInv, Visited
    <3>2. Read(Root)'
      BY <3>1, <2>2, ReadDirEffect, DirsInodes
    <3> QED
      BY <3>1, <3>2 DEF MainInv
  <2> QED
    BY <2>1, <2>2
<1>2. CASE Go
  <2>1. /\ out # NULL /\ out' = NULL /\ dumpdir' = dumpdir /\ idx' = idx /\ err' = err
        /\ failing' = failing /\ parent' = parent
        /\ mpc' = CASE mpc = "dir_bh" -> IF dumpdir = << >> THEN "stop" ELSE "scan"
                    [] mpc = "stop"   -> "join"
                    [] OTHER          -> mpc
        /\ mpc # "scan" => subs' = subs
    BY <1>2 DEF Go
  <2>2. mpc \in {"flush", "scan", "dir_bh", "stop"}
    BY <2>1, <1>t DEF MainInv, TypeInv, MainPC
  <2>3. Read(Root)' <=> Read(Root)
    BY <2>1 DEF Read, Visited
  <2>4. CASE mpc = "flush"
    BY <2>1, <2>3, <2>4, <1>t DEF MainInv
  <2>5. CASE mpc = "scan"
    BY <2>1, <2>3, <2>5, <1>t DEF MainInv
  <2>6. CASE mpc = "dir_bh"
    BY <2>1, <2>3, <2>6, <1>t DEF MainInv
  <2>7. CASE mpc = "stop"
    BY <2>1, <2>3, <2>7, <1>t DEF MainInv
  <2> QED
    BY <2>2, <2>4, <2>5, <2>6, <2>7
<1>3. CASE FlushJobs
  <2>1. /\ mpc = "flush" /\ mpc' = "scan" /\ out' = NULL /\ dumpdir' = dumpdir
        /\ subs' = subs /\ err' = err /\ failing' = failing /\ parent' = parent
    BY <1>3 DEF FlushJobs, tree
  <2>2. Read(Root)' <=> Read(Root)
    BY <2>1 DEF Read, Visited
  <2> QED
    BY <2>1, <2>2, <1>t DEF MainInv
<1>4. CASE HandleNew \/ HandleFails \/ HardLink
  <2>1. /\ mpc = "scan" /\ mpc' = "scan" /\ dumpdir' = dumpdir /\ err' = err /\ ~err
        /\ out' = NULL \/ \E i \in Inodes : out' = PlaceJob(i)
    <3>1. CASE HandleNew
      BY <3>1, <1>t, NewEffect DEF MainInv
    <3>2. CASE HandleFails
      BY <3>2, <1>t, FailsEffect DEF MainInv
    <3>3. CASE HardLink
      BY <3>3, <1>t DEF HardLink, Scanning, MainInv
    <3> QED
      BY <1>4, <3>1, <3>2, <3>3
  <2>2. Read(Root)'
    BY <2>1, <1>t, ReadGrows DEF MainInv
  <2>3. dumpdir' # << >>
    BY <2>1, <1>t DEF MainInv
  <2> QED
    BY <2>1, <2>2, <2>3 DEF MainInv
<1>5. CASE EndDir
  <2>1. /\ mpc = "scan" /\ mpc' = "dir_bh" /\ out' = Job("DIR_BH", Head(dumpdir))
        /\ subs' = << >> /\ idx' = 1 /\ err' = err /\ failing' = failing /\ parent' = parent
    BY <1>5 DEF EndDir, tree
  <2>2. Read(Root)' <=> Read(Root)
    BY <2>1 DEF Read, Visited
  <2>3. Head(dumpdir) \in Dirs
    BY <2>1, ScanFacts
  <2> QED
    BY <2>1, <2>2, <2>3, <1>t DEF MainInv
<1>6. CASE Stop
  <2>1. /\ mpc = "stop" /\ mpc' = "stop" /\ out' = Job("MAX", NULL) /\ dumpdir' = dumpdir
        /\ subs' = subs /\ err' = err /\ failing' = failing /\ parent' = parent
    BY <1>6 DEF Stop, tree
  <2>2. Read(Root)' <=> Read(Root)
    BY <2>1 DEF Read, Visited
  <2> QED
    BY <2>1, <2>2, <1>t DEF MainInv
<1>7. CASE Join \/ Bflush \/ RootPut
  <2>1. /\ dumpdir' = dumpdir /\ subs' = subs /\ err' = err /\ failing' = failing
        /\ parent' = parent /\ out' = out /\ mpc \in {"join", "joined", "flushed"}
        /\ mpc' \in {"joined", "flushed", "done"} /\ (err => mpc' = "done")
    BY <1>7, <1>t DEF Join, Bflush, RootPut, tree, MainInv
  <2>2. Read(Root)' <=> Read(Root)
    BY <2>1 DEF Read, Visited
  <2> QED
    BY <2>1, <2>2, <1>t DEF MainInv
<1>8. CASE Worker \/ UNCHANGED vars
  <2>1. /\ dumpdir' = dumpdir /\ subs' = subs /\ err' = err /\ failing' = failing
        /\ parent' = parent /\ out' = out /\ mpc' = mpc /\ idx' = idx
    BY <1>8 DEF Worker, JobNdir, JobDir, JobDirBh, JobMax, vars, tree
  <2>2. Read(Root)' <=> Read(Root)
    BY <2>1 DEF Read, Visited
  <2>3. mpc = "root" => jobs' = << >> /\ freed' = {}
    <3>1. CASE Worker
      BY <3>1, <1>t DEF Worker, JobNdir, JobDir, JobDirBh, JobMax, Handling, MainInv
    <3>2. CASE UNCHANGED vars
      BY <3>2, <1>t DEF vars, MainInv
    <3> QED
      BY <1>8, <3>1, <3>2
  <2> QED
    BY <2>1, <2>2, <2>3, <1>t DEF MainInv
<1> QED
  BY <1>1, <1>2, <1>3, <1>4, <1>5, <1>6, <1>7, <1>8 DEF Next, Main
-----------------------------------------------------------------------------
(* Every step keeps RootInv. *)
LEMMA RootStep == BuildInv /\ [Next]_vars => RootInv'
<1> SUFFICES ASSUME BuildInv, [Next]_vars, mpc' \in {"scan", "dir_bh"} PROVE bh'[Root] # "none"
  BY DEF RootInv
<1>t. TypeInv /\ MainInv /\ WorkerInv /\ RootInv
  BY DEF BuildInv
<1>1. CASE FlushJobs
  <2>1. /\ mpc = "flush" /\ out = NULL /\ jobs = << >> /\ bh' = bh
    BY <1>1 DEF FlushJobs, Drained, tree
  <2>2. Len(Q) = 0
    BY <2>1 DEF Q
  <2>3. Read(Root)
    BY <2>1, <1>t DEF MainInv
  <2>4. PlacedBy(Root, Len(Q) + 1)
    BY <2>1, <2>3, DirsInodes DEF BuildInv, BufferInv, Read
  <2> QED
    BY <2>1, <2>2, <2>4 DEF PlacedBy
<1>2. CASE ~FlushJobs
  <2>1. mpc \in {"scan", "dir_bh"}
    <3>1. CASE Go
      BY <3>1, <1>t DEF Go, TypeInv, MainPC
    <3>2. CASE ~Go
      BY <1>2, <3>2 DEF Next, Main, Worker, vars, HandleRoot, HandleNew, HandleFails,
                 HardLink, EndDir, Stop, Join, Bflush, RootPut, JobNdir, JobDir, JobDirBh,
                 JobMax, Scanning
    <3> QED
      BY <3>1, <3>2
  <2>2. bh[Root] # "none" /\ DOMAIN bh = Inodes /\ Root \in Inodes
    BY <2>1, <1>t, DirsInodes DEF RootInv, TypeInv
  <2>3. ~Bflush
    BY <2>1 DEF Bflush
  <2>4. CASE JobNdir \/ JobDir \/ JobDirBh
    BY <2>2, <2>4 DEF JobNdir, JobDir, JobDirBh, PrepareBuffer
  <2>5. CASE ~(JobNdir \/ JobDir \/ JobDirBh)
    <3>1. bh' = bh
      BY <2>3, <2>5 DEF Next, Main, Worker, vars, tree, HandleRoot, Go, FlushJobs,
                 HandleNew, HandleFails, HardLink, EndDir, Stop, Join, RootPut, JobMax
    <3> QED
      BY <3>1, <2>2
  <2> QED
    BY <2>4, <2>5
<1> QED
  BY <1>1, <1>2
-----------------------------------------------------------------------------
(* The last element of a sequence, after an append and in a tail. *)
LEMMA SeqLast ==
  ASSUME NEW S, NEW s \in Seq(S), NEW x \in S
  PROVE  /\ Append(s, x) # << >> /\ Append(s, x)[Len(Append(s, x))] = x
         /\ (Len(s) > 1 => Tail(s) # << >> /\ Tail(s)[Len(Tail(s))] = s[Len(s)])
<1>1. Append(s, x) # << >> /\ Append(s, x)[Len(Append(s, x))] = x
  OBVIOUS
<1>2. ASSUME Len(s) > 1 PROVE Tail(s) # << >> /\ Tail(s)[Len(Tail(s))] = s[Len(s)]
  <2>1. Len(Tail(s)) = Len(s) - 1 /\ Len(s) \in Nat /\ s # << >>
    BY <1>2
  <2>2. Len(s) - 1 \in 1..Len(Tail(s)) /\ (Len(s) - 1) + 1 = Len(s)
    BY <1>2, <2>1
  <2>3. \A n \in 1..Len(Tail(s)) : Tail(s)[n] = s[n + 1]
    BY <2>1
  <2>4. Tail(s) # << >>
    <3>1. \A m \in Nat : m > 1 => m - 1 # 0
      OBVIOUS
    <3>2. Len(Tail(s)) # 0
      BY <3>1, <2>1, <1>2, Zenon
    <3>3. Len(<< >>) = 0
      OBVIOUS
    <3> QED
      BY <3>2, <3>3, Zenon
  <2>5. Tail(s)[Len(s) - 1] = s[(Len(s) - 1) + 1]
    BY <2>2, <2>3
  <2> QED
    BY <2>1, <2>2, <2>4, <2>5
<1> QED
  BY <1>1, <1>2

(* Every step keeps WorkerInv. *)
LEMMA WorkerStep == BuildInv /\ [Next]_vars => WorkerInv'
<1> SUFFICES ASSUME BuildInv, [Next]_vars PROVE WorkerInv'
  OBVIOUS
<1>t. TypeInv /\ MainInv /\ WorkerInv
  BY DEF BuildInv
<1>q. Len(Q) \in Nat /\ \A n \in 1..Len(Q) : Q[n] \in Jobs
  BY <1>t, QType
<1>1. ASSUME NEW x \in Jobs, x # NULL, out = NULL, out' = x, jobs' = jobs, wpc' = wpc,
             mpc \in {"root", "scan", "stop"}, mpc' \in {"flush", "scan", "dir_bh", "stop"},
             x.type = "MAX" => mpc' = "stop",
             x.type = "NDIR" => x.inode \in Files,
             x.type \in {"DIR", "DIR_BH"} => x.inode \in Dirs
      PROVE  WorkerInv'
  <2>1. /\ Len(Q') = Len(Q) + 1 /\ Q'[Len(Q) + 1] = x
        /\ \A n \in 1..Len(Q) : Q'[n] = Q[n]
    BY <1>1, <1>t, QSend
  <2>2. \A n \in 1..Len(Q) : Q[n].type # "MAX"
    BY <1>1, <1>t DEF WorkerInv
  <2>3. wpc' = "run"
    BY <1>1, <1>t DEF WorkerInv, TypeInv
  <2>4. ASSUME NEW n \in 1..Len(Q')
        PROVE  /\ Q'[n].type = "MAX" => n = Len(Q') /\ mpc' = "stop" /\ out' # NULL
               /\ Q'[n].type = "NDIR" => Q'[n].inode \in Files
               /\ Q'[n].type \in {"DIR", "DIR_BH"} => Q'[n].inode \in Dirs
    <3>1. CASE n = Len(Q) + 1
      BY <1>1, <2>1, <3>1
    <3>2. CASE n # Len(Q) + 1
      <4>1. n \in 1..Len(Q)
        BY <2>1, <3>2, <1>q
      <4> QED
        BY <4>1, <2>1, <2>2, <1>t DEF WorkerInv
    <3> QED
      BY <3>1, <3>2
  <2> QED
    BY <1>1, <2>3, <2>4 DEF WorkerInv
<1>2. CASE HandleRoot /\ Root \notin failing
  <2>1. /\ out = NULL /\ out' = Job("DIR", Root) /\ jobs' = jobs /\ wpc' = wpc
        /\ mpc = "root" /\ mpc' = "flush"
    BY <1>2, <1>t DEF HandleRoot, MainInv
  <2>2. /\ Job("DIR", Root) \in Jobs /\ Job("DIR", Root) # NULL
        /\ Job("DIR", Root).type = "DIR" /\ Job("DIR", Root).inode = Root
    BY JobFacts, DirsInodes DEF Job
  <2> QED
    BY <2>1, <2>2, <1>1, DirsInodes
<1>3. CASE HandleNew
  <2>1. /\ mpc = "scan" /\ out = NULL /\ mpc' = mpc
        /\ PlaceJob(Here) \in Jobs /\ PlaceJob(Here) # NULL /\ out' = PlaceJob(Here)
        /\ jobs' = jobs /\ wpc' = wpc /\ Here \in Inodes
    BY <1>3, NewEffect
  <2>2. /\ PlaceJob(Here).type \in {"NDIR", "DIR"}
        /\ PlaceJob(Here).type = "NDIR" => PlaceJob(Here).inode \in Files
        /\ PlaceJob(Here).type = "DIR" => PlaceJob(Here).inode \in Dirs
    BY <2>1 DEF PlaceJob, Job, Inodes
  <2> QED
    BY <2>1, <2>2, <1>1
<1>4. CASE EndDir
  <2>1. /\ mpc = "scan" /\ out = NULL /\ mpc' = "dir_bh" /\ jobs' = jobs /\ wpc' = wpc
        /\ out' = Job("DIR_BH", Head(dumpdir))
    BY <1>4 DEF EndDir, tree
  <2>2. Head(dumpdir) \in Dirs
    BY <2>1, ScanFacts
  <2>3. /\ Job("DIR_BH", Head(dumpdir)) \in Jobs /\ Job("DIR_BH", Head(dumpdir)) # NULL
        /\ Job("DIR_BH", Head(dumpdir)).type = "DIR_BH"
        /\ Job("DIR_BH", Head(dumpdir)).inode \in Dirs
    BY <2>2, JobFacts
  <2> QED
    BY <2>1, <2>3, <1>1
<1>5. CASE Stop
  <2>1. /\ mpc = "stop" /\ out = NULL /\ mpc' = "stop" /\ jobs' = jobs /\ wpc' = wpc
        /\ out' = Job("MAX", NULL)
    BY <1>5 DEF Stop, tree
  <2>2. /\ Job("MAX", NULL) \in Jobs /\ Job("MAX", NULL) # NULL
        /\ Job("MAX", NULL).type = "MAX"
    BY JobFacts
  <2> QED
    BY <2>1, <2>2, <1>1
<1>6. CASE Go
  <2>1. /\ out # NULL /\ out' = NULL /\ jobs' = Append(jobs, out) /\ wpc' = wpc
        /\ mpc' = CASE mpc = "dir_bh" -> IF dumpdir = << >> THEN "stop" ELSE "scan"
                    [] mpc = "stop"   -> "join"
                    [] OTHER          -> mpc
    BY <1>6 DEF Go
  <2>2. Q' = Q
    BY <2>1, <1>t, QGo
  <2>3. mpc \in {"flush", "scan", "dir_bh", "stop"}
    BY <2>1, <1>t DEF MainInv, TypeInv, MainPC
  <2>4. /\ mpc = "stop" => mpc' = "join"
        /\ mpc # "stop" => mpc' \in {"flush", "scan", "stop"}
    BY <2>1, <2>3
  <2>5. jobs' # << >> /\ jobs'[Len(jobs')] = out
    <3>1. jobs \in Seq(Jobs) /\ out \in Jobs
      BY <2>1, <1>t DEF TypeInv
    <3> QED
      BY <2>1, <3>1, SeqLast
  <2>6. mpc = "stop" => out = Job("MAX", NULL)
    BY <2>1, <1>t DEF MainInv
  <2>7. wpc' = "run"
    BY <2>1, <2>3, <1>t DEF WorkerInv, TypeInv
  <2>8. \A n \in 1..Len(Q') :
          /\ Q'[n].type = "MAX" => n = Len(Q') /\ mpc' = "join"
          /\ Q'[n].type = "NDIR" => Q'[n].inode \in Files
          /\ Q'[n].type \in {"DIR", "DIR_BH"} => Q'[n].inode \in Dirs
    BY <2>2, <2>3, <2>4, <1>t DEF WorkerInv
  <2> QED
    BY <2>4, <2>5, <2>6, <2>7, <2>8 DEF WorkerInv
<1>7. ASSUME jobs # << >>, wpc = "run", jobs' = Tail(jobs), out' = out, mpc' = mpc,
             Head(jobs).type = "MAX" => wpc' = "exited",
             Head(jobs).type # "MAX" => wpc' = wpc
      PROVE  WorkerInv'
  <2>1. /\ Len(Q') = Len(Q) - 1 /\ Len(Q) > 0 /\ Q[1] = Head(jobs)
        /\ \A n \in 1..Len(Q') : Q'[n] = Q[n + 1]
    BY <1>7, <1>t, QTake
  <2>2. \A n \in 1..Len(Q') : n + 1 \in 1..Len(Q)
    BY <2>1, <1>q
  <2>3. ASSUME NEW n \in 1..Len(Q')
        PROVE  /\ Q'[n].type = "MAX" => /\ n = Len(Q')
                                        /\ mpc' = "join" \/ (mpc' = "stop" /\ out' # NULL)
               /\ Q'[n].type = "NDIR" => Q'[n].inode \in Files
               /\ Q'[n].type \in {"DIR", "DIR_BH"} => Q'[n].inode \in Dirs
    <3>1. n + 1 \in 1..Len(Q) /\ Q'[n] = Q[n + 1] /\ (n + 1 = Len(Q) => n = Len(Q'))
      BY <2>1, <2>2, <1>q
    <3> QED
      BY <1>7, <3>1, <1>t DEF WorkerInv
  <2>4. mpc \notin {"joined", "flushed", "done"}
    BY <1>7, <1>t DEF WorkerInv
  <2>5. CASE Head(jobs).type = "MAX"
    <3>1. 1 = Len(Q) /\ (mpc = "join" \/ (mpc = "stop" /\ out # NULL))
      BY <2>1, <2>5, <1>t, <1>q DEF WorkerInv
    <3>2. Len(jobs) > 0 /\ Len(jobs) \in Nat
      BY <1>7, <1>t DEF TypeInv
    <3>3. out = NULL
      BY <3>1, <3>2, <1>t, OutInQ
    <3>4. jobs' = << >> /\ mpc = "join"
      <4>1. Q = jobs
        BY <3>3 DEF Q
      <4>2. Len(jobs) = 1 /\ jobs \in Seq(Jobs)
        BY <4>1, <3>1, <1>t DEF TypeInv
      <4> QED
        BY <4>2, <3>1, <3>3, <1>7
    <3> QED
      BY <3>4, <2>3, <2>5, <1>7 DEF WorkerInv
  <2>6. CASE Head(jobs).type # "MAX"
    <3>1. ASSUME mpc = "join"
          PROVE  jobs' # << >> /\ jobs'[Len(jobs')] = Job("MAX", NULL)
      <4>1. jobs \in Seq(Jobs) /\ jobs[Len(jobs)] = Job("MAX", NULL)
        BY <3>1, <1>7, <1>t DEF WorkerInv, TypeInv
      <4>2. Len(jobs) # 1
        BY <4>1, <2>6, JobFacts
      <4>3. jobs # << >>
        BY <1>7
      <4>4. Len(jobs) \in Nat /\ Len(jobs) > 0
        BY <4>1, <4>3
      <4>5. \A n \in Nat : n > 0 /\ n # 1 => n > 1
        OBVIOUS
      <4>6. Len(jobs) > 1
        BY <4>2, <4>4, <4>5
      <4>7. Tail(jobs) # << >> /\ Tail(jobs)[Len(Tail(jobs))] = jobs[Len(jobs)]
        BY <4>1, <4>6, SeqLast, JobFacts
      <4> QED
        BY <4>1, <4>6, <4>7, <1>7
    <3> QED
      BY <3>1, <2>3, <2>4, <2>6, <1>7 DEF WorkerInv
  <2> QED
    BY <2>5, <2>6
<1>8. CASE Worker
  <2>1. /\ jobs # << >> /\ wpc = "run" /\ jobs' = Tail(jobs) /\ out' = out /\ mpc' = mpc
        /\ (Head(jobs).type = "MAX" => wpc' = "exited")
        /\ (Head(jobs).type # "MAX" => wpc' = wpc)
    BY <1>8 DEF Worker, JobNdir, JobDir, JobDirBh, JobMax, Handling, AfterMax
  <2> QED
    BY <2>1, <1>7
<1>9. CASE \/ HandleRoot /\ Root \in failing
           \/ FlushJobs \/ HandleFails \/ HardLink \/ Join \/ Bflush \/ RootPut
           \/ UNCHANGED vars
  <2>1. jobs' = jobs /\ out' = out /\ wpc' = wpc /\ Q' = Q
    <3>1. jobs' = jobs /\ out' = out /\ wpc' = wpc
      BY <1>9 DEF HandleRoot, FlushJobs, HandleFails, HardLink, Join, Bflush, RootPut, vars
    <3> QED
      BY <3>1 DEF Q
  <2>2. \/ mpc' = mpc
        \/ mpc = "root" /\ mpc' = "stop"
        \/ mpc = "flush" /\ mpc' = "scan"
        \/ mpc \in {"join", "joined", "flushed"} /\ wpc = "exited"
             /\ mpc' \in {"joined", "flushed", "done"}
    BY <1>9, <1>t DEF HandleRoot, FlushJobs, HandleFails, HardLink, Join, Bflush, RootPut,
                      vars, WorkerInv
  <2>3. CASE mpc' = mpc
    BY <2>1, <2>3, <1>t DEF WorkerInv
  <2>4. CASE (mpc = "root" /\ mpc' = "stop") \/ (mpc = "flush" /\ mpc' = "scan")
    BY <2>1, <2>4, <1>t DEF WorkerInv
  <2>5. CASE /\ mpc \in {"join", "joined", "flushed"} /\ wpc = "exited"
             /\ mpc' \in {"joined", "flushed", "done"}
    <3>1. jobs = << >> /\ out = NULL
      BY <2>5, <1>t DEF WorkerInv, MainInv
    <3>2. Len(Q') = 0
      BY <3>1, <2>1 DEF Q
    <3> QED
      BY <3>1, <3>2, <2>1, <2>5 DEF WorkerInv
  <2> QED
    BY <2>2, <2>3, <2>4, <2>5
<1> QED
  BY <1>2, <1>3, <1>4, <1>5, <1>6, <1>8, <1>9 DEF Next, Main, HandleRoot
-----------------------------------------------------------------------------
(* What the steps that change the tree do to it. *)
LEMMA QEmpty ==
  ASSUME BuildInv, mpc \in {"root", "joined", "flushed", "done"}
  PROVE  Q = << >> /\ Len(Q) = 0 /\ jobs = << >> /\ out = NULL
<1>1. jobs = << >> /\ out = NULL
  BY DEF BuildInv, MainInv, WorkerInv
<1> QED
  BY <1>1 DEF Q

(* What HandleRoot does when the root can be handled. *)
LEMMA RootEffect ==
  ASSUME BuildInv, HandleRoot, Root \notin failing
  PROVE  /\ mpc = "root" /\ mpc' = "flush" /\ Len(Q) = 0 /\ out = NULL
         /\ PlaceJob(Root) \in Jobs /\ PlaceJob(Root) # NULL /\ out' = PlaceJob(Root)
         /\ kids' = kids /\ failing' = failing /\ bh' = bh /\ inl' = inl /\ dents' = dents
         /\ dumpdir = <<Root>> /\ dumpdir' = <<Root>> /\ subs = << >> /\ subs' = << >>
         /\ jobs' = jobs /\ ~err' /\ ~err /\ wpc' = wpc
         /\ ReadDir(Root, Root, 1) /\ freed = {}
         /\ \A i \in Inodes : ~Visited(i) /\ bh[i] = "none" /\ inl[i] = "none"
         /\ \A e : ~Read(e)
         /\ Visited(Root)' /\ parent'[Root] = Root
         /\ \A i \in Inodes : i # Root => parent'[i] = NULL
         /\ \A e : Read(e)' <=> e = Root
         /\ \A e : Open(e)' <=> e = Root
         /\ freed' = {}
<1>1. /\ mpc = "root" /\ mpc' = "flush" /\ out = NULL /\ out' = Job("DIR", Root)
      /\ kids' = kids /\ failing' = failing /\ bh' = bh /\ inl' = inl /\ dents' = dents
      /\ dumpdir = <<Root>> /\ dumpdir' = dumpdir /\ subs = << >> /\ subs' = subs
      /\ jobs' = jobs /\ err' = err /\ ~err /\ wpc' = wpc
      /\ ReadDir(Root, Root, 1) /\ freed = {}
      /\ \A i \in Inodes : ~Visited(i) /\ parent[i] = NULL
  BY DEF HandleRoot, BuildInv, MainInv, Visited
<1>2. /\ PlaceJob(Root) \in Jobs /\ PlaceJob(Root) # NULL /\ PlaceJob(Root) = Job("DIR", Root)
  BY JobFacts, DirsInodes
<1>3. Len(Q) = 0
  BY <1>1, QEmpty
<1>4. \A i \in Inodes : bh[i] = "none" /\ inl[i] = "none"
  BY <1>1 DEF BuildInv, BufferInv
<1>5. \A e : ~Read(e) /\ ~Open(e)
  BY <1>1, DirsInodes DEF Read, Open
<1>6. /\ freed' \subseteq freed /\ parent'[Root] = Root
      /\ \A i \in Inodes : i # Root => parent'[i] = IF i \in freed /\ i \notin freed'
                                                  THEN NULL ELSE parent[i]
      /\ Visited(Root)'
      /\ \A e : Read(e)' <=> Read(e) \/ e = Root
      /\ \A e : Open(e)' <=> Open(e) \/ e = Root
  BY <1>1, ReadDirEffect, DirsInodes
<1> QED
  BY <1>1, <1>2, <1>3, <1>4, <1>5, <1>6

(* JobNdir and JobDir. *)
LEMMA PlaceEffect ==
  ASSUME BuildInv, JobNdir \/ JobDir
  PROVE  /\ jobs # << >> /\ jobs' = Tail(jobs) /\ out' = out
         /\ kids' = kids /\ failing' = failing /\ freed' = freed /\ parent' = parent
         /\ dents' = dents /\ mpc' = mpc /\ dumpdir' = dumpdir /\ idx' = idx /\ subs' = subs
         /\ err' = err /\ wpc' = wpc
         /\ \E i \in Inodes : \E o \in {"skip", "write"} : \E q \in {"none", o} :
              /\ Placing(1, i) /\ 1 \in 1..Len(Q)
              /\ (o = "skip" <=> i \in Dirs)
              /\ bh' = [bh EXCEPT ![i] = o] /\ inl' = [inl EXCEPT ![i] = q]
              /\ i_count' = [i_count EXCEPT ![i] = @ + 1 + One(q = "write")]
<1>1. /\ jobs # << >> /\ jobs' = Tail(jobs) /\ out' = out
      /\ kids' = kids /\ failing' = failing /\ freed' = freed /\ parent' = parent
      /\ dents' = dents /\ mpc' = mpc /\ dumpdir' = dumpdir /\ idx' = idx /\ subs' = subs
      /\ err' = err /\ wpc' = wpc /\ wpc = "run"
  BY DEF JobNdir, JobDir, Handling
<1>2. 1 \in 1..Len(Q)
  BY <1>1, HeadFacts
<1>3. CASE JobNdir
  <2>1. Subject \in Files /\ Placing(1, Subject) /\ Subject \in Inodes /\ Subject \notin Dirs
    BY <1>1, <1>3, HeadFacts, MkfsAssumption DEF JobNdir, Inodes
  <2>2. PICK q \in {"none", "write"} :
          /\ bh' = [bh EXCEPT ![Subject] = "write"] /\ inl' = [inl EXCEPT ![Subject] = q]
          /\ i_count' = [i_count EXCEPT ![Subject] = @ + 1 + One(q = "write")]
    BY <1>3 DEF JobNdir, PrepareBuffer, BufferRef, One
  <2>3. \E i \in Inodes : \E o \in {"skip", "write"} : \E p \in {"none", o} :
          /\ Placing(1, i) /\ 1 \in 1..Len(Q)
          /\ (o = "skip" <=> i \in Dirs)
          /\ bh' = [bh EXCEPT ![i] = o] /\ inl' = [inl EXCEPT ![i] = p]
          /\ i_count' = [i_count EXCEPT ![i] = @ + 1 + One(p = "write")]
    BY <2>1, <2>2, <1>2
  <2> QED
    BY <1>1, <2>3
<1>4. CASE JobDir
  <2>1. Subject \in Dirs /\ Placing(1, Subject) /\ Subject \in Inodes
    BY <1>1, <1>4, HeadFacts, DirsInodes DEF JobDir
  <2>2. PICK q \in {"none", "skip"} :
          /\ bh' = [bh EXCEPT ![Subject] = "skip"] /\ inl' = [inl EXCEPT ![Subject] = q]
    BY <1>4 DEF JobDir, PrepareBuffer
  <2>3. i_count' = [i_count EXCEPT ![Subject] = @ + 1]
    BY <1>4 DEF JobDir, BufferRef
  <2>4. One(q = "write") = 0
    BY <2>2 DEF One
  <2>5. i_count' = [i_count EXCEPT ![Subject] = @ + 1 + One(q = "write")]
    <3>1. DOMAIN i_count = Inodes /\ i_count[Subject] \in Nat
      BY <2>1, CountNat DEF BuildInv, CountInv
    <3>2. (i_count[Subject] + 1) + 0 = i_count[Subject] + 1
      BY <3>1
    <3> QED
      BY <2>3, <2>4, <3>2
  <2>6. \E i \in Inodes : \E o \in {"skip", "write"} : \E p \in {"none", o} :
          /\ Placing(1, i) /\ 1 \in 1..Len(Q)
          /\ (o = "skip" <=> i \in Dirs)
          /\ bh' = [bh EXCEPT ![i] = o] /\ inl' = [inl EXCEPT ![i] = p]
          /\ i_count' = [i_count EXCEPT ![i] = @ + 1 + One(p = "write")]
    BY <2>1, <2>2, <2>5, <1>2
  <2> QED
    BY <1>1, <2>6
<1> QED
  BY <1>3, <1>4

(* JobDirBh: d is written and no longer open. *)
LEMMA WriteEffect ==
  ASSUME BuildInv, JobDirBh
  PROVE  /\ jobs # << >> /\ jobs' = Tail(jobs) /\ out' = out /\ wpc = "run"
         /\ kids' = kids /\ failing' = failing /\ parent' = parent
         /\ mpc' = mpc /\ dumpdir' = dumpdir /\ idx' = idx /\ subs' = subs
         /\ err' = err /\ wpc' = wpc
         /\ \A i : Visited(i)' <=> Visited(i)
         /\ \A e : Read(e)' <=> Read(e)
         /\ \E d \in Dirs :
              /\ d = Subject /\ Writing(1, d) /\ 1 \in 1..Len(Q) /\ Open(d) /\ Read(d)
              /\ bh[d] # "none" /\ d \in Inodes
              /\ bh' = [bh EXCEPT ![d] = "write"]
              /\ inl' = [inl EXCEPT ![d] = IF @ = "skip" THEN "write" ELSE @]
              /\ dents'[d][0] # "open" /\ \A e \in Dirs : e # d => dents'[e] = dents[e]
              /\ \A k \in Entries(d) : dents'[d][k] = LookupNid(Target(d, k))
              /\ DOMAIN dents'[d] = Entries(d)
              /\ \A e : Open(e)' <=> Open(e) /\ e # d
<1>1. /\ jobs # << >> /\ jobs' = Tail(jobs) /\ out' = out /\ wpc = "run"
      /\ kids' = kids /\ failing' = failing /\ parent' = parent
      /\ mpc' = mpc /\ dumpdir' = dumpdir /\ idx' = idx /\ subs' = subs
      /\ err' = err /\ wpc' = wpc
  BY DEF JobDirBh, Handling
<1>2. \A i : Visited(i)' <=> Visited(i)
  BY <1>1 DEF Visited
<1>3. \A e : Read(e)' <=> Read(e)
  BY <1>1, <1>2 DEF Read
<1>4. Subject \in Dirs /\ Writing(1, Subject) /\ 1 \in 1..Len(Q)
  BY <1>1, HeadFacts DEF JobDirBh
<1>5. Open(Subject) /\ Read(Subject) /\ PlacedBy(Subject, 1)
  BY <1>4 DEF BuildInv, WriteInv, Open
<1>6. bh[Subject] # "none"
  BY <1>5 DEF PlacedBy
<1>7. /\ bh' = [bh EXCEPT ![Subject] = "write"]
      /\ inl' = [inl EXCEPT ![Subject] = IF @ = "skip" THEN "write" ELSE @]
      /\ dents' = [dents EXCEPT ![Subject] =
                     [k \in Entries(Subject) |-> LookupNid(Target(Subject, k))]]
  BY DEF JobDirBh
<1>8. DOMAIN dents = Dirs /\ 0 \in Entries(Subject)
  BY <1>4, TreeFacts DEF BuildInv, TypeInv
<1>9. /\ \A k \in Entries(Subject) : dents'[Subject][k] = LookupNid(Target(Subject, k))
      /\ DOMAIN dents'[Subject] = Entries(Subject)
      /\ \A e \in Dirs : e # Subject => dents'[e] = dents[e]
  BY <1>4, <1>7, <1>8
<1>10. dents'[Subject][0] # "open"
  BY <1>8, <1>9 DEF LookupNid
<1>11. \A e : Open(e)' <=> Open(e) /\ e # Subject
  <2>1. \A e : Read(e) => e \in Dirs
    BY DEF Read
  <2> QED
    BY <2>1, <1>3, <1>9, <1>10 DEF Open
<1>12. Subject \in Inodes
  BY <1>4, DirsInodes
<1> QED
  BY <1>1, <1>2, <1>3, <1>4, <1>5, <1>6, <1>7, <1>9, <1>10, <1>11, <1>12

(* The steps that change neither the queue nor the tree's directories. *)
LEMMA QuietEffect ==
  ASSUME BuildInv,
         \/ HandleRoot /\ Root \in failing
         \/ FlushJobs \/ HardLink \/ Join \/ Bflush \/ RootPut \/ UNCHANGED vars
  PROVE  /\ kids' = kids /\ failing' = failing /\ dents' = dents /\ Q' = Q
         /\ jobs' = jobs /\ out' = out /\ dumpdir' = dumpdir /\ subs' = subs /\ wpc' = wpc
         /\ \A e : Read(e)' <=> Read(e)
         /\ \A e : Open(e)' <=> Open(e)
         /\ (mpc = "root" \/ mpc = mpc' \/ (mpc = "flush" /\ mpc' = "scan")
               \/ mpc \in {"join", "joined", "flushed"})
<1>1. /\ kids' = kids /\ failing' = failing /\ dents' = dents
      /\ jobs' = jobs /\ out' = out /\ dumpdir' = dumpdir /\ subs' = subs /\ wpc' = wpc
      /\ (mpc = "root" \/ mpc = mpc' \/ (mpc = "flush" /\ mpc' = "scan")
               \/ mpc \in {"join", "joined", "flushed"})
  BY DEF HandleRoot, FlushJobs, HardLink, Join, Bflush, RootPut, vars, tree
<1>2. Q' = Q
  BY <1>1 DEF Q
<1>3. \A e \in Dirs : e \notin failing => parent'[e] = parent[e]
  <2>1. CASE HandleRoot /\ Root \in failing
    <3>1. DOMAIN parent = Inodes
      BY DEF BuildInv, TypeInv
    <3> QED
      BY <2>1, <3>1, DirsInodes DEF HandleRoot
  <2>2. CASE FlushJobs \/ HardLink \/ Join \/ Bflush \/ RootPut \/ UNCHANGED vars
    BY <2>2 DEF FlushJobs, HardLink, Join, Bflush, RootPut, vars, tree
  <2> QED
    BY <2>1, <2>2
<1>4. \A e : Read(e)' <=> Read(e)
  BY <1>1, <1>3 DEF Read, Visited
<1> QED
  BY <1>1, <1>2, <1>4 DEF Open

(* HandleNew, whether it reads the entry or not. *)
LEMMA NewTree ==
  ASSUME BuildInv, HandleNew, NEW h, h = Here
  PROVE  /\ h \in Inodes /\ parent'[h] = Head(dumpdir) /\ Visited(h)' /\ ~Visited(h)
         /\ \A j \in Inodes : j # h => parent'[j] = IF j \in freed /\ j \notin freed'
                                                    THEN NULL ELSE parent[j]
         /\ \A j \in Inodes : j \in freed /\ j \notin freed' =>
              /\ j \in Files /\ bh[j] = "none" /\ inl[j] = "none" /\ i_count[j] = 0
              /\ \A m \in 1..Len(Q) : ~Placing(m, j)
         /\ freed' \subseteq freed
         /\ \A j \in Dirs : j # h => parent'[j] = parent[j]
         /\ \A e : Read(e)' <=> Read(e) \/ (e = h /\ h \in Dirs)
         /\ \A e : Open(e)' <=> Open(e) \/ (e = h /\ h \in Dirs)
<1>1. /\ h \in Inodes /\ Head(dumpdir) \in Dirs /\ ~Visited(h) /\ h \notin failing
      /\ kids' = kids /\ failing' = failing /\ dents' = dents
  BY NewEffect
<1>2. CASE h \in Dirs
  <2>1. ReadDir(h, Head(dumpdir), 0)
    BY <1>2, NewEffect
  <2>2. /\ \A j \in Inodes : j \in freed /\ j \notin freed' =>
              /\ j \in Files /\ bh[j] = "none" /\ inl[j] = "none" /\ i_count[j] = 0
              /\ \A m \in 1..Len(Q) : ~Placing(m, j)
        /\ freed' \subseteq freed /\ parent'[h] = Head(dumpdir) /\ Visited(h)'
        /\ \A j \in Inodes : j # h => parent'[j] = IF j \in freed /\ j \notin freed'
                                                   THEN NULL ELSE parent[j]
        /\ \A e : Read(e)' <=> Read(e) \/ e = h
        /\ \A e : Open(e)' <=> Open(e) \/ e = h
    BY <1>1, <1>2, <2>1, ReadDirEffect
  <2>3. \A j \in Dirs : j # h => parent'[j] = parent[j]
    BY <2>2, MkfsAssumption, DirsInodes
  <2> QED
    BY <1>1, <1>2, <2>2, <2>3
<1>3. CASE h \notin Dirs
  <2>1. parent' = [parent EXCEPT ![h] = Head(dumpdir)] /\ freed' = freed
    BY <1>3, NewEffect
  <2>2. /\ parent'[h] = Head(dumpdir) /\ \A j \in Inodes : j # h => parent'[j] = parent[j]
        /\ Visited(h)'
        /\ \A e : Read(e)' <=> Read(e)
        /\ \A e : Open(e)' <=> Open(e)
    BY <1>1, <1>3, <2>1, MeetEffect
  <2> QED
    BY <1>1, <1>3, <2>1, <2>2, DirsInodes
<1> QED
  BY <1>2, <1>3

(* The worker: buffers are only added, and only the directory that is      *)
(* written is no longer open.                                              *)
LEMMA WorkerEffect ==
  ASSUME BuildInv, Worker
  PROVE  /\ jobs # << >> /\ jobs' = Tail(jobs) /\ out' = out /\ kids' = kids
         /\ failing' = failing /\ parent' = parent /\ mpc' = mpc /\ dumpdir' = dumpdir
         /\ idx' = idx /\ subs' = subs /\ err' = err /\ wpc = "run"
         /\ \A j : Visited(j)' <=> Visited(j)
         /\ \A e : Read(e)' <=> Read(e)
         /\ \A e : Open(e)' <=> Open(e) /\ ~Writing(1, e)
         /\ \A j \in Inodes : bh[j] # "none" \/ Placing(1, j) => bh'[j] # "none"
         /\ \A j \in Inodes : \A n \in Nat \ {0} : PlacedBy(j, n + 1) => PlacedBy(j, n)'
<1>1. /\ jobs # << >> /\ jobs' = Tail(jobs) /\ out' = out /\ kids' = kids
      /\ failing' = failing /\ parent' = parent /\ mpc' = mpc /\ dumpdir' = dumpdir
      /\ idx' = idx /\ subs' = subs /\ err' = err /\ wpc = "run"
  BY DEF Worker, JobNdir, JobDir, JobDirBh, JobMax, Handling, tree
<1>t. TypeInv /\ DOMAIN bh = Inodes
  BY DEF BuildInv, TypeInv
<1>2. \A j : Visited(j)' <=> Visited(j)
  BY <1>1 DEF Visited
<1>3. \A e : Read(e)' <=> Read(e)
  BY <1>1, <1>2 DEF Read
<1>4. /\ \A e : Open(e)' <=> Open(e) /\ ~Writing(1, e)
      /\ \A j \in Inodes : bh[j] # "none" \/ Placing(1, j) => bh'[j] # "none"
  <2>1. CASE JobNdir \/ JobDir
    <3>1. PICK i \in Inodes : \E o \in {"skip", "write"} :
            Placing(1, i) /\ 1 \in 1..Len(Q) /\ bh' = [bh EXCEPT ![i] = o]
      BY <2>1, PlaceEffect
    <3>2. dents' = dents
      BY <2>1, PlaceEffect
    <3>3. \A e \in Dirs : ~Writing(1, e)
      BY <3>1, JobFacts DEF Placing, Writing
    <3>4. \A e : Open(e)' <=> Open(e)
      BY <1>1, <3>2, TreeKept
    <3>5. \A e : Open(e) => e \in Dirs
      BY DEF Open, Read
    <3>6. \A j \in Inodes : Placing(1, j) => j = i
      <4>1. \A j : Placing(1, j) => Q[1] = PlaceJob(j)
        BY DEF Placing
      <4>2. \A j \in Inodes : PlaceJob(j) = PlaceJob(i) => j = i
        BY JobFacts
      <4> QED
        BY <3>1, <4>1, <4>2
    <3> QED
      BY <3>1, <3>3, <3>4, <3>5, <3>6, <1>t
  <2>2. CASE JobDirBh
    <3>1. PICK d \in Dirs :
            /\ Writing(1, d) /\ bh' = [bh EXCEPT ![d] = "write"] /\ bh[d] # "none"
            /\ \A e : Open(e)' <=> Open(e) /\ e # d
      BY <2>2, WriteEffect
    <3>2. \A e \in Dirs : Writing(1, e) <=> e = d
      BY <3>1, JobFacts DEF Writing
    <3>3. \A j \in Inodes : ~Placing(1, j)
      BY <3>1, JobFacts DEF Placing, Writing
    <3>4. \A e : Open(e) => e \in Dirs
      BY DEF Open, Read
    <3> QED
      BY <3>1, <3>2, <3>3, <3>4, <1>t
  <2>3. CASE JobMax
    <3>1. Q[1].type = "MAX" /\ bh' = bh /\ \A e : Open(e)' <=> Open(e)
      BY <2>3, <1>1, HeadFacts, TreeStepsKeep DEF JobMax, Handling, TreeSteps
    <3>2. \A e \in Dirs : ~Writing(1, e)
      BY <3>1, JobFacts DEF Writing
    <3>3. \A j \in Inodes : ~Placing(1, j)
      BY <3>1, JobFacts DEF Placing
    <3>4. \A e : Open(e) => e \in Dirs
      BY DEF Open, Read
    <3> QED
      BY <3>1, <3>2, <3>3, <3>4
  <2> QED
    BY <2>1, <2>2, <2>3 DEF Worker
<1>5. \A j \in Inodes : \A n \in Nat \ {0} : PlacedBy(j, n + 1) => PlacedBy(j, n)'
  BY <1>1, <1>4, <1>t, PlacedTake
<1> QED
  BY <1>1, <1>2, <1>3, <1>4, <1>5
-----------------------------------------------------------------------------
(* Every step keeps PlaceInv. *)
LEMMA PlaceStep == BuildInv /\ [Next]_vars => PlaceInv'
<1> SUFFICES ASSUME BuildInv, [Next]_vars, NEW i \in Inodes, NEW n \in 1..Len(Q'),
                    Placing(n, i)'
             PROVE  /\ bh'[i] = "none" /\ Visited(i)' /\ i \notin failing'
                    /\ \A m \in 1..Len(Q') : Placing(m, i)' => m = n
                    /\ i \in Dirs => dents'[i][0] = "open"
                    /\ i \in Files =>
                         /\ Open(parent[i])'
                         /\ \E k \in 1..Len(kids'[parent'[i]]) : kids'[parent'[i]][k] = i
                         /\ \A m \in 1..(n - 1) : ~Writing(m, parent[i])'
  BY DEF PlaceInv
<1>t. TypeInv /\ PlaceInv /\ BufferInv /\ DirInv /\ Len(Q) \in Nat /\ TypeInv'
  BY QType, TypeStep DEF BuildInv
<1>n. Len(Q') \in Nat /\ n \in Nat \ {0}
  BY <1>t, QType, TypeStep DEF Q, TypeInv
<1>f. i \in Dirs => i \notin Files
  BY MkfsAssumption
(* A job of an inode the step leaves alone. *)
<1>1. ASSUME NEW m \in 1..Len(Q), Placing(m, i)
      PROVE  /\ bh[i] = "none" /\ Visited(i) /\ i \notin failing
             /\ \A l \in 1..Len(Q) : Placing(l, i) => l = m
             /\ i \in Dirs => dents[i][0] = "open"
             /\ i \in Files =>
                  /\ Open(parent[i]) /\ parent[i] \in Dirs
                  /\ \E k \in 1..Len(kids[parent[i]]) : kids[parent[i]][k] = i
                  /\ \A l \in 1..(m - 1) : ~Writing(l, parent[i])
  BY <1>1, <1>t DEF PlaceInv, Open, Read
<1>2. CASE HandleRoot /\ Root \notin failing
  <2>1. /\ Len(Q) = 0 /\ out = NULL /\ PlaceJob(Root) \in Jobs /\ PlaceJob(Root) # NULL
        /\ out' = PlaceJob(Root) /\ jobs' = jobs /\ failing' = failing /\ bh' = bh
        /\ dents' = dents /\ Visited(Root)' /\ bh[Root] = "none" /\ ~Read(Root)
    BY <1>2, RootEffect, DirsInodes
  <2>2. /\ Len(Q') = 1
        /\ \A j : \A m \in Nat : Placing(m, j)' <=> Placing(m, j) \/ (m = 1 /\ PlaceJob(Root) = PlaceJob(j))
    BY <2>1, <1>t, SendSeen
  <2>3. \A j, m : ~Placing(m, j)
    BY <2>1 DEF Placing
  <2>4. i = Root /\ n = 1
    BY <2>2, <2>3, <1>n, JobFacts, DirsInodes
  <2>5. dents[Root][0] = "open"
    BY <2>1, <1>t, DirsInodes DEF DirInv
  <2>6. \A m \in 1..Len(Q') : m = 1
    BY <2>2
  <2> QED
    BY <1>2, <2>1, <2>4, <2>5, <2>6, <1>f, DirsInodes
<1>3. CASE HandleNew
  <2>1. /\ mpc = "scan" /\ out = NULL /\ Scanning /\ Here \in Inodes /\ Head(dumpdir) \in Dirs
        /\ ~Visited(Here) /\ Here \notin failing
        /\ PlaceJob(Here) \in Jobs /\ PlaceJob(Here) # NULL /\ out' = PlaceJob(Here)
        /\ kids' = kids /\ failing' = failing /\ bh' = bh /\ dents' = dents /\ jobs' = jobs
    BY <1>3, NewEffect
  <2>2. /\ parent'[Here] = Head(dumpdir)
        /\ \A e : Open(e) => Open(e)'
        /\ \A j \in Inodes : j # Here /\ (\E m \in 1..Len(Q) : Placing(m, j)) => parent'[j] = parent[j]
    <3>1. PICK h : h = Here
      OBVIOUS
    <3>2. /\ parent'[h] = Head(dumpdir)
          /\ \A j \in Inodes : j # h => parent'[j] = IF j \in freed /\ j \notin freed'
                                                     THEN NULL ELSE parent[j]
          /\ \A j \in Inodes : j \in freed /\ j \notin freed' =>
               \A m \in 1..Len(Q) : ~Placing(m, j)
          /\ \A e : Open(e) => Open(e)'
      BY <1>3, <3>1, NewTree
    <3> QED
      BY <3>1, <3>2
  <2>3. /\ Len(Q') = Len(Q) + 1
        /\ \A j : \A m \in Nat :
             Placing(m, j)' <=> Placing(m, j) \/ (m = Len(Q) + 1 /\ PlaceJob(Here) = PlaceJob(j))
        /\ \A d : \A m \in Nat :
             Writing(m, d)' <=> Writing(m, d) \/ (m = Len(Q) + 1 /\ PlaceJob(Here) = Job("DIR_BH", d))
    BY <2>1, <1>t, SendSeen
  <2>4. \A d \in Dirs : \A m \in Nat : Writing(m, d)' <=> Writing(m, d)
    BY <2>1, <2>3, JobFacts
  <2>5. \A m : ~Placing(m, Here)
    BY <2>1, <1>t DEF PlaceInv, Placing
  <2>6. CASE i = Here
    <3>1. n = Len(Q) + 1
      BY <2>3, <2>5, <2>6, <1>n
    <3>2. \A m \in 1..Len(Q') : Placing(m, i)' => m = n
      BY <2>3, <2>5, <2>6, <3>1, <1>n
    <3>3. bh[Here] = "none" /\ (Here \in Dirs => dents[Here][0] = "open")
      BY <2>1, <1>t DEF BufferInv, DirInv, Read
    <3>4. /\ Open(Head(dumpdir)) /\ idx \in 1..Len(kids[Head(dumpdir)])
          /\ \A m \in 1..Len(Q) : ~Writing(m, Head(dumpdir))
      BY <2>1, ScanFacts
    <3>5. kids[Head(dumpdir)][idx] = Here
      BY DEF Here
    <3>6. \A m \in 1..(n - 1) : m \in 1..Len(Q) /\ m \in Nat
      BY <3>1, <1>t
    <3>7. ASSUME NEW p \in Dirs, p = Head(dumpdir)
          PROVE  Open(p)' /\ \A m \in 1..(n - 1) : ~Writing(m, p)'
      BY <2>2, <2>4, <3>4, <3>6, <3>7
    <3>8. ASSUME NEW p \in Dirs, p = Head(dumpdir), p = parent'[i]
          PROVE  Open(parent[i])' /\ \A m \in 1..(n - 1) : ~Writing(m, parent[i])'
      <4>1. Open(p)' /\ \A m \in 1..(n - 1) : ~Writing(m, p)'
        BY <3>7, <3>8
      <4> QED
        BY <4>1, <3>8
    <3>9. parent'[i] = Head(dumpdir) /\ Visited(i)'
      BY <2>1, <2>2, <2>6, DirsInodes DEF Visited
    <3> QED
      BY <2>1, <2>6, <3>2, <3>3, <3>4, <3>5, <3>8, <3>9
  <2>7. CASE i # Here
    <3>1. Placing(n, i) /\ n \in 1..Len(Q)
      BY <2>1, <2>3, <2>7, <1>n, JobFacts DEF Placing
    <3>2. \A m \in 1..Len(Q') : Placing(m, i)' => m \in 1..Len(Q) /\ Placing(m, i)
      BY <2>1, <2>3, <2>7, <1>n, JobFacts DEF Placing
    <3>3. parent'[i] = parent[i]
      BY <2>2, <2>7, <3>1
    <3>4. Visited(i)'
      BY <1>1, <3>1, <3>3 DEF Visited
    <3>5. ASSUME i \in Files, NEW p \in Dirs, p = parent[i]
          PROVE  Open(parent[i])' /\ \A m \in 1..(n - 1) : ~Writing(m, parent[i])'
      <4>1. Open(p) /\ \A m \in 1..(n - 1) : ~Writing(m, p)
        BY <1>1, <3>1, <3>5
      <4>2. \A m \in 1..(n - 1) : m \in Nat
        BY <1>n
      <4>3. Open(p)' /\ \A m \in 1..(n - 1) : ~Writing(m, p)'
        BY <4>1, <4>2, <2>2, <2>4
      <4> QED
        BY <4>3, <3>3, <3>5
    <3>6. /\ bh[i] = "none" /\ i \notin failing
          /\ \A l \in 1..Len(Q) : Placing(l, i) => l = n
          /\ i \in Dirs => dents[i][0] = "open"
          /\ i \in Files =>
               /\ parent[i] \in Dirs
               /\ \E k \in 1..Len(kids[parent[i]]) : kids[parent[i]][k] = i
      BY <1>1, <3>1
    <3> QED
      BY <2>1, <3>2, <3>3, <3>4, <3>5, <3>6
  <2> QED
    BY <2>6, <2>7
(* The steps that only send a job that writes, or none. *)
<1>4. ASSUME NEW m \in 1..Len(Q), Placing(m, i), bh'[i] = bh[i], parent'[i] = parent[i],
             failing' = failing, kids' = kids, i \in Dirs => dents'[i] = dents[i],
             i \in Files => Open(parent[i])',
             \A l \in 1..Len(Q') : Placing(l, i)' => l = n,
             i \in Files => \A l \in 1..(n - 1) : ~Writing(l, parent[i])'
      PROVE  /\ bh'[i] = "none" /\ Visited(i)' /\ i \notin failing'
             /\ \A l \in 1..Len(Q') : Placing(l, i)' => l = n
             /\ i \in Dirs => dents'[i][0] = "open"
             /\ i \in Files =>
                  /\ Open(parent[i])'
                  /\ \E k \in 1..Len(kids'[parent'[i]]) : kids'[parent'[i]][k] = i
                  /\ \A l \in 1..(n - 1) : ~Writing(l, parent[i])'
  <2>1. Visited(i)'
    BY <1>1, <1>4 DEF Visited
  <2> QED
    BY <1>1, <1>4, <2>1
<1>5. CASE EndDir \/ Stop
  <2>1. /\ kids' = kids /\ failing' = failing /\ parent' = parent /\ bh' = bh
        /\ dents' = dents /\ out = NULL /\ jobs' = jobs
    BY <1>5 DEF EndDir, Stop, tree
  <2>2. PICK x \in Jobs : /\ x # NULL /\ out' = x
                          /\ \A j \in Inodes : x # PlaceJob(j)
    <3>1. CASE EndDir
      <4>1. Head(dumpdir) \in Dirs /\ out' = Job("DIR_BH", Head(dumpdir))
        BY <3>1, ScanFacts DEF EndDir
      <4> QED
        BY <4>1, JobFacts
    <3>2. CASE Stop
      BY <3>2, JobFacts DEF Stop
    <3> QED
      BY <1>5, <3>1, <3>2
  <2>3. /\ \A j : \A m \in Nat :
             Placing(m, j)' <=> Placing(m, j) \/ (m = Len(Q) + 1 /\ x = PlaceJob(j))
        /\ \A d : \A m \in Nat :
             Writing(m, d)' <=> Writing(m, d) \/ (m = Len(Q) + 1 /\ x = Job("DIR_BH", d))
    BY <2>1, <2>2, <1>t, SendSeen
  <2>4. \A m \in Nat : Placing(m, i)' => m \in 1..Len(Q) /\ Placing(m, i)
    BY <2>2, <2>3 DEF Placing
  <2>5. n \in 1..Len(Q) /\ Placing(n, i)
    BY <2>4, <1>n
  <2>6. \A l \in 1..Len(Q') : Placing(l, i)' => l = n
    BY <1>1, <2>4, <2>5, <1>n
  <2>7. ASSUME i \in Files
        PROVE  Open(parent[i])' /\ \A l \in 1..(n - 1) : ~Writing(l, parent[i])'
    <3>1. PICK p \in Dirs : p = parent[i]
      BY <1>1, <2>5, <2>7
    <3>2. Open(p) /\ \A l \in 1..(n - 1) : ~Writing(l, p)
      BY <1>1, <2>5, <2>7, <3>1
    <3>3. \A l \in 1..(n - 1) : l \in Nat /\ l # Len(Q) + 1
      BY <2>5, <1>t
    <3>4. Open(p)' /\ \A l \in 1..(n - 1) : ~Writing(l, p)'
      BY <2>1, <2>3, <3>2, <3>3, TreeKept
    <3> QED
      BY <3>1, <3>4, <2>1
  <2> QED
    BY <1>4, <2>1, <2>5, <2>6, <2>7
<1>6. CASE Go \/ HandleFails \/ (HandleRoot /\ Root \in failing)
        \/ FlushJobs \/ HardLink \/ Join \/ Bflush \/ RootPut \/ UNCHANGED vars
  <2>1. /\ Q' = Q /\ kids' = kids /\ failing' = failing /\ dents' = dents
        /\ \A e : Open(e)' <=> Open(e)
    <3>1. CASE Go
      BY <3>1, <1>t, QGo, TreeStepsKeep DEF TreeSteps, Go
    <3>2. CASE HandleFails
      <4>1. /\ kids' = kids /\ failing' = failing /\ dents' = dents /\ Here \in Inodes
            /\ ~Visited(Here) /\ Here \in failing /\ Head(dumpdir) \in Dirs
            /\ out' = out /\ jobs' = jobs /\ parent' = [parent EXCEPT ![Here] = Head(dumpdir)]
        BY <3>2, FailsEffect
      <4>2. \A e : Open(e)' <=> Open(e)
        BY <4>1, MeetEffect
      <4> QED
        BY <4>1, <4>2 DEF Q
    <3>3. CASE ~Go /\ ~HandleFails
      BY <1>6, <3>3, QuietEffect
    <3> QED
      BY <3>1, <3>2, <3>3
  <2>2. \A j, m : Placing(m, j)' <=> Placing(m, j)
    BY <2>1 DEF Placing, PlaceJob, Job
  <2>3. \A d, m : Writing(m, d)' <=> Writing(m, d)
    BY <2>1 DEF Writing, Job
  <2>4. n \in 1..Len(Q) /\ Placing(n, i)
    BY <2>1, <2>2
  <2>5. bh'[i] = bh[i] /\ parent'[i] = parent[i]
    <3>1. ~Bflush /\ ~HandleRoot
      BY <2>1, <2>4, QEmpty DEF Bflush, HandleRoot
    <3>2. CASE HandleFails
      <4>1. ~Visited(Here) /\ bh' = bh /\ parent' = [parent EXCEPT ![Here] = Head(dumpdir)]
        BY <3>2, FailsEffect
      <4>2. i # Here
        BY <1>1, <2>4, <4>1
      <4> QED
        BY <4>1, <4>2, <1>t DEF TypeInv
    <3>3. CASE ~HandleFails
      BY <1>6, <3>1, <3>3 DEF Go, FlushJobs, HardLink, Join, RootPut, vars, tree
    <3> QED
      BY <3>2, <3>3
  <2>6. \A l \in 1..Len(Q') : Placing(l, i)' => l = n
    BY <1>1, <2>1, <2>2, <2>4
  <2>7. ASSUME i \in Files
        PROVE  Open(parent[i])' /\ \A l \in 1..(n - 1) : ~Writing(l, parent[i])'
    <3>1. PICK p \in Dirs : p = parent[i]
      BY <1>1, <2>4, <2>7
    <3>2. Open(p) /\ \A l \in 1..(n - 1) : ~Writing(l, p)
      BY <1>1, <2>4, <2>7, <3>1
    <3>3. Open(p)' /\ \A l \in 1..(n - 1) : ~Writing(l, p)'
      BY <2>1, <2>3, <3>2
    <3> QED
      BY <3>1, <3>3, <2>5
  <2> QED
    BY <1>4, <2>1, <2>4, <2>5, <2>6, <2>7
(* The worker. *)
<1>7. CASE Worker
  <2>1. /\ jobs # << >> /\ jobs' = Tail(jobs) /\ out' = out /\ kids' = kids
        /\ failing' = failing /\ parent' = parent
    BY <1>7 DEF Worker, JobNdir, JobDir, JobDirBh, JobMax, Handling, tree
  <2>2. /\ Len(Q') = Len(Q) - 1
        /\ \A j : \A m \in Nat \ {0} : Placing(m, j)' <=> Placing(m + 1, j)
        /\ \A d : \A m \in Nat \ {0} : Writing(m, d)' <=> Writing(m + 1, d)
    BY <2>1, <1>t, TakeSeen
  <2>3. n + 1 \in 1..Len(Q) /\ Placing(n + 1, i)
    BY <2>2, <1>n, <1>t
  <2>4. \A l \in 1..Len(Q') : Placing(l, i)' => l = n
    <3> SUFFICES ASSUME NEW l \in 1..Len(Q'), Placing(l, i)' PROVE l = n
      OBVIOUS
    <3>1. l + 1 \in 1..Len(Q) /\ Placing(l + 1, i) /\ l \in Nat
      BY <2>2, <1>n, <1>t
    <3>2. l + 1 = n + 1
      BY <1>1, <2>3, <3>1
    <3> QED
      BY <3>1, <3>2, <1>n
  <2>5. /\ bh'[i] = bh[i] /\ (i \in Dirs => dents'[i] = dents[i])
        /\ \A e : Open(e) /\ ~Writing(1, e) => Open(e)'
    <3>1. CASE JobNdir \/ JobDir
      <4>1. PICK j \in Inodes : \E o \in {"skip", "write"} :
              Placing(1, j) /\ 1 \in 1..Len(Q) /\ bh' = [bh EXCEPT ![j] = o]
        BY <3>1, PlaceEffect
      <4>2. j # i
        <5> SUFFICES ASSUME j = i PROVE FALSE
          OBVIOUS
        <5>1. 1 = n + 1
          BY <4>1, <2>3, <1>1
        <5> QED
          BY <5>1, <1>n
      <4>3. dents' = dents
        BY <3>1, PlaceEffect
      <4> QED
        BY <4>1, <4>2, <4>3, <2>1, <1>t, TreeKept DEF TypeInv
    <3>2. CASE JobDirBh
      <4>1. PICK d \in Dirs :
              /\ Writing(1, d) /\ bh[d] # "none" /\ bh' = [bh EXCEPT ![d] = "write"]
              /\ \A e \in Dirs : e # d => dents'[e] = dents[e]
              /\ \A e : Open(e)' <=> Open(e) /\ e # d
        BY <3>2, WriteEffect
      <4>2. i # d
        BY <4>1, <2>3, <1>1
      <4> QED
        BY <4>1, <4>2, <1>t DEF TypeInv
    <3>3. CASE JobMax
      BY <3>3, TreeStepsKeep DEF TreeSteps
    <3> QED
      BY <1>7, <3>1, <3>2, <3>3 DEF Worker
  <2>6. ASSUME i \in Files
        PROVE  Open(parent[i])' /\ \A l \in 1..(n - 1) : ~Writing(l, parent[i])'
    <3>1. PICK p \in Dirs : p = parent[i]
      BY <1>1, <2>3, <2>6
    <3>2. Open(p) /\ \A l \in 1..n : ~Writing(l, p)
      <4>1. (n + 1) - 1 = n
        BY <1>n
      <4> QED
        BY <1>1, <2>3, <2>6, <3>1, <4>1
    <3>3. ~Writing(1, p)
      BY <3>2, <1>n
    <3>4. ASSUME NEW l \in 1..(n - 1) PROVE ~Writing(l, p)'
      <4>1. l \in Nat \ {0} /\ l + 1 \in 1..n
        BY <1>n
      <4> QED
        BY <4>1, <3>2, <2>2
    <3> QED
      BY <3>1, <3>2, <3>3, <3>4, <2>1, <2>5
  <2> QED
    BY <1>4, <2>1, <2>3, <2>4, <2>5, <2>6
<1> QED
  BY <1>2, <1>3, <1>5, <1>6, <1>7 DEF Next, Main, HandleRoot
-----------------------------------------------------------------------------
(* Every step keeps WriteInv. *)
LEMMA WriteStep == BuildInv /\ [Next]_vars => WriteInv'
<1> SUFFICES ASSUME BuildInv, [Next]_vars, NEW d \in Dirs, NEW n \in 1..Len(Q'),
                    Writing(n, d)'
             PROVE  /\ Open(d)'
                    /\ \A m \in 1..Len(Q') : Writing(m, d)' => m = n
                    /\ PlacedBy(d, n)' /\ PlacedBy(parent[d], n)'
                    /\ failing' = {} => \A k \in 1..Len(kids'[d]) : PlacedBy(kids[d][k], n)'
  BY DEF WriteInv
<1>t. TypeInv /\ WriteInv /\ BufferInv /\ DirInv /\ Len(Q) \in Nat /\ kids \in Trees
  BY QType DEF BuildInv, TypeInv
<1>n. Len(Q') \in Nat /\ n \in Nat \ {0}
  BY QType, TypeStep DEF Q, TypeInv
<1>1. ASSUME NEW m \in 1..Len(Q), Writing(m, d)
      PROVE  /\ Open(d) /\ Read(d) /\ Read(parent[d]) /\ parent[d] \in Dirs
             /\ \A l \in 1..Len(Q) : Writing(l, d) => l = m
             /\ PlacedBy(d, m) /\ PlacedBy(parent[d], m)
             /\ failing = {} => \A k \in 1..Len(kids[d]) : PlacedBy(kids[d][k], m)
  BY <1>1, <1>t DEF WriteInv, DirInv, Open, Read
<1>k. \A k \in 1..Len(kids[d]) : kids[d][k] \in Inodes
  BY <1>t, TreeFacts
(* What was sent before keeps its place, and what it needs. *)
<1>2. ASSUME NEW m \in 1..Len(Q), Writing(m, d), kids' = kids, failing' = failing,
             Open(d)', parent'[d] = parent[d],
             \A l \in 1..Len(Q') : Writing(l, d)' => l = n,
             \A i \in Inodes : PlacedBy(i, m) => PlacedBy(i, n)'
      PROVE  /\ Open(d)'
             /\ \A l \in 1..Len(Q') : Writing(l, d)' => l = n
             /\ PlacedBy(d, n)' /\ PlacedBy(parent[d], n)'
             /\ failing' = {} => \A k \in 1..Len(kids'[d]) : PlacedBy(kids[d][k], n)'
  <2>1. PlacedBy(d, n)'
    BY <1>1, <1>2, DirsInodes
  <2>2. PlacedBy(parent[d], n)'
    <3>1. PICK p \in Dirs : p = parent[d]
      BY <1>1, <1>2
    <3>2. PlacedBy(p, n)'
      BY <1>1, <1>2, <3>1, DirsInodes
    <3> QED
      BY <1>2, <3>1, <3>2
  <2>3. ASSUME failing' = {}, NEW k \in 1..Len(kids'[d])
        PROVE  PlacedBy(kids[d][k], n)'
    <3>1. k \in 1..Len(kids[d])
      BY <1>2
    <3>2. PICK i \in Inodes : i = kids[d][k]
      BY <3>1, <1>k
    <3>3. PlacedBy(i, n)'
      BY <1>1, <1>2, <2>3, <3>1, <3>2
    <3> QED
      BY <1>2, <3>2, <3>3
  <2> QED
    BY <1>2, <2>1, <2>2, <2>3
<1>3. ASSUME NEW x \in Jobs, x # NULL, out = NULL, out' = x, jobs' = jobs, bh' = bh,
             \A e \in Dirs : x # Job("DIR_BH", e)
      PROVE  /\ n \in 1..Len(Q) /\ Writing(n, d)
             /\ \A l \in 1..Len(Q') : Writing(l, d)' => l = n
             /\ \A i \in Inodes : PlacedBy(i, n) => PlacedBy(i, n)'
  <2>1. \A e : \A m \in Nat :
          Writing(m, e)' <=> Writing(m, e) \/ (m = Len(Q) + 1 /\ x = Job("DIR_BH", e))
    BY <1>3, <1>t, SendSeen
  <2>2. \A m \in Nat : Writing(m, d)' => m \in 1..Len(Q) /\ Writing(m, d)
    BY <1>3, <2>1 DEF Writing
  <2>3. n \in 1..Len(Q) /\ Writing(n, d)
    BY <2>2, <1>n
  <2>4. \A i : PlacedBy(i, n) => PlacedBy(i, n)'
    BY <1>3, <1>t, <1>n, PlacedSend
  <2> QED
    BY <1>1, <1>n, <2>2, <2>3, <2>4
<1>4. CASE HandleRoot /\ Root \notin failing
  <2>1. /\ Len(Q) = 0 /\ out = NULL /\ PlaceJob(Root) \in Jobs /\ PlaceJob(Root) # NULL
        /\ out' = PlaceJob(Root) /\ jobs' = jobs /\ bh' = bh
    BY <1>4, RootEffect
  <2>2. \A e \in Dirs : PlaceJob(Root) # Job("DIR_BH", e)
    BY JobFacts, DirsInodes
  <2>3. n \in 1..Len(Q)
    BY <1>3, <2>1, <2>2
  <2> QED
    BY <2>1, <2>3
<1>5. CASE HandleNew
  <2>1. /\ out = NULL /\ PlaceJob(Here) \in Jobs /\ PlaceJob(Here) # NULL
        /\ out' = PlaceJob(Here) /\ jobs' = jobs /\ bh' = bh /\ Here \in Inodes
        /\ kids' = kids /\ failing' = failing
    BY <1>5, NewEffect
  <2>2. \A e \in Dirs : PlaceJob(Here) # Job("DIR_BH", e)
    BY <2>1, JobFacts
  <2>3. /\ n \in 1..Len(Q) /\ Writing(n, d)
        /\ \A l \in 1..Len(Q') : Writing(l, d)' => l = n
        /\ \A i \in Inodes : PlacedBy(i, n) => PlacedBy(i, n)'
    BY <1>3, <2>1, <2>2
  <2>4. PICK h : h = Here
    OBVIOUS
  <2>5. /\ \A e : Open(e) => Open(e)'
        /\ \A j \in Dirs : j # h => parent'[j] = parent[j]
        /\ ~Visited(h)
    BY <1>5, <2>4, NewTree
  <2>6. Open(d) /\ d # h
    BY <1>1, <2>3, <2>5 DEF Read
  <2> QED
    BY <1>2, <2>1, <2>3, <2>5, <2>6
<1>6. CASE Stop
  <2>1. /\ out = NULL /\ out' = Job("MAX", NULL) /\ jobs' = jobs /\ bh' = bh
        /\ kids' = kids /\ failing' = failing /\ parent' = parent /\ dents' = dents
    BY <1>6 DEF Stop, tree
  <2>2. /\ Job("MAX", NULL) \in Jobs /\ Job("MAX", NULL) # NULL
        /\ \A e \in Dirs : Job("MAX", NULL) # Job("DIR_BH", e)
    BY JobFacts
  <2>3. /\ n \in 1..Len(Q) /\ Writing(n, d)
        /\ \A l \in 1..Len(Q') : Writing(l, d)' => l = n
        /\ \A i \in Inodes : PlacedBy(i, n) => PlacedBy(i, n)'
    BY <1>3, <2>1, <2>2
  <2>4. Open(d)'
    BY <1>1, <2>1, <2>3, TreeKept
  <2> QED
    BY <1>2, <2>1, <2>3, <2>4
<1>7. CASE EndDir
  <2>0. PICK h : h = Head(dumpdir)
    OBVIOUS
  <2>1. /\ mpc = "scan" /\ out = NULL /\ out' = Job("DIR_BH", h) /\ jobs' = jobs /\ bh' = bh
        /\ kids' = kids /\ failing' = failing /\ parent' = parent /\ dents' = dents
        /\ idx > Len(kids[h])
    BY <1>7, <2>0 DEF EndDir, tree
  <2>2. h \in Dirs /\ Open(h) /\ \A m \in 1..Len(Q) : ~Writing(m, h)
    BY <2>0, <2>1, ScanFacts
  <2>3. Job("DIR_BH", h) \in Jobs /\ Job("DIR_BH", h) # NULL
    BY <2>2, JobFacts
  <2>4. /\ Len(Q') = Len(Q) + 1
        /\ \A e : \A m \in Nat :
             Writing(m, e)' <=> Writing(m, e) \/ (m = Len(Q) + 1 /\ Job("DIR_BH", h) = Job("DIR_BH", e))
    BY <2>1, <2>3, <1>t, SendSeen
  <2>5. \A i : \A m \in Nat : PlacedBy(i, m) => PlacedBy(i, m)'
    BY <2>1, <2>3, <1>t, PlacedSend
  <2>6. Open(d)' <=> Open(d)
    BY <2>1, TreeKept
  <2>7. CASE d = h
    <3>1. \A m \in Nat : Writing(m, h) => m \in 1..Len(Q)
      BY DEF Writing
    <3>2. n = Len(Q) + 1 /\ \A m \in 1..Len(Q') : Writing(m, d)' => m = n
      BY <2>2, <2>4, <2>7, <3>1, <1>n
    <3>3. Read(d) /\ Read(parent[d])
      BY <2>2, <2>7, <1>t DEF Open, DirInv
    <3>4. \A i \in Inodes : Visited(i) /\ i \notin failing => PlacedBy(i, n)'
      <4>1. \A i \in Inodes : Visited(i) /\ i \notin failing => PlacedBy(i, Len(Q) + 1)
        BY <2>1, <1>t DEF BufferInv
      <4> QED
        BY <4>1, <3>2, <2>5, <1>n
    <3>5. PlacedBy(d, n)'
      BY <3>3, <3>4, DirsInodes DEF Read
    <3>6. PlacedBy(parent[d], n)'
      <4>1. PICK p : p = parent[d]
        OBVIOUS
      <4>2. PlacedBy(p, n)'
        BY <3>3, <3>4, <4>1, DirsInodes DEF Read
      <4> QED
        BY <4>1, <4>2, <2>1
    <3>7. ASSUME failing' = {}, NEW k \in 1..Len(kids'[d])
          PROVE  PlacedBy(kids[d][k], n)'
      <4>1. k \in 1..Len(kids[d]) /\ k < idx /\ failing = {}
        <5>1. k \in 1..Len(kids[d]) /\ Len(kids[d]) \in Nat /\ idx \in Nat /\ failing = {}
          BY <2>1, <3>7, <1>t, TreeFacts DEF TypeInv
        <5> QED
          BY <5>1, <2>1, <2>7
      <4>2. PICK i \in Inodes : i = kids[d][k]
        BY <4>1, <1>k
      <4>3. Visited(i)
        BY <4>1, <4>2, <2>0, <2>1, <2>7 DEF BuildInv, HandledInv
      <4>4. PlacedBy(i, n)'
        BY <4>1, <4>3, <3>4
      <4> QED
        BY <4>2, <4>4, <2>1
    <3> QED
      BY <2>2, <2>6, <2>7, <3>2, <3>5, <3>6, <3>7
  <2>8. CASE d # h
    <3>1. Job("DIR_BH", h) # Job("DIR_BH", d)
      BY <2>2, <2>8, JobFacts
    <3>2. \A m \in Nat : Writing(m, d)' => m \in 1..Len(Q) /\ Writing(m, d)
      BY <2>4, <3>1 DEF Writing
    <3>3. n \in 1..Len(Q) /\ Writing(n, d)
      BY <3>2, <1>n
    <3>4. \A l \in 1..Len(Q') : Writing(l, d)' => l = n
      BY <1>1, <3>2, <3>3, <1>n
    <3> QED
      BY <1>1, <1>2, <1>n, <2>1, <2>5, <2>6, <3>3, <3>4
  <2> QED
    BY <2>7, <2>8
<1>8. CASE Go \/ HandleFails \/ (HandleRoot /\ Root \in failing)
        \/ FlushJobs \/ HardLink \/ Join \/ Bflush \/ RootPut \/ UNCHANGED vars
  <2>1. /\ Q' = Q /\ kids' = kids /\ failing' = failing
        /\ \A e : Open(e)' <=> Open(e)
    <3>1. CASE Go
      BY <3>1, <1>t, QGo, TreeStepsKeep DEF TreeSteps, Go
    <3>2. CASE HandleFails
      <4>1. /\ kids' = kids /\ failing' = failing /\ dents' = dents /\ Here \in Inodes
            /\ ~Visited(Here) /\ Here \in failing /\ Head(dumpdir) \in Dirs
            /\ out' = out /\ jobs' = jobs /\ parent' = [parent EXCEPT ![Here] = Head(dumpdir)]
        BY <3>2, FailsEffect
      <4>2. \A e : Open(e)' <=> Open(e)
        BY <4>1, MeetEffect
      <4> QED
        BY <4>1, <4>2 DEF Q
    <3>3. CASE ~Go /\ ~HandleFails
      BY <1>8, <3>3, QuietEffect
    <3> QED
      BY <3>1, <3>2, <3>3
  <2>2. \A e, m : Writing(m, e)' <=> Writing(m, e)
    BY <2>1 DEF Writing, Job
  <2>3. n \in 1..Len(Q) /\ Writing(n, d)
    BY <2>1, <2>2
  <2>4. bh' = bh /\ parent'[d] = parent[d]
    <3>1. ~Bflush /\ ~HandleRoot
      BY <2>1, <2>3, QEmpty DEF Bflush, HandleRoot
    <3>2. CASE HandleFails
      <4>1. Here \in failing /\ bh' = bh /\ parent' = [parent EXCEPT ![Here] = Head(dumpdir)]
        BY <3>2, FailsEffect
      <4>2. d # Here /\ d \in Inodes
        BY <1>1, <2>3, <4>1, DirsInodes DEF Read
      <4> QED
        BY <4>1, <4>2, <1>t DEF TypeInv
    <3>3. CASE ~HandleFails
      BY <1>8, <3>1, <3>3 DEF Go, FlushJobs, HardLink, Join, RootPut, vars, tree
    <3> QED
      BY <3>2, <3>3
  <2>5. \A i, m : PlacedBy(i, m)' <=> PlacedBy(i, m)
    BY <2>1, <2>4, PlacedKept
  <2>6. \A l \in 1..Len(Q') : Writing(l, d)' => l = n
    BY <1>1, <2>1, <2>2, <2>3
  <2> QED
    BY <1>1, <1>2, <2>1, <2>3, <2>4, <2>5, <2>6
<1>9. CASE Worker
  <2>1. /\ jobs # << >> /\ jobs' = Tail(jobs) /\ out' = out /\ kids' = kids
        /\ failing' = failing /\ parent' = parent
        /\ \A e : Open(e)' <=> Open(e) /\ ~Writing(1, e)
        /\ \A j \in Inodes : \A m \in Nat \ {0} : PlacedBy(j, m + 1) => PlacedBy(j, m)'
    BY <1>9, WorkerEffect
  <2>2. /\ Len(Q') = Len(Q) - 1
        /\ \A e : \A m \in Nat \ {0} : Writing(m, e)' <=> Writing(m + 1, e)
    BY <2>1, <1>t, TakeSeen
  <2>3. n + 1 \in 1..Len(Q) /\ Writing(n + 1, d)
    BY <2>2, <1>n, <1>t
  <2>4. \A l \in 1..Len(Q') : Writing(l, d)' => l = n
    <3> SUFFICES ASSUME NEW l \in 1..Len(Q'), Writing(l, d)' PROVE l = n
      OBVIOUS
    <3>1. l + 1 \in 1..Len(Q) /\ Writing(l + 1, d) /\ l \in Nat
      BY <2>2, <1>n, <1>t
    <3>2. l + 1 = n + 1
      BY <1>1, <2>3, <3>1
    <3> QED
      BY <3>1, <3>2, <1>n
  <2>5. ~Writing(1, d)
    <3>1. \A l \in 1..Len(Q) : Writing(l, d) => l = n + 1
      BY <1>1, <2>3
    <3> QED
      BY <3>1, <1>n DEF Writing
  <2>6. \A i \in Inodes : PlacedBy(i, n + 1) => PlacedBy(i, n)'
    BY <2>1, <1>n
  <2>7. Open(d)'
    BY <1>1, <2>1, <2>3, <2>5
  <2> QED
    BY <1>2, <2>1, <2>3, <2>4, <2>6, <2>7
<1> QED
  BY <1>4, <1>5, <1>6, <1>7, <1>8, <1>9 DEF Next, Main, HandleRoot
-----------------------------------------------------------------------------
(* Every step keeps BufferInv. *)
LEMMA BufferStep == BuildInv /\ [Next]_vars => BufferInv'
<1> SUFFICES ASSUME BuildInv, [Next]_vars, NEW i \in Inodes, NEW N \in Nat, N = Len(Q') + 1
             PROVE  /\ inl'[i] \in {"none", bh'[i]}
                    /\ bh'[i] # "none" => Visited(i)' /\ i \notin failing'
                    /\ bh'[i] = "skip" => Open(i)'
                    /\ Visited(i)' /\ i \notin failing' /\ mpc' \notin {"flushed", "done"} =>
                         PlacedBy(i, N)'
  <2>1. Len(Q') + 1 \in Nat
    BY QType, TypeStep DEF Q, TypeInv
  <2> QED
    BY <2>1 DEF BufferInv
<1>t. TypeInv /\ PlaceInv /\ Len(Q) \in Nat /\ Len(Q') \in Nat
  BY QType, TypeStep DEF BuildInv, Q, TypeInv
<1>1. /\ inl[i] \in {"none", bh[i]}
      /\ bh[i] # "none" => Visited(i) /\ i \notin failing
      /\ bh[i] = "skip" => Open(i)
      /\ Visited(i) /\ i \notin failing /\ mpc \notin {"flushed", "done"} =>
           PlacedBy(i, Len(Q) + 1)
  BY DEF BuildInv, BufferInv
<1>2. ASSUME NEW x \in Jobs, x # NULL, out = NULL, out' = x, jobs' = jobs, bh' = bh
      PROVE  /\ PlacedBy(i, Len(Q) + 1) => PlacedBy(i, N)'
             /\ x = PlaceJob(i) => PlacedBy(i, N)'
  <2>1. N = Len(Q) + 2
    BY <1>2, <1>t, SendSeen
  <2>2. PlacedBy(i, Len(Q) + 1) => PlacedBy(i, N)
    BY <2>1, <1>t, PlacedMono
  <2>3. PlacedBy(i, N) => PlacedBy(i, N)'
    BY <1>2, <1>t, PlacedSend
  <2>4. x = PlaceJob(i) /\ N > Len(Q) + 1 => PlacedBy(i, N)'
    BY <1>2, <1>t, PlacedSend
  <2> QED
    BY <2>1, <2>2, <2>3, <2>4, <1>t
<1>3. CASE HandleRoot /\ Root \notin failing
  <2>1. /\ out = NULL /\ PlaceJob(Root) \in Jobs /\ PlaceJob(Root) # NULL
        /\ out' = PlaceJob(Root) /\ jobs' = jobs /\ bh' = bh /\ inl' = inl
        /\ bh[i] = "none" /\ inl[i] = "none"
        /\ (i # Root => parent'[i] = NULL)
    BY <1>3, RootEffect
  <2>2. PlaceJob(Root) = PlaceJob(i) => PlacedBy(i, N)'
    BY <1>2, <2>1
  <2>3. Visited(i)' => i = Root
    BY <2>1 DEF Visited
  <2> QED
    BY <2>1, <2>2, <2>3
<1>4. CASE HandleNew
  <2>1. /\ out = NULL /\ PlaceJob(Here) \in Jobs /\ PlaceJob(Here) # NULL /\ mpc' = mpc
        /\ out' = PlaceJob(Here) /\ jobs' = jobs /\ bh' = bh /\ inl' = inl
        /\ failing' = failing /\ Here \notin failing
    BY <1>4, NewEffect
  <2>2. /\ PlacedBy(i, Len(Q) + 1) => PlacedBy(i, N)'
        /\ PlaceJob(Here) = PlaceJob(i) => PlacedBy(i, N)'
    BY <1>2, <2>1
  <2>3. PICK h : h = Here
    OBVIOUS
  <2>4. /\ Visited(h)'
        /\ i # h => parent'[i] = IF i \in freed /\ i \notin freed' THEN NULL ELSE parent[i]
        /\ i \in freed /\ i \notin freed' => bh[i] = "none"
        /\ Open(i) => Open(i)'
    BY <1>4, <2>3, NewTree
  <2>5. CASE i = h
    BY <1>1, <2>1, <2>2, <2>3, <2>4, <2>5
  <2>6. CASE i # h
    <3>1. /\ Visited(i)' => Visited(i)
          /\ bh[i] # "none" => Visited(i)'
      BY <1>1, <2>4, <2>6 DEF Visited
    <3> QED
      BY <1>1, <2>1, <2>2, <2>4, <3>1
  <2> QED
    BY <2>5, <2>6
<1>5. CASE EndDir \/ Stop
  <2>1. /\ out = NULL /\ jobs' = jobs /\ mpc \in {"scan", "stop"}
    BY <1>5 DEF EndDir, Stop
  <2>2. PICK x \in Jobs : x # NULL /\ out' = x
    <3>1. CASE EndDir
      BY <3>1, ScanFacts, JobFacts DEF EndDir
    <3>2. CASE Stop
      BY <3>2, JobFacts DEF Stop
    <3> QED
      BY <1>5, <3>1, <3>2
  <2>3. /\ failing' = failing /\ bh' = bh /\ inl' = inl /\ (Visited(i)' <=> Visited(i))
        /\ (Open(i)' <=> Open(i))
    BY <1>5, TreeStepsKeep DEF TreeSteps
  <2>4. PlacedBy(i, Len(Q) + 1) => PlacedBy(i, N)'
    BY <1>2, <2>1, <2>2, <2>3
  <2> QED
    BY <1>1, <2>1, <2>3, <2>4
<1>6. CASE Go \/ HandleFails \/ (HandleRoot /\ Root \in failing)
        \/ FlushJobs \/ HardLink \/ Join \/ RootPut \/ UNCHANGED vars
  <2>1. /\ Q' = Q /\ failing' = failing /\ bh' = bh /\ inl' = inl
        /\ \A e : Open(e)' <=> Open(e)
    <3>1. CASE Go
      BY <3>1, <1>t, QGo, TreeStepsKeep DEF TreeSteps, Go
    <3>2. CASE HandleFails
      <4>1. /\ kids' = kids /\ failing' = failing /\ dents' = dents /\ Here \in Inodes
            /\ ~Visited(Here) /\ Here \in failing /\ Head(dumpdir) \in Dirs
            /\ bh' = bh /\ inl' = inl
            /\ out' = out /\ jobs' = jobs /\ parent' = [parent EXCEPT ![Here] = Head(dumpdir)]
        BY <3>2, FailsEffect
      <4>2. \A e : Open(e)' <=> Open(e)
        BY <4>1, MeetEffect
      <4> QED
        BY <4>1, <4>2 DEF Q
    <3>3. CASE ~Go /\ ~HandleFails
      <4>1. bh' = bh /\ inl' = inl
        BY <1>6, <3>3 DEF HandleRoot, FlushJobs, HardLink, Join, RootPut, vars, tree
      <4> QED
        BY <4>1, <1>6, <3>3, QuietEffect
    <3> QED
      BY <3>1, <3>2, <3>3
  <2>2. /\ Visited(i) => Visited(i)'
        /\ Visited(i)' /\ i \notin failing => Visited(i)
    <3>1. CASE HandleFails
      <4>1. /\ Here \in failing /\ parent' = [parent EXCEPT ![Here] = Head(dumpdir)]
            /\ Head(dumpdir) \in Dirs
        BY <3>1, FailsEffect
      <4>2. DOMAIN parent = Inodes
        BY <1>t DEF TypeInv
      <4> QED
        BY <4>1, <4>2, DirsInodes DEF Visited
    <3>2. CASE HandleRoot /\ Root \in failing
      <4>1. parent' = [parent EXCEPT ![Root] = Root] /\ DOMAIN parent = Inodes
        BY <3>2, <1>t DEF TypeInv, HandleRoot
      <4> QED
        BY <4>1, <3>2, DirsInodes DEF Visited
    <3>3. CASE ~HandleFails /\ ~(HandleRoot /\ Root \in failing)
      <4>1. parent' = parent
        BY <1>6, <3>3 DEF Go, FlushJobs, HardLink, Join, RootPut, vars, tree
      <4> QED
        BY <4>1 DEF Visited
    <3> QED
      BY <3>1, <3>2, <3>3
  <2>3. mpc' \notin {"flushed", "done"} => mpc \notin {"flushed", "done"}
    BY <1>6 DEF Go, HandleFails, HandleRoot, FlushJobs, HardLink, Join, RootPut, vars,
                Scanning
  <2>4. PlacedBy(i, Len(Q) + 1) => PlacedBy(i, N)'
    BY <2>1, PlacedKept
  <2> QED
    BY <1>1, <2>1, <2>2, <2>3, <2>4
<1>7. CASE Bflush
  <2>1. /\ mpc' = "flushed" /\ failing' = failing /\ parent' = parent /\ kids' = kids
        /\ dents' = dents
        /\ bh'[i] = IF bh[i] = "write" THEN "none" ELSE bh[i]
        /\ inl'[i] = IF inl[i] = "write" THEN "none" ELSE inl[i]
    BY <1>7 DEF Bflush
  <2>2. (Visited(i)' <=> Visited(i)) /\ (Open(i)' <=> Open(i))
    BY <2>1, TreeKept
  <2> QED
    BY <1>1, <2>1, <2>2
<1>8. CASE Worker
  <2>1. /\ jobs # << >> /\ jobs' = Tail(jobs) /\ out' = out /\ failing' = failing
        /\ mpc' = mpc /\ (Visited(i)' <=> Visited(i))
        /\ (Open(i)' <=> Open(i) /\ ~Writing(1, i))
        /\ \A m \in Nat \ {0} : PlacedBy(i, m + 1) => PlacedBy(i, m)'
    BY <1>8, WorkerEffect
  <2>2. Len(Q') = Len(Q) - 1
    BY <2>1, <1>t, TakeSeen
  <2>3. N \in Nat \ {0} /\ N + 1 = Len(Q) + 1
    BY <2>2, <1>t
  <2>4. PlacedBy(i, Len(Q) + 1) => PlacedBy(i, N)'
    BY <2>1, <2>3
  <2>5. /\ inl'[i] \in {"none", bh'[i]}
        /\ bh'[i] # "none" => Visited(i) /\ i \notin failing
        /\ bh'[i] = "skip" => Open(i)'
    <3>1. CASE JobNdir \/ JobDir
      <4>1. PICK j \in Inodes, o \in {"skip", "write"} : \E q \in {"none", o} :
              /\ Placing(1, j) /\ 1 \in 1..Len(Q)
              /\ (o = "skip" <=> j \in Dirs)
              /\ bh' = [bh EXCEPT ![j] = o] /\ inl' = [inl EXCEPT ![j] = q]
        BY <3>1, PlaceEffect
      <4>2. DOMAIN bh = Inodes /\ DOMAIN inl = Inodes
        BY <1>t DEF TypeInv
      <4>3. /\ Visited(j) /\ j \notin failing /\ (j \in Dirs => Open(j))
        BY <4>1, <1>t DEF PlaceInv, Open, Read
      <4>4. Open(i)' <=> Open(i)
        <5>1. \A e \in Dirs : ~Writing(1, e)
          BY <4>1, JobFacts DEF Placing, Writing
        <5> QED
          BY <2>1, <5>1 DEF Open, Read
      <4>5. CASE i = j
        BY <4>1, <4>2, <4>3, <4>4, <4>5
      <4>6. CASE i # j
        BY <4>1, <4>2, <4>4, <4>6, <1>1
      <4> QED
        BY <4>5, <4>6
    <3>2. CASE JobDirBh
      <4>1. PICK d \in Dirs :
              /\ Writing(1, d) /\ Read(d) /\ bh[d] # "none"
              /\ bh' = [bh EXCEPT ![d] = "write"]
              /\ inl' = [inl EXCEPT ![d] = IF @ = "skip" THEN "write" ELSE @]
              /\ \A e : Open(e)' <=> Open(e) /\ e # d
        BY <3>2, WriteEffect
      <4>2. bh \in [Inodes -> {"none", "skip", "write"}] /\ DOMAIN inl = Inodes
        BY <1>t DEF TypeInv
      <4>3. CASE i = d
        BY <4>1, <4>2, <4>3, <1>1 DEF Read
      <4>4. CASE i # d
        BY <4>1, <4>2, <4>4, <1>1
      <4> QED
        BY <4>3, <4>4
    <3>3. CASE JobMax
      BY <3>3, <1>1, TreeStepsKeep DEF TreeSteps
    <3> QED
      BY <1>8, <3>1, <3>2, <3>3 DEF Worker
  <2> QED
    BY <1>1, <2>1, <2>4, <2>5
<1> QED
  BY <1>3, <1>4, <1>5, <1>6, <1>7, <1>8 DEF Next, Main, HandleRoot
-----------------------------------------------------------------------------
(* What the references dropped can free. *)
LEMMA WriteFrees ==
  ASSUME BuildInv, JobDirBh, NEW i \in Inodes, i \in freed', i \notin freed
  PROVE  \E k \in Entries(Subject) : Target(Subject, k) = i
<1> SUFFICES ASSUME \A k \in Entries(Subject) : Target(Subject, k) # i PROVE FALSE
  OBVIOUS
<1>1. PICK d \in Dirs : d = Subject
  BY WriteEffect
<1>2. 0 \in Entries(d) /\ Target(d, 0) = d
  BY TreeFacts, TargetFacts DEF BuildInv, TypeInv
<1>3. i # Subject
  BY <1>1, <1>2
<1>4. {k \in Entries(Subject) : Target(Subject, k) = i} = {}
  OBVIOUS
<1>5. Occurs(i, Subject, Entries(Subject)) = 0
  BY <1>4, FS_EmptySet DEF Occurs
<1> DEFINE by == [j \in Inodes |->
                    Occurs(j, Subject, Entries(Subject))
                      + (IF j = Subject THEN DumpRef ELSE 0)
                      - (IF j = Subject /\ inl[j] = "skip" THEN 1 ELSE 0)]
<1>6. by[i] = 0
  BY <1>3, <1>5
<1>7. freed' = freed \cup {j \in Inodes : by[j] > 0 /\ i_count[j] - by[j] <= 0}
  BY DEF JobDirBh, Iput
<1>8. by[i] > 0
  <2> HIDE DEF by
  <2> QED
    BY <1>7
<1> HIDE DEF by
<1> QED
  BY <1>6, <1>8

(* erofs_bflush frees only what it flushes. *)
LEMMA FlushFrees ==
  ASSUME BuildInv, Bflush, NEW i \in Inodes, i \in freed', i \notin freed
  PROVE  bh[i] = "write"
<1> SUFFICES ASSUME bh[i] # "write" PROVE FALSE
  OBVIOUS
<1>1. inl[i] # "write"
  BY DEF BuildInv, BufferInv
<1> DEFINE by == [j \in Inodes |-> (IF bh[j] = "write" THEN 1 ELSE 0)
                                     + (IF inl[j] = "write" THEN 1 ELSE 0)]
<1>2. by[i] = 0
  BY <1>1
<1>3. freed' = freed \cup {j \in Inodes : by[j] > 0 /\ i_count[j] - by[j] <= 0}
  BY DEF Bflush, Iput
<1> HIDE DEF by
<1>4. by[i] > 0
  BY <1>3
<1> QED
  BY <1>2, <1>4

(* Every step keeps DirInv. *)
LEMMA DirStep == BuildInv /\ [Next]_vars => DirInv'
<1> SUFFICES ASSUME BuildInv, [Next]_vars, NEW d \in Dirs
             PROVE  /\ dents'[d][0] # "open" =>
                         Read(d)' /\ (mpc' \notin {"flushed", "done"} => bh'[d] = "write")
                    /\ Read(d)' => Read(parent[d])'
                    /\ d # Root /\ (d \in freed' \/ Visited(d)') =>
                         \E u \in Dirs : \E k \in 1..Len(kids'[u]) : kids'[u][k] = d /\ Read(u)'
  BY DEF DirInv
<1>t. TypeInv /\ kids \in Trees /\ d \in Inodes /\ DOMAIN parent = Inodes /\ DOMAIN bh = Inodes
  BY DirsInodes DEF BuildInv, TypeInv
<1>1. /\ dents[d][0] # "open" =>
           Read(d) /\ (mpc \notin {"flushed", "done"} => bh[d] = "write")
      /\ Read(d) => Read(parent[d])
      /\ d # Root /\ (d \in freed \/ Visited(d)) =>
           \E u \in Dirs : \E k \in 1..Len(kids[u]) : kids[u][k] = d /\ Read(u)
  BY DEF BuildInv, DirInv
<1>2. \A e : Read(e) => Read(e)'
  BY ReadGrows
(* A directory that keeps its parent, and is reached by a name it had.     *)
<1>3. ASSUME kids' = kids, d # Root /\ (d \in freed' \/ Visited(d)') => d \in freed \/ Visited(d)
      PROVE  d # Root /\ (d \in freed' \/ Visited(d)') =>
               \E u \in Dirs : \E k \in 1..Len(kids'[u]) : kids'[u][k] = d /\ Read(u)'
  BY <1>1, <1>2, <1>3
<1>4. ASSUME parent'[d] = parent[d], Read(d)' => Read(d)
      PROVE  Read(d)' => Read(parent[d])'
  <2>1. PICK p : p = parent[d]
    OBVIOUS
  <2>2. Read(d)' => Read(p)'
    BY <1>1, <1>2, <1>4, <2>1
  <2> QED
    BY <1>4, <2>1, <2>2
<1>5. CASE HandleRoot
  <2>1. /\ mpc = "root" /\ dents' = dents /\ freed = {} /\ \A i \in Inodes : parent[i] = NULL
    BY <1>5 DEF HandleRoot, BuildInv, MainInv
  <2>2. ~Read(d)
    BY <2>1, <1>t DEF Read, Visited
  <2>3. CASE Root \in failing
    <3>1. /\ parent' = [parent EXCEPT ![Root] = Root] /\ freed' = freed
          /\ failing' = failing
      BY <1>5, <2>3 DEF HandleRoot
    <3>2. d # Root => ~Visited(d)'
      BY <3>1, <2>1, <1>t DEF Visited
    <3>3. ~Read(d)'
      BY <3>1, <3>2, <2>3 DEF Read
    <3> QED
      BY <1>1, <2>1, <2>2, <3>1, <3>2, <3>3
  <2>4. CASE Root \notin failing
    <3>1. /\ parent'[Root] = Root /\ freed' = {} /\ (d # Root => parent'[d] = NULL)
          /\ \A e : Read(e)' <=> e = Root
      BY <1>5, <2>4, <1>t, RootEffect
    <3>2. d # Root => ~Visited(d)'
      BY <3>1 DEF Visited
    <3>3. Read(d)' => Read(parent[d])'
      <4>1. PICK p : p = parent'[d]
        OBVIOUS
      <4>2. Read(d)' => Read(p)'
        BY <3>1, <4>1
      <4> QED
        BY <4>1, <4>2
    <3> QED
      BY <1>1, <2>1, <2>2, <3>1, <3>2, <3>3
  <2> QED
    BY <2>3, <2>4
<1>6. CASE HandleNew \/ HandleFails
  <2>1. PICK h : h = Here
    OBVIOUS
  <2>2. /\ Scanning /\ mpc = "scan" /\ mpc' = mpc /\ kids' = kids /\ bh' = bh /\ dents' = dents
        /\ parent'[h] = Head(dumpdir) /\ freed' \subseteq freed
        /\ \A j \in Dirs : j # h => parent'[j] = parent[j]
        /\ \A e : Read(e)' => Read(e) \/ e = h
    <3>1. CASE HandleNew
      BY <3>1, <2>1, NewTree, NewEffect
    <3>2. CASE HandleFails
      <4>1. /\ Scanning /\ mpc = "scan" /\ mpc' = mpc /\ kids' = kids /\ bh' = bh
            /\ dents' = dents /\ freed' = freed /\ h \in Inodes /\ ~Visited(h) /\ h \in failing
            /\ failing' = failing
            /\ Head(dumpdir) \in Dirs /\ parent' = [parent EXCEPT ![h] = Head(dumpdir)]
        BY <3>2, <2>1, FailsEffect
      <4>2. /\ parent'[h] = Head(dumpdir) /\ \A j \in Inodes : j # h => parent'[j] = parent[j]
            /\ \A e : Read(e)' <=> Read(e)
        BY <4>1, MeetEffect
      <4> QED
        BY <4>1, <4>2, DirsInodes
    <3> QED
      BY <1>6, <3>1, <3>2
  <2>3. /\ Head(dumpdir) \in Dirs /\ Read(Head(dumpdir))
        /\ idx \in 1..Len(kids[Head(dumpdir)]) /\ kids[Head(dumpdir)][idx] = h
    BY <2>1, <2>2, ScanFacts DEF Open, Here
  <2>4. CASE d = h
    <3>1. PICK p \in Dirs : p = Head(dumpdir)
      BY <2>3
    <3>2. Read(p)'
      BY <1>2, <2>3, <3>1
    <3>3. Read(parent[d])'
      BY <2>2, <2>4, <3>1, <3>2
    <3>4. \E u \in Dirs : \E k \in 1..Len(kids'[u]) : kids'[u][k] = d /\ Read(u)'
      BY <2>2, <2>3, <2>4, <3>1, <3>2
    <3> QED
      BY <1>1, <1>2, <2>2, <3>3, <3>4
  <2>5. CASE d # h
    <3>1. parent'[d] = parent[d] /\ (Visited(d)' <=> Visited(d)) /\ (Read(d)' => Read(d))
      BY <2>2, <2>5 DEF Visited
    <3> QED
      BY <1>1, <1>2, <1>3, <1>4, <2>2, <3>1
  <2> QED
    BY <2>4, <2>5
<1>7. CASE TreeSteps
  <2>1. /\ kids' = kids /\ freed' = freed /\ parent' = parent /\ bh' = bh /\ dents' = dents
        /\ (Visited(d)' <=> Visited(d)) /\ (Read(d)' <=> Read(d))
    BY <1>7, TreeStepsKeep
  <2>2. mpc' \notin {"flushed", "done"} => mpc \notin {"flushed", "done"}
    BY <1>7 DEF TreeSteps, Go, FlushJobs, HardLink, EndDir, Stop, Join, JobMax, vars, Scanning
  <2> QED
    BY <1>1, <1>3, <1>4, <2>1, <2>2
<1>8. CASE Bflush \/ RootPut
  <2>1. /\ kids' = kids /\ failing' = failing /\ parent' = parent /\ dents' = dents
        /\ mpc' \in {"flushed", "done"}
    BY <1>8 DEF Bflush, RootPut
  <2>2. (Visited(d)' <=> Visited(d)) /\ (Read(d)' <=> Read(d))
    BY <2>1, TreeKept
  <2>3. d # Root /\ d \in freed' => d \in freed \/ Visited(d)
    <3>1. CASE Bflush
      BY <3>1, <1>t, FlushFrees DEF BuildInv, BufferInv
    <3>2. CASE RootPut
      <4>1. freed' \subseteq freed \cup {Root}
        BY <3>2 DEF RootPut, Iput
      <4> QED
        BY <4>1
    <3> QED
      BY <1>8, <3>1, <3>2
  <2> QED
    BY <1>1, <1>3, <1>4, <2>1, <2>2, <2>3
<1>9. CASE JobNdir \/ JobDir
  <2>1. /\ kids' = kids /\ freed' = freed /\ parent' = parent /\ dents' = dents /\ mpc' = mpc
        /\ failing' = failing
    BY <1>9, PlaceEffect
  <2>2. (Visited(d)' <=> Visited(d)) /\ (Read(d)' <=> Read(d))
    BY <2>1, TreeKept
  <2>3. PICK i \in Inodes : \E o \in {"skip", "write"} :
          Placing(1, i) /\ 1 \in 1..Len(Q) /\ bh' = [bh EXCEPT ![i] = o]
    BY <1>9, PlaceEffect
  <2>4. i \in Dirs => dents[i][0] = "open"
    BY <2>3 DEF BuildInv, PlaceInv
  <2>5. dents[d][0] # "open" => bh'[d] = bh[d]
    BY <2>3, <2>4, <1>t
  <2> QED
    BY <1>1, <1>3, <1>4, <2>1, <2>2, <2>5
<1>10. CASE JobDirBh
  <2>1. /\ kids' = kids /\ failing' = failing /\ parent' = parent /\ mpc' = mpc
        /\ (Visited(d)' <=> Visited(d)) /\ (Read(d)' <=> Read(d))
    BY <1>10, WriteEffect
  <2>2. PICK e \in Dirs :
          /\ e = Subject /\ Read(e) /\ bh' = [bh EXCEPT ![e] = "write"]
          /\ \A c \in Dirs : c # e => dents'[c] = dents[c]
    BY <1>10, WriteEffect
  <2>3. dents'[d][0] # "open" =>
          Read(d)' /\ (mpc' \notin {"flushed", "done"} => bh'[d] = "write")
    BY <1>1, <2>1, <2>2, <1>t
  <2>4. Read(d)' => Read(parent[d])'
    BY <1>4, <2>1
  <2>5. ASSUME d # Root, d \in freed', d \notin freed, ~Visited(d)
        PROVE  \E k \in 1..Len(kids[e]) : kids[e][k] = d
    <3>1. PICK k \in Entries(e) : Target(e, k) = d
      BY <1>10, <2>2, <2>5, <1>t, WriteFrees
    <3>2. Target(e, 0) = e /\ Target(e, -1) = parent[e]
      BY <1>t, TargetFacts
    <3>3. Visited(e) /\ Visited(parent[e])
      BY <2>2 DEF Read, BuildInv, DirInv
    <3>4. k \in 1..Len(kids[e])
      BY <2>5, <3>1, <3>2, <3>3, <1>t, TreeFacts
    <3> QED
      BY <3>1, <3>4, <1>t, TargetFacts
  <2>6. d # Root /\ (d \in freed' \/ Visited(d)') =>
          \E u \in Dirs : \E k \in 1..Len(kids'[u]) : kids'[u][k] = d /\ Read(u)'
    <3>1. CASE d \in freed \/ Visited(d)
      BY <1>3, <2>1, <3>1
    <3>2. CASE ~(d \in freed \/ Visited(d))
      BY <1>2, <2>1, <2>2, <2>5, <3>2
    <3> QED
      BY <3>1, <3>2
  <2> QED
    BY <2>3, <2>4, <2>6
<1> QED
  BY <1>5, <1>6, <1>7, <1>8, <1>9, <1>10 DEF Next, Main, Worker, TreeSteps
-----------------------------------------------------------------------------
(* An element between s and t. *)
LEMMA Between ==
  ASSUME NEW S, NEW s \in Seq(S), NEW t \in Seq(S), NEW x \in S
  PROVE  LET u == Append(s, x) \o t
             v == s \o t
             L == Len(s)
         IN /\ L \in Nat /\ Len(v) \in Nat /\ Len(u) = Len(v) + 1 /\ L <= Len(v)
            /\ u[L + 1] = x
            /\ \A j \in 1..L : u[j] = v[j]
            /\ \A j \in (L + 1)..Len(v) : u[j + 1] = v[j]
<1> DEFINE u == Append(s, x) \o t
           v == s \o t
           L == Len(s)
<1>1. L \in Nat /\ Len(t) \in Nat /\ Len(v) = L + Len(t) /\ Len(Append(s, x)) = L + 1
  OBVIOUS
<1>2. Append(s, x) \in Seq(S) /\ Len(u) = (L + 1) + Len(t)
  BY <1>1
<1>3. u[L + 1] = x
  BY <1>1, <1>2
<1>4. \A j \in 1..L : u[j] = v[j]
  BY <1>1, <1>2
<1>5. \A j \in (L + 1)..Len(v) : u[j + 1] = v[j]
  <2> SUFFICES ASSUME NEW j \in (L + 1)..Len(v) PROVE u[j + 1] = v[j]
    OBVIOUS
  <2>1. v[j] = t[j - L]
    BY <1>1
  <2>2. u[j + 1] = t[(j + 1) - (L + 1)]
    BY <1>1, <1>2
  <2>3. (j + 1) - (L + 1) = j - L
    BY <1>1
  <2> QED
    BY <2>1, <2>2, <2>3
<1> QED
  BY <1>1, <1>2, <1>3, <1>4, <1>5

(* The same for an element taken out of a concatenation. *)
LEMMA HeadBetween ==
  ASSUME NEW S, NEW s \in Seq(S), NEW t \in Seq(S), t # << >>
  PROVE  LET u == s \o t
             v == s \o Tail(t)
             L == Len(s)
         IN /\ L \in Nat /\ Len(v) \in Nat /\ Len(u) = Len(v) + 1 /\ L <= Len(v)
            /\ u[L + 1] = Head(t)
            /\ \A j \in 1..L : u[j] = v[j]
            /\ \A j \in (L + 1)..Len(v) : u[j + 1] = v[j]
<1> DEFINE u == s \o t
           v == s \o Tail(t)
           L == Len(s)
<1>1. L \in Nat /\ Len(t) \in Nat /\ Len(t) > 0 /\ Tail(t) \in Seq(S)
  OBVIOUS
<1>2. /\ Len(Tail(t)) = Len(t) - 1 /\ Len(v) = L + (Len(t) - 1) /\ Len(u) = L + Len(t)
      /\ \A j \in 1..(Len(t) - 1) : Tail(t)[j] = t[j + 1]
  BY <1>1
<1>3. u[L + 1] = Head(t)
  BY <1>1
<1>4. \A j \in 1..L : u[j] = v[j]
  BY <1>1, <1>2
<1>5. \A j \in (L + 1)..Len(v) : u[j + 1] = v[j]
  <2> SUFFICES ASSUME NEW j \in (L + 1)..Len(v) PROVE u[j + 1] = v[j]
    OBVIOUS
  <2>1. v[j] = Tail(t)[j - L]
    BY <1>1, <1>2
  <2>2. u[j + 1] = t[(j + 1) - L]
    BY <1>1, <1>2
  <2>3. (j + 1) - L = (j - L) + 1 /\ j - L \in 1..(Len(t) - 1)
    BY <1>1, <1>2
  <2>4. Tail(t)[j - L] = t[(j - L) + 1]
    BY <1>2, <2>3
  <2> QED
    BY <2>1, <2>2, <2>3, <2>4
<1> QED
  BY <1>1, <1>2, <1>3, <1>4, <1>5

(* The chain holds directories. *)
LEMMA ChainType ==
  ASSUME TypeInv
  PROVE  Chain \in Seq(Dirs) /\ Len(Chain) \in Nat /\ \A j \in 1..Len(Chain) : Chain[j] \in Dirs
<1>1. Chain \in Seq(Dirs)
  BY DEF TypeInv, Chain
<1> QED
  BY <1>1

(* A directory whose DIR_BH job is in the queue. *)
Sent(d) == \E n \in 1..Len(Q) : Writing(n, d)

(* Only a DIR_BH job sends a directory to be written. *)
LEMMA SentSend ==
  ASSUME TypeInv, out = NULL, NEW x \in Jobs, x # NULL, out' = x, jobs' = jobs
  PROVE  \A e : Sent(e)' <=> Sent(e) \/ x = Job("DIR_BH", e)
<1>0. Len(Q) \in Nat
  BY QType
<1>1. /\ Len(Q') = Len(Q) + 1
      /\ \A d : \A n \in Nat :
           Writing(n, d)' <=> Writing(n, d) \/ (n = Len(Q) + 1 /\ x = Job("DIR_BH", d))
  BY SendSeen
<1>2. \A n \in Nat : n \in 1..Len(Q') <=> n \in 1..Len(Q) \/ n = Len(Q) + 1
  BY <1>0, <1>1
<1>3. Len(Q) + 1 \in Nat
  BY <1>0
<1> QED
  BY <1>0, <1>1, <1>2, <1>3 DEF Sent, Writing

(* The worker takes at most one of them. *)
LEMMA SentTake ==
  ASSUME BuildInv, Worker
  PROVE  \A e \in Dirs : Sent(e)' <=> Sent(e) /\ ~Writing(1, e)
<1>0. Len(Q) \in Nat /\ TypeInv
  BY QType DEF BuildInv
<1>1. /\ Len(Q') = Len(Q) - 1 /\ Len(Q) > 0
      /\ \A d : \A n \in Nat \ {0} : Writing(n, d)' <=> Writing(n + 1, d)
  BY <1>0, WorkerEffect, TakeSeen
<1> SUFFICES ASSUME NEW e \in Dirs PROVE Sent(e)' <=> Sent(e) /\ ~Writing(1, e)
  OBVIOUS
<1>2. ASSUME Sent(e)' PROVE Sent(e) /\ ~Writing(1, e)
  <2>1. PICK n \in 1..Len(Q') : Writing(n, e)'
    BY <1>2 DEF Sent
  <2>2. n \in Nat \ {0} /\ n + 1 \in 1..Len(Q) /\ n + 1 # 1
    BY <1>0, <1>1
  <2>3. Writing(n + 1, e)
    BY <1>1, <2>1, <2>2
  <2>4. ASSUME Writing(1, e) PROVE FALSE
    BY <1>0, <2>2, <2>3, <2>4 DEF BuildInv, WriteInv, Writing
  <2> QED
    BY <2>2, <2>3, <2>4 DEF Sent
<1>3. ASSUME Sent(e), ~Writing(1, e) PROVE Sent(e)'
  <2>1. PICK n \in 1..Len(Q) : Writing(n, e)
    BY <1>3 DEF Sent
  <2>2. n # 1
    BY <1>3, <2>1
  <2>3. n - 1 \in Nat \ {0} /\ n - 1 \in 1..Len(Q') /\ (n - 1) + 1 = n
    BY <1>0, <1>1, <2>2
  <2>4. Writing(n - 1, e)' <=> Writing((n - 1) + 1, e)
    BY <1>1, <2>3
  <2>5. Writing(n - 1, e)'
    BY <2>1, <2>3, <2>4
  <2>6. ASSUME NEW m, m = n - 1 PROVE Writing(m, e)' /\ m \in 1..Len(Q')
    <3>1. m \in Nat \ {0} /\ m \in 1..Len(Q') /\ m + 1 = n
      BY <2>3, <2>6
    <3> QED
      BY <1>1, <2>1, <3>1
  <2> QED
    BY <2>6 DEF Sent
<1> QED
  BY <1>2, <1>3

(* A step that sends no job of a directory leaves what is fresh. *)
LEMMA FreshKept ==
  ASSUME BuildInv, \/ FlushJobs \/ HandleFails \/ HardLink \/ EndDir \/ Stop \/ Join \/ Bflush
                   \/ RootPut \/ Worker \/ UNCHANGED vars
  PROVE  \A e \in Dirs : Fresh(e)' <=> Fresh(e)
<1>1. \A e \in Dirs : Job("DIR", e) # NULL
  BY JobFacts, DirsInodes
<1>2. CASE mpc' = mpc /\ out' = out
  BY <1>2 DEF Fresh
<1>3. CASE ~(mpc' = mpc /\ out' = out)
  <2>1. ~Worker
    BY <1>3, WorkerEffect
  <2>2. (mpc # "scan" \/ out = NULL) /\ (mpc' # "scan" \/ out' = NULL)
    BY <1>3, <2>1 DEF FlushJobs, HandleFails, HardLink, EndDir, Stop, Join, Bflush, RootPut, vars
  <2> QED
    BY <1>1, <2>2 DEF Fresh
<1> QED
  BY <1>2, <1>3

(* Every step keeps ChainInv: the chain neither loses a directory nor doubles one. *)
LEMMA ChainStep == BuildInv /\ [Next]_vars => ChainInv'
<1> SUFFICES ASSUME BuildInv, [Next]_vars, ~err', mpc' # "root"
             PROVE  /\ \A j, k \in 1..Len(Chain') : Chain'[j] = Chain'[k] => j = k
                    /\ \A c : \A j \in 1..Len(Chain') :
                         c = Chain'[j] => Open(c)' /\ ~Fresh(c)' /\ ~Sent(c)'
                    /\ \A d \in Dirs : Open(d)' =>
                         \/ \E j \in 1..Len(Chain') : Chain'[j] = d
                         \/ Sent(d)' \/ Fresh(d)'
  BY DEF ChainInv, Sent
<1>t. /\ TypeInv /\ Len(Q) \in Nat /\ Len(Chain) \in Nat /\ MainInv
      /\ \A j \in 1..Len(Chain) : Chain[j] \in Dirs
  BY QType, ChainType DEF BuildInv
<1>0. \A e \in Dirs : Fresh(e) => mpc = "scan" /\ out # NULL /\ out.type = "DIR" /\ out.inode = e
  <2>1. \A e : Job("DIR", e).type = "DIR" /\ Job("DIR", e).inode = e
    BY DEF Job
  <2>2. \A e \in Dirs : Job("DIR", e) # NULL
    BY JobFacts, DirsInodes
  <2> QED
    BY <2>1, <2>2 DEF Fresh
<1>1. ~err /\ (mpc # "root" \/ HandleRoot)
  <2>1. err' = err \/ HandleRoot
    BY DEF Next, Main, Worker, vars, Go, FlushJobs, HandleNew, HandleFails, HardLink,
           EndDir, Stop, Join, Bflush, RootPut, JobNdir, JobDir, JobDirBh, JobMax
  <2>2. mpc = "root" => HandleRoot
    <3> SUFFICES ASSUME mpc = "root", ~HandleRoot PROVE FALSE
      OBVIOUS
    <3>1. jobs = << >> /\ out = NULL
      BY QEmpty
    <3> QED
      BY <3>1 DEF Next, Main, Worker, vars, Go, FlushJobs, HandleNew, HandleFails, HardLink,
           EndDir, Stop, Join, Bflush, RootPut, JobNdir, JobDir, JobDirBh, JobMax, Scanning,
           Handling
  <2>3. HandleRoot => ~err
    BY DEF HandleRoot, BuildInv, MainInv
  <2> QED
    BY <2>1, <2>2, <2>3
<1>2. ASSUME mpc # "root"
      PROVE  /\ \A j, k \in 1..Len(Chain) : Chain[j] = Chain[k] => j = k
             /\ \A j \in 1..Len(Chain) : Open(Chain[j]) /\ ~Fresh(Chain[j]) /\ ~Sent(Chain[j])
             /\ \A d \in Dirs : Open(d) =>
                  \/ \E j \in 1..Len(Chain) : Chain[j] = d
                  \/ Sent(d) \/ Fresh(d)
  BY <1>1, <1>2 DEF BuildInv, ChainInv, Sent
<1>o. \A e : Open(e) => e \in Dirs
  BY DEF Open, Read
(* The chain stays, and only directories that are written leave. *)
<1>3. ASSUME mpc # "root", Chain' = Chain,
             \A e \in Dirs : Open(e)' => Open(e),
             \A e \in Dirs : Open(e) /\ ~Sent(e) => Open(e)',
             \A e \in Dirs : Open(e)' => (Sent(e)' <=> Sent(e)),
             \A e \in Dirs : Fresh(e)' <=> Fresh(e)
      PROVE  /\ \A j, k \in 1..Len(Chain') : Chain'[j] = Chain'[k] => j = k
             /\ \A c : \A j \in 1..Len(Chain') :
                  c = Chain'[j] => Open(c)' /\ ~Fresh(c)' /\ ~Sent(c)'
             /\ \A d \in Dirs : Open(d)' =>
                  \/ \E j \in 1..Len(Chain') : Chain'[j] = d
                  \/ Sent(d)' \/ Fresh(d)'
  <2>1. \A c : \A j \in 1..Len(Chain') :
          c = Chain'[j] => Open(c)' /\ ~Fresh(c)' /\ ~Sent(c)'
    BY <1>2, <1>3, <1>t
  <2> QED
    BY <1>2, <1>3, <2>1
<1>4. CASE HandleRoot
  <2>1. Root \notin failing
    BY <1>4 DEF HandleRoot
  <2>2. /\ mpc' = "flush" /\ out = NULL /\ PlaceJob(Root) \in Jobs /\ PlaceJob(Root) # NULL
        /\ out' = PlaceJob(Root) /\ jobs' = jobs /\ Len(Q) = 0
        /\ dumpdir' = <<Root>> /\ subs' = << >>
        /\ \A e : Open(e)' <=> e = Root
    BY <1>4, <2>1, RootEffect
  <2>3. Chain' = <<Root>>
    BY <2>2, DirsInodes DEF Chain
  <2>4. Len(Chain') = 1 /\ Chain'[1] = Root
    BY <2>3
  <2>5. \A e : ~Sent(e)
    BY <2>2 DEF Sent
  <2>6. \A e \in Dirs : ~Sent(e)'
    <3>1. \A e : Sent(e)' <=> Sent(e) \/ PlaceJob(Root) = Job("DIR_BH", e)
      BY <2>2, <1>t, SentSend
    <3> QED
      BY <3>1, <2>5, JobFacts, DirsInodes
  <2>7. \A e : ~Fresh(e)'
    BY <2>2 DEF Fresh
  <2>8. \A j \in 1..Len(Chain') : j = 1
    BY <2>4
  <2> QED
    BY <2>2, <2>4, <2>6, <2>7, <2>8, DirsInodes
<1>5. CASE Go
  <2>1. /\ out # NULL /\ out' = NULL /\ jobs' = Append(jobs, out) /\ dumpdir' = dumpdir
        /\ (mpc = "scan" /\ out.type = "DIR" => subs' = Append(subs, out.inode))
        /\ (~(mpc = "scan" /\ out.type = "DIR") => subs' = subs)
    BY <1>5 DEF Go
  <2>2. Q' = Q /\ \A e : Open(e)' <=> Open(e)
    BY <1>5, <2>1, <1>t, QGo, TreeStepsKeep DEF TreeSteps
  <2>3. \A e : Sent(e)' <=> Sent(e)
    BY <2>2 DEF Sent, Writing, Job
  <2>4. \A e \in Dirs : ~Fresh(e)'
    <3>1. \A e \in Dirs : Job("DIR", e) # NULL
      BY JobFacts, DirsInodes
    <3> QED
      BY <2>1, <3>1 DEF Fresh
  <2>r. mpc # "root"
    BY <2>1, <1>t DEF MainInv
  <2>5. CASE ~(mpc = "scan" /\ out.type = "DIR")
    <3>1. \A e \in Dirs : ~Fresh(e)
      BY <1>0, <2>5
    <3>2. Chain' = Chain
      BY <2>1, <2>5 DEF Chain
    <3> QED
      BY <1>3, <2>2, <2>3, <2>4, <2>r, <3>1, <3>2
  <2>6. CASE mpc = "scan" /\ out.type = "DIR"
    <3>1. PICK i : i = out.inode
      OBVIOUS
    <3>2. i \in Dirs /\ out = PlaceJob(i) /\ out = Job("DIR", i)
      <4>1. Q[Len(Q)] = out /\ Len(Q) \in 1..Len(Q) /\ out \in Jobs
        BY <2>1, <1>t, OutInQ
      <4>2. i \in Dirs
        BY <4>1, <2>6, <3>1 DEF BuildInv, WorkerInv
      <4> QED
        BY <4>1, <4>2, <2>6, <3>1, JobKnown
    <3>3. Placing(Len(Q), i) /\ Len(Q) \in 1..Len(Q)
      BY <2>1, <3>2, <1>t, OutInQ DEF Placing
    <3>4. Open(i) /\ bh[i] = "none" /\ \A m \in 1..Len(Q) : Placing(m, i) => m = Len(Q)
      BY <3>2, <3>3, DirsInodes DEF BuildInv, PlaceInv, Open, Read
    <3>5. ~Sent(i)
      <4> SUFFICES ASSUME NEW n \in 1..Len(Q), Writing(n, i) PROVE FALSE
        BY DEF Sent
      <4>1. PlacedBy(i, n)
        BY <3>2 DEF BuildInv, WriteInv
      <4>2. PICK m \in 1..(n - 1) : Placing(m, i)
        BY <3>4, <4>1 DEF PlacedBy
      <4>3. m \in 1..Len(Q) /\ m # Len(Q)
        BY <1>t
      <4> QED
        BY <3>4, <4>2, <4>3
    <3>6. Fresh(i)
      BY <2>6, <3>2 DEF Fresh
    <3>7. \A e \in Dirs : Fresh(e) => e = i
      BY <1>0, <3>1
    <3> DEFINE L == Len(subs)
    <3>8. /\ L \in Nat /\ Len(Chain') = Len(Chain) + 1 /\ L <= Len(Chain)
          /\ Chain'[L + 1] = i
          /\ \A j \in 1..L : Chain'[j] = Chain[j]
          /\ \A j \in (L + 1)..Len(Chain) : Chain'[j + 1] = Chain[j]
      <4>1. subs \in Seq(Dirs) /\ dumpdir \in Seq(Dirs)
        BY <1>t DEF TypeInv
      <4>2. Chain = subs \o dumpdir /\ Chain' = Append(subs, i) \o dumpdir
        BY <2>1, <2>6, <3>1 DEF Chain
      <4> QED
        BY <4>1, <4>2, <3>2, Between
    <3> HIDE DEF L
    <3>9. \A j \in 1..Len(Chain') :
            \/ j \in 1..L /\ j \in 1..Len(Chain) /\ Chain'[j] = Chain[j]
            \/ j = L + 1 /\ Chain'[j] = i
            \/ j - 1 \in (L + 1)..Len(Chain) /\ j - 1 \in 1..Len(Chain) /\ Chain'[j] = Chain[j - 1]
      <4> SUFFICES ASSUME NEW j \in 1..Len(Chain'), ~(j \in 1..L), j # L + 1
                   PROVE  j - 1 \in (L + 1)..Len(Chain) /\ j - 1 \in 1..Len(Chain) /\ Chain'[j] = Chain[j - 1]
        BY <3>8, <1>t
      <4>1. j - 1 \in (L + 1)..Len(Chain) /\ j - 1 \in 1..Len(Chain) /\ (j - 1) + 1 = j
        BY <3>8, <1>t
      <4>2. Chain'[(j - 1) + 1] = Chain[j - 1]
        BY <3>8, <4>1
      <4> QED
        BY <4>1, <4>2
    <3>10. \A j \in 1..Len(Chain) : Chain[j] # i
      BY <1>2, <2>r, <3>6
    <3>11. \A j, k \in 1..Len(Chain') : Chain'[j] = Chain'[k] => j = k
      <4> SUFFICES ASSUME NEW j \in 1..Len(Chain'), NEW k \in 1..Len(Chain'),
                          Chain'[j] = Chain'[k]
                   PROVE  j = k
        OBVIOUS
      <4>0. j \in Nat /\ k \in Nat
        BY <3>8, <1>t
      <4>1. CASE j \in 1..L /\ j \in 1..Len(Chain) /\ Chain'[j] = Chain[j]
        <5>1. CASE k \in 1..L /\ k \in 1..Len(Chain) /\ Chain'[k] = Chain[k]
          BY <1>2, <2>r, <4>1, <5>1
        <5>2. CASE k = L + 1 /\ Chain'[k] = i
          BY <3>10, <4>1, <5>2
        <5>3. CASE k - 1 \in (L + 1)..Len(Chain) /\ k - 1 \in 1..Len(Chain) /\ Chain'[k] = Chain[k - 1]
          <6>1. j = k - 1
            BY <1>2, <2>r, <4>1, <5>3
          <6> QED
            BY <6>1, <4>1, <5>3, <3>8
        <5> QED
          BY <3>9, <5>1, <5>2, <5>3
      <4>2. CASE j = L + 1 /\ Chain'[j] = i
        BY <3>9, <3>10, <4>2
      <4>3. CASE j - 1 \in (L + 1)..Len(Chain) /\ j - 1 \in 1..Len(Chain) /\ Chain'[j] = Chain[j - 1]
        <5>1. CASE k \in 1..L /\ k \in 1..Len(Chain) /\ Chain'[k] = Chain[k]
          <6>1. k = j - 1
            BY <1>2, <2>r, <4>3, <5>1
          <6> QED
            BY <6>1, <4>3, <5>1, <3>8
        <5>2. CASE k = L + 1 /\ Chain'[k] = i
          BY <3>10, <4>3, <5>2
        <5>3. CASE k - 1 \in (L + 1)..Len(Chain) /\ k - 1 \in 1..Len(Chain) /\ Chain'[k] = Chain[k - 1]
          <6>1. j - 1 = k - 1
            BY <1>2, <2>r, <4>3, <5>3
          <6> QED
            BY <6>1, <4>0
        <5> QED
          BY <3>9, <5>1, <5>2, <5>3
      <4> QED
        BY <3>9, <4>1, <4>2, <4>3
    <3>12. \A c : \A j \in 1..Len(Chain') :
             c = Chain'[j] => Open(c)' /\ ~Fresh(c)' /\ ~Sent(c)'
      <4>1. \A c : \A j \in 1..Len(Chain') : c = Chain'[j] => Open(c) /\ ~Sent(c)
        BY <1>2, <2>r, <3>4, <3>5, <3>9
      <4> QED
        BY <4>1, <2>2, <2>3, <2>4, <1>o
    <3>13. \A d \in Dirs : Open(d)' =>
             \/ \E j \in 1..Len(Chain') : Chain'[j] = d
             \/ Sent(d)' \/ Fresh(d)'
      <4>1. \A j \in 1..Len(Chain) : \E k \in 1..Len(Chain') : Chain'[k] = Chain[j]
        <5> SUFFICES ASSUME NEW j \in 1..Len(Chain) PROVE \E k \in 1..Len(Chain') : Chain'[k] = Chain[j]
          OBVIOUS
        <5>1. CASE j \in 1..L
          BY <5>1, <3>8, <1>t
        <5>2. CASE j \notin 1..L
          <6>1. j \in (L + 1)..Len(Chain) /\ j + 1 \in 1..Len(Chain')
            BY <5>2, <3>8, <1>t
          <6> QED
            BY <6>1, <3>8
        <5> QED
          BY <5>1, <5>2
      <4>2. L + 1 \in 1..Len(Chain')
        BY <3>8, <1>t
      <4> QED
        BY <4>1, <4>2, <3>7, <3>8, <1>2, <2>2, <2>3, <2>r
    <3> QED
      BY <3>11, <3>12, <3>13
  <2> QED
    BY <2>5, <2>6
<1>6. CASE EndDir
  <2>0. PICK h : h = Head(dumpdir)
    OBVIOUS
  <2>1. /\ mpc = "scan" /\ mpc' = "dir_bh" /\ out = NULL /\ out' = Job("DIR_BH", h)
        /\ jobs' = jobs /\ dumpdir' = NextDirs /\ subs' = << >>
    BY <1>6, <2>0 DEF EndDir
  <2>2. h \in Dirs /\ dumpdir # << >>
    BY <2>0, <2>1, ScanFacts
  <2>3. \A e : Open(e)' <=> Open(e)
    BY <1>6, TreeStepsKeep DEF TreeSteps
  <2>4. \A e \in Dirs : Sent(e)' <=> Sent(e) \/ e = h
    <3>1. Job("DIR_BH", h) \in Jobs /\ Job("DIR_BH", h) # NULL
      BY <2>2, JobFacts
    <3>2. \A e : Sent(e)' <=> Sent(e) \/ Job("DIR_BH", h) = Job("DIR_BH", e)
      BY <2>1, <3>1, <1>t, SentSend
    <3>3. \A e \in Dirs : Job("DIR_BH", h) = Job("DIR_BH", e) => e = h
      BY <2>2, JobFacts
    <3> QED
      BY <3>2, <3>3
  <2>5. \A e \in Dirs : ~Fresh(e) /\ ~Fresh(e)'
    BY <1>0, <2>1 DEF Fresh
  <2> DEFINE L == Len(subs)
  <2>6. /\ L \in Nat /\ Len(Chain') \in Nat /\ Len(Chain) = Len(Chain') + 1 /\ L <= Len(Chain')
        /\ Chain[L + 1] = h
        /\ \A j \in 1..L : Chain[j] = Chain'[j]
        /\ \A j \in (L + 1)..Len(Chain') : Chain[j + 1] = Chain'[j]
    <3>1. subs \in Seq(Dirs) /\ dumpdir \in Seq(Dirs) /\ Tail(dumpdir) \in Seq(Dirs)
      BY <1>t, <2>2 DEF TypeInv
    <3>2. Chain' = << >> \o (subs \o Tail(dumpdir))
      BY <2>1 DEF Chain, NextDirs
    <3>3. Chain = subs \o dumpdir /\ Chain' = subs \o Tail(dumpdir)
      BY <3>1, <3>2 DEF Chain
    <3> QED
      BY <3>1, <3>3, <2>0, <2>2, HeadBetween
  <2> HIDE DEF L
  <2>7. \A j \in 1..Len(Chain') : \E k \in 1..Len(Chain) :
          /\ Chain'[j] = Chain[k] /\ k # L + 1
          /\ k = IF j <= L THEN j ELSE j + 1
    <3> SUFFICES ASSUME NEW j \in 1..Len(Chain')
                 PROVE  \E k \in 1..Len(Chain) :
                          /\ Chain'[j] = Chain[k] /\ k # L + 1
                          /\ k = IF j <= L THEN j ELSE j + 1
      OBVIOUS
    <3>1. CASE j <= L
      BY <3>1, <2>6
    <3>2. CASE ~(j <= L)
      <4>1. j \in (L + 1)..Len(Chain') /\ j + 1 \in 1..Len(Chain) /\ j + 1 # L + 1
        BY <3>2, <2>6
      <4> QED
        BY <4>1, <3>2, <2>6
    <3> QED
      BY <3>1, <3>2
  <2>8. L + 1 \in 1..Len(Chain)
    BY <2>6
  <2>9. \A j \in 1..Len(Chain) : Chain[j] = h => j = L + 1
    BY <1>2, <2>1, <2>6, <2>8
  <2>10. \A j, k \in 1..Len(Chain') : Chain'[j] = Chain'[k] => j = k
    <3> SUFFICES ASSUME NEW j \in 1..Len(Chain'), NEW k \in 1..Len(Chain'),
                        Chain'[j] = Chain'[k]
                 PROVE  j = k
      OBVIOUS
    <3>1. PICK a \in 1..Len(Chain) : Chain'[j] = Chain[a] /\ a = IF j <= L THEN j ELSE j + 1
      BY <2>7
    <3>2. PICK b \in 1..Len(Chain) : Chain'[k] = Chain[b] /\ b = IF k <= L THEN k ELSE k + 1
      BY <2>7
    <3>3. a = b
      BY <1>2, <2>1, <3>1, <3>2
    <3> QED
      BY <3>1, <3>2, <3>3, <2>6
  <2>11. \A c : \A j \in 1..Len(Chain') :
           c = Chain'[j] => Open(c)' /\ ~Fresh(c)' /\ ~Sent(c)'
    <3>1. \A c : \A j \in 1..Len(Chain') : c = Chain'[j] => Open(c) /\ ~Sent(c) /\ c # h
      BY <1>2, <2>1, <2>7, <2>9
    <3> QED
      BY <3>1, <2>3, <2>4, <2>5, <1>o
  <2>12. \A j \in 1..Len(Chain) : j # L + 1 => \E k \in 1..Len(Chain') : Chain'[k] = Chain[j]
    <3> SUFFICES ASSUME NEW j \in 1..Len(Chain), j # L + 1
                 PROVE  \E k \in 1..Len(Chain') : Chain'[k] = Chain[j]
      OBVIOUS
    <3>1. CASE j <= L
      <4>1. j \in 1..L /\ j \in 1..Len(Chain')
        BY <3>1, <2>6
      <4> QED
        BY <4>1, <2>6
    <3>2. CASE ~(j <= L)
      <4>1. j - 1 \in (L + 1)..Len(Chain') /\ (j - 1) + 1 = j /\ j - 1 \in 1..Len(Chain')
        BY <3>2, <2>6
      <4>2. Chain[(j - 1) + 1] = Chain'[j - 1]
        BY <4>1, <2>6
      <4> QED
        BY <4>1, <4>2
    <3> QED
      BY <3>1, <3>2
  <2>13. \A d \in Dirs : Open(d)' =>
           \/ \E j \in 1..Len(Chain') : Chain'[j] = d
           \/ Sent(d)' \/ Fresh(d)'
    <3> SUFFICES ASSUME NEW d \in Dirs, Open(d), ~Sent(d), d # h
                 PROVE  \E j \in 1..Len(Chain') : Chain'[j] = d
      BY <2>3, <2>4
    <3>1. PICK j \in 1..Len(Chain) : Chain[j] = d
      BY <1>2, <2>1, <2>5
    <3>2. j # L + 1
      BY <3>1, <2>6
    <3> QED
      BY <2>12, <3>1, <3>2
  <2> QED
    BY <2>10, <2>11, <2>13
<1>7. CASE HandleNew
  <2>1. /\ mpc = "scan" /\ out = NULL /\ mpc' = mpc /\ Here \in Inodes
        /\ PlaceJob(Here) \in Jobs /\ PlaceJob(Here) # NULL /\ out' = PlaceJob(Here)
        /\ dumpdir' = dumpdir /\ subs' = subs /\ jobs' = jobs
    BY <1>7, NewEffect
  <2>2. PICK h : h = Here
    OBVIOUS
  <2>3. /\ ~Visited(h) /\ h \in Inodes
        /\ \A e : Open(e)' <=> Open(e) \/ (e = h /\ h \in Dirs)
    BY <1>7, <2>2, NewTree
  <2>4. Chain' = Chain
    BY <2>1 DEF Chain
  <2>5. \A e \in Dirs : Sent(e)' <=> Sent(e)
    <3>1. \A e : Sent(e)' <=> Sent(e) \/ PlaceJob(Here) = Job("DIR_BH", e)
      BY <2>1, <1>t, SentSend
    <3> QED
      BY <3>1, <2>1, JobFacts
  <2>6. \A e \in Dirs : ~Fresh(e)
    BY <1>0, <2>1
  <2>7. \A e \in Dirs : Fresh(e)' <=> e = h
    <3>1. \A e \in Dirs : PlaceJob(e) = Job("DIR", e) /\ (PlaceJob(e) = PlaceJob(h) => e = h)
      BY <2>3, JobFacts, DirsInodes
    <3> QED
      BY <3>1, <2>1, <2>2 DEF Fresh
  <2>8. ~Open(h)
    BY <2>3 DEF Open, Read
  <2>9. \A c : \A j \in 1..Len(Chain') :
          c = Chain'[j] => Open(c)' /\ ~Fresh(c)' /\ ~Sent(c)'
    <3>1. \A j \in 1..Len(Chain) : Open(Chain[j]) /\ ~Sent(Chain[j]) /\ Chain[j] # h /\ Chain[j] \in Dirs
      BY <1>2, <1>t, <2>1, <2>8
    <3> QED
      BY <3>1, <2>3, <2>4, <2>5, <2>7
  <2>10. \A d \in Dirs : Open(d)' =>
           \/ \E j \in 1..Len(Chain') : Chain'[j] = d
           \/ Sent(d)' \/ Fresh(d)'
    BY <1>2, <2>1, <2>3, <2>4, <2>5, <2>6, <2>7
  <2> QED
    BY <1>2, <2>1, <2>4, <2>9, <2>10
<1>8. CASE Stop
  <2>1. /\ mpc = "stop" /\ mpc' = "stop" /\ out = NULL /\ out' = Job("MAX", NULL)
        /\ dumpdir' = dumpdir /\ subs' = subs /\ jobs' = jobs
    BY <1>8 DEF Stop
  <2>2. \A e : Open(e)' <=> Open(e)
    BY <1>8, TreeStepsKeep DEF TreeSteps
  <2>3. \A e \in Dirs : Sent(e)' <=> Sent(e)
    <3>1. /\ Job("MAX", NULL) \in Jobs /\ Job("MAX", NULL) # NULL
          /\ \A e \in Dirs : Job("DIR_BH", e) # Job("MAX", NULL)
      BY JobFacts
    <3>2. \A e : Sent(e)' <=> Sent(e) \/ Job("MAX", NULL) = Job("DIR_BH", e)
      BY <2>1, <3>1, <1>t, SentSend
    <3> QED
      BY <3>1, <3>2
  <2>4. \A e : ~Fresh(e) /\ ~Fresh(e)'
    BY <2>1 DEF Fresh
  <2>5. Chain' = Chain
    BY <2>1 DEF Chain
  <2> QED
    BY <1>3, <2>1, <2>2, <2>3, <2>4, <2>5
<1>9. CASE FlushJobs \/ HandleFails \/ HardLink \/ Join \/ Bflush \/ RootPut \/ UNCHANGED vars
  <2>1. /\ jobs' = jobs /\ out' = out /\ subs' = subs /\ dumpdir' = dumpdir
        /\ \A e : Open(e)' <=> Open(e)
    <3>1. CASE HandleFails
      <4>1. /\ kids' = kids /\ failing' = failing /\ dents' = dents /\ Here \in Inodes
            /\ ~Visited(Here) /\ Here \in failing /\ Head(dumpdir) \in Dirs
            /\ subs' = subs /\ dumpdir' = dumpdir
            /\ out' = out /\ jobs' = jobs /\ parent' = [parent EXCEPT ![Here] = Head(dumpdir)]
        BY <3>1, FailsEffect
      <4>2. \A e : Open(e)' <=> Open(e)
        BY <4>1, MeetEffect
      <4> QED
        BY <4>1, <4>2
    <3>2. CASE ~HandleFails
      BY <1>9, <3>2, QuietEffect
    <3> QED
      BY <3>1, <3>2
  <2>2. Chain' = Chain /\ Q' = Q
    BY <2>1 DEF Chain, Q
  <2>3. \A e : Sent(e)' <=> Sent(e)
    BY <2>2 DEF Sent, Writing, Job
  <2>4. \A e \in Dirs : Fresh(e)' <=> Fresh(e)
    BY <1>9, FreshKept
  <2>5. mpc # "root"
    BY <1>1, <1>9 DEF FlushJobs, HandleFails, HardLink, Join, Bflush, RootPut, vars, HandleRoot, Scanning
  <2> QED
    BY <1>3, <2>1, <2>2, <2>3, <2>4, <2>5
<1>10. CASE Worker
  <2>1. /\ out' = out /\ subs' = subs /\ dumpdir' = dumpdir /\ mpc' = mpc
        /\ \A e : Open(e)' <=> Open(e) /\ ~Writing(1, e)
    BY <1>10, WorkerEffect
  <2>2. \A e \in Dirs : Sent(e)' <=> Sent(e) /\ ~Writing(1, e)
    BY <1>10, SentTake
  <2>3. Chain' = Chain
    BY <2>1 DEF Chain
  <2>4. \A e : Fresh(e)' <=> Fresh(e)
    BY <2>1 DEF Fresh
  <2>5. \A e : Writing(1, e) => Sent(e)
    BY DEF Sent, Writing
  <2>6. mpc # "root"
    BY <2>1
  <2> QED
    BY <1>3, <2>1, <2>2, <2>3, <2>4, <2>5, <2>6
<1> QED
  BY <1>4, <1>5, <1>6, <1>7, <1>8, <1>9, <1>10 DEF Next, Main
-----------------------------------------------------------------------------
(* Counting names. *)
(* The entries of d that name i when p is the parent of d. *)
Naming(i, d) == {k \in 1..Len(kids[d]) : kids[d][k] = i}
EntrySet(i, d, p) == {k \in -1..Len(kids[d]) : \/ k \in Naming(i, d)
                                               \/ k = 0 /\ i = d
                                               \/ k = -1 /\ i = p}

(* The entries that name i: those of the source, "." and "..". *)
LEMMA EntryCount ==
  ASSUME kids \in Trees, NEW d \in Dirs, NEW i, NEW p
  PROVE  /\ IsFiniteSet(EntrySet(i, d, p)) /\ Cardinality(EntrySet(i, d, p)) \in Nat
         /\ Cardinality(Naming(i, d)) \in Nat
         /\ Cardinality(EntrySet(i, d, p)) = Cardinality(Naming(i, d)) + DotRefs(i, d, p)
<1>0. Len(kids[d]) \in Nat
  BY TreeFacts
<1> DEFINE K == EntrySet(i, d, p)
<1>k. \A k : k \in K <=> \/ k \in 1..Len(kids[d]) /\ kids[d][k] = i
                         \/ k = 0 /\ i = d
                         \/ k = -1 /\ i = p
  BY <1>0 DEF EntrySet, Naming
<1> HIDE DEF K
<1> DEFINE A == Naming(i, d)
           B == IF i = d THEN A \cup {0} ELSE A
<1>1. Len(kids[d]) \in Nat
  BY TreeFacts
<1>2. IsFiniteSet(A) /\ Cardinality(A) \in Nat /\ 0 \notin A /\ -1 \notin A
  <2>1. IsFiniteSet(1..Len(kids[d]))
    BY <1>1, FS_Interval
  <2>2. A \in SUBSET (1..Len(kids[d]))
    BY DEF Naming
  <2>3. IsFiniteSet(A)
    BY <2>1, <2>2, FS_Subset
  <2>4. 0 \notin A /\ -1 \notin A
    BY <1>1 DEF Naming
  <2> QED
    BY <2>3, <2>4, FS_CardinalityType
<1>3. \A k : k \in A <=> k \in 1..Len(kids[d]) /\ kids[d][k] = i
  BY DEF Naming
<1> HIDE DEF A
<1>4. /\ IsFiniteSet(B) /\ -1 \notin B
      /\ Cardinality(B) = Cardinality(A) + (IF i = d THEN 1 ELSE 0)
  BY <1>2, FS_AddElement
<1>5. \A k : k \in B <=> k \in A \/ (k = 0 /\ i = d)
  OBVIOUS
<1> HIDE DEF B
<1>6. /\ IsFiniteSet(K)
      /\ Cardinality(K) = Cardinality(B) + (IF i = p THEN 1 ELSE 0)
  <2>1. CASE i = p
    <3>1. \A k : k \in K <=> k \in B \cup {-1}
      BY <1>k, <1>3, <1>5, <2>1
    <3>2. K = B \cup {-1}
      BY <3>1
    <3> QED
      BY <3>2, <2>1, <1>4, FS_AddElement
  <2>2. CASE i # p
    <3>1. \A k : k \in K <=> k \in B
      BY <1>k, <1>3, <1>5, <2>2
    <3>2. K = B
      BY <3>1
    <3>3. Cardinality(B) \in Nat
      BY <1>4, FS_CardinalityType
    <3> QED
      BY <3>2, <3>3, <2>2, <1>4
  <2> QED
    BY <2>1, <2>2
<1>7. Cardinality(K) = Cardinality(A) + DotRefs(i, d, p)
  BY <1>2, <1>4, <1>6 DEF DotRefs
<1>8. Cardinality(K) \in Nat
  BY <1>6, FS_CardinalityType
<1> QED
  BY <1>2, <1>6, <1>7, <1>8 DEF A, K

(* A product with one element has as many elements. *)
LEMMA OneMore ==
  ASSUME NEW d, NEW K, IsFiniteSet(K)
  PROVE  IsFiniteSet({d} \X K) /\ Cardinality({d} \X K) = Cardinality(K)
<1>1. IsFiniteSet({d}) /\ Cardinality({d}) = 1
  BY FS_Singleton
<1>2. /\ IsFiniteSet({d} \X K)
      /\ Cardinality({d} \X K) = Cardinality({d}) * Cardinality(K)
  BY <1>1, FS_Product
<1>3. Cardinality(K) \in Nat
  BY FS_CardinalityType
<1> QED
  BY <1>1, <1>2, <1>3

(* Disjoint finite sets. *)
LEMMA DisjointCount ==
  ASSUME NEW S, NEW T, IsFiniteSet(S), IsFiniteSet(T), S \cap T = {}
  PROVE  /\ IsFiniteSet(S \cup T) /\ Cardinality(S) \in Nat /\ Cardinality(T) \in Nat
         /\ Cardinality(S \cup T) = Cardinality(S) + Cardinality(T)
<1>1. Cardinality(S) \in Nat /\ Cardinality(T) \in Nat
  BY FS_CardinalityType
<1>2. /\ IsFiniteSet(S \cup T)
      /\ Cardinality(S \cup T) = Cardinality(S) + Cardinality(T) - Cardinality(S \cap T)
  BY FS_Union
<1>3. Cardinality(S \cap T) = 0
  BY FS_EmptySet
<1> QED
  BY <1>1, <1>2, <1>3

(* The names a directory holds. *)
LEMMA TargetSet ==
  ASSUME kids \in Trees, NEW d \in Dirs, NEW i
  PROVE  {k \in Entries(d) : Target(d, k) = i} = EntrySet(i, d, parent[d])
<1>1. /\ 0 \in Entries(d) /\ -1 \in Entries(d) /\ 1..Len(kids[d]) \subseteq Entries(d)
      /\ \A k \in Entries(d) : k \in {0, -1} \/ k \in 1..Len(kids[d])
  BY TreeFacts
<1>2. /\ Target(d, 0) = d /\ Target(d, -1) = parent[d]
      /\ \A k \in 1..Len(kids[d]) : Target(d, k) = kids[d][k]
  BY TargetFacts
<1>3. \A k : k \in {e \in Entries(d) : Target(d, e) = i} <=>
               \/ k \in 1..Len(kids[d]) /\ kids[d][k] = i
               \/ k = 0 /\ i = d
               \/ k = -1 /\ i = parent[d]
  BY <1>1, <1>2
<1>4. \A k : k \in EntrySet(i, d, parent[d]) <=>
               \/ k \in 1..Len(kids[d]) /\ kids[d][k] = i
               \/ k = 0 /\ i = d
               \/ k = -1 /\ i = parent[d]
  BY <1>1 DEF EntrySet, Naming, Entries
<1>5. \A k : k \in {e \in Entries(d) : Target(d, e) = i} <=> k \in EntrySet(i, d, parent[d])
  BY <1>3, <1>4
<1> QED
  BY <1>5

(* The names in one directory depend on its entries and its parent. *)
LEMMA NamedInKept ==
  ASSUME kids' = kids, NEW d, parent'[d] = parent[d], NEW i
  PROVE  NamedIn(i, d)' = NamedIn(i, d)
BY DEF NamedIn, Entries, Target

(* While the open directories stay the same, so do the names. *)
LEMMA NamedKept ==
  ASSUME kids' = kids, \A d : Open(d)' <=> Open(d),
         \A d \in Dirs : Open(d) => parent'[d] = parent[d], NEW i
  PROVE  Named(i)' = Named(i)
<1>1. {e \in Dirs : Open(e)}' = {e \in Dirs : Open(e)}
  OBVIOUS
<1>2. \A d \in {e \in Dirs : Open(e)} : NamedIn(i, d)' = NamedIn(i, d)
  BY NamedInKept
<1>3. Named(i)' \subseteq Named(i)
  BY <1>1, <1>2 DEF Named
<1>4. Named(i) \subseteq Named(i)'
  BY <1>1, <1>2 DEF Named
<1> QED
  BY <1>3, <1>4

(* A directory is read: its names are new. *)
LEMMA NamedRead ==
  ASSUME BuildInv, NEW d \in Dirs, ~Open(d), NEW p, kids' = kids, parent'[d] = p,
         \A e \in Dirs : e # d => parent'[e] = parent[e],
         \A e : Open(e)' <=> Open(e) \/ e = d, NEW i \in Inodes
  PROVE  /\ IsFiniteSet(Named(i)')
         /\ Cardinality(Naming(i, d)) \in Nat
         /\ Cardinality(Named(i)') = Cardinality(Named(i))
              + Cardinality(Naming(i, d)) + DotRefs(i, d, p)
<1>1. kids \in Trees /\ IsFiniteSet(Named(i)) /\ Cardinality(Named(i)) \in Nat
  BY FS_CardinalityType DEF BuildInv, TypeInv, CountInv
<1> DEFINE K == EntrySet(i, d, p)
<1>2. {k \in Entries(d) : Target(d, k) = i}' = K
  <2>1. /\ 0 \in Entries(d) /\ -1 \in Entries(d) /\ 1..Len(kids[d]) \subseteq Entries(d)
        /\ \A k \in Entries(d) : k \in {0, -1} \/ k \in 1..Len(kids[d])
    BY <1>1, TreeFacts
  <2>2. Entries(d)' = Entries(d)
    BY KidsKept
  <2>3. Target(d, 0)' = d /\ Target(d, -1)' = p
    BY DEF Target
  <2>4. \A k \in 1..Len(kids[d]) : Target(d, k)' = kids[d][k]
    BY DEF Target
  <2>5. \A k : k \in {e \in Entries(d) : Target(d, e) = i}' <=>
                 \/ k \in 1..Len(kids[d]) /\ kids[d][k] = i
                 \/ k = 0 /\ i = d
                 \/ k = -1 /\ i = p
    BY <2>1, <2>2, <2>3, <2>4
  <2>6. \A k : k \in K <=> \/ k \in 1..Len(kids[d]) /\ kids[d][k] = i
                           \/ k = 0 /\ i = d
                           \/ k = -1 /\ i = p
    BY <2>1 DEF EntrySet, Naming, Entries
  <2> HIDE DEF K
  <2>7. \A k : k \in {e \in Entries(d) : Target(d, e) = i}' <=> k \in K
    BY <2>5, <2>6
  <2> QED
    BY <2>7
<1>3. NamedIn(i, d)' = {d} \X K
  BY <1>2 DEF NamedIn
<1>4. /\ IsFiniteSet(K) /\ Cardinality(K) \in Nat /\ Cardinality(Naming(i, d)) \in Nat
      /\ Cardinality(K) = Cardinality(Naming(i, d)) + DotRefs(i, d, p)
  BY <1>1, EntryCount
<1> HIDE DEF K
<1>5. IsFiniteSet({d} \X K) /\ Cardinality({d} \X K) = Cardinality(K)
  BY <1>4, OneMore
<1>6. Named(i)' = Named(i) \cup ({d} \X K)
  <2>1. \A e \in Dirs : e # d => NamedIn(i, e)' = NamedIn(i, e)
    BY NamedInKept
  <2>2. Named(i)' \subseteq Named(i) \cup ({d} \X K)
    BY <1>3, <2>1 DEF Named
  <2>3. Named(i) \subseteq Named(i)'
    BY <2>1 DEF Named
  <2>4. ({d} \X K) \subseteq Named(i)'
    BY <1>3 DEF Named
  <2> QED
    BY <2>2, <2>3, <2>4
<1>7. Named(i) \cap ({d} \X K) = {}
  <2>1. \A x \in Named(i) : x[1] # d
    BY DEF Named, NamedIn
  <2>2. \A x \in {d} \X K : x[1] = d
    OBVIOUS
  <2> QED
    BY <2>1, <2>2
<1>8. /\ IsFiniteSet(Named(i) \cup ({d} \X K))
      /\ Cardinality(Named(i) \cup ({d} \X K)) = Cardinality(Named(i)) + Cardinality({d} \X K)
  BY <1>1, <1>5, <1>7, DisjointCount
<1>9. DotRefs(i, d, p) \in Nat
  BY DEF DotRefs
<1> QED
  BY <1>1, <1>4, <1>5, <1>6, <1>8, <1>9

(* A directory is written: its names are gone. *)
LEMMA NamedWritten ==
  ASSUME BuildInv, NEW d \in Dirs, Open(d), kids' = kids, parent' = parent,
         \A e : Open(e)' <=> Open(e) /\ e # d, NEW i \in Inodes
  PROVE  /\ IsFiniteSet(Named(i)') /\ Cardinality(Named(i)') \in Nat
         /\ Occurs(i, d, Entries(d)) \in Nat
         /\ Cardinality(Named(i)) = Cardinality(Named(i)') + Occurs(i, d, Entries(d))
         /\ (\E k \in Entries(d) : Target(d, k) = i) \/ Occurs(i, d, Entries(d)) = 0
<1>1. kids \in Trees /\ IsFiniteSet(Named(i))
  BY DEF BuildInv, TypeInv, CountInv
<1> DEFINE K == {k \in Entries(d) : Target(d, k) = i}
<1>2. K = EntrySet(i, d, parent[d])
  BY <1>1, TargetSet
<1>3. NamedIn(i, d) = {d} \X K /\ Occurs(i, d, Entries(d)) = Cardinality(K)
  BY DEF NamedIn, Occurs
<1>k. (\E k \in Entries(d) : Target(d, k) = i) \/ K = {}
  OBVIOUS
<1> HIDE DEF K
<1>4. IsFiniteSet(K) /\ Cardinality(K) \in Nat
  BY <1>1, <1>2, EntryCount
<1>5. IsFiniteSet({d} \X K) /\ Cardinality({d} \X K) = Cardinality(K)
  BY <1>4, OneMore
<1>6. Named(i) = Named(i)' \cup ({d} \X K)
  <2>1. \A e \in Dirs : NamedIn(i, e)' = NamedIn(i, e)
    BY NamedInKept
  <2>2. Named(i) \subseteq Named(i)' \cup ({d} \X K)
    BY <1>3, <2>1 DEF Named
  <2>3. Named(i)' \subseteq Named(i)
    BY <2>1 DEF Named
  <2>4. ({d} \X K) \subseteq Named(i)
    BY <1>3 DEF Named
  <2> QED
    BY <2>2, <2>3, <2>4
<1>7. Named(i)' \cap ({d} \X K) = {}
  <2>0. \A e \in Dirs : NamedIn(i, e)' = NamedIn(i, e)
    BY NamedInKept
  <2>1. \A x \in Named(i)' : x[1] # d
    BY <2>0 DEF Named, NamedIn
  <2>2. \A x \in {d} \X K : x[1] = d
    OBVIOUS
  <2> QED
    BY <2>1, <2>2
<1>8. IsFiniteSet(Named(i)')
  BY <1>1, <1>6, FS_Subset
<1>9. /\ Cardinality(Named(i)') \in Nat
      /\ Cardinality(Named(i)' \cup ({d} \X K)) = Cardinality(Named(i)') + Cardinality({d} \X K)
  BY <1>5, <1>7, <1>8, DisjointCount
<1> QED
  BY <1>3, <1>4, <1>5, <1>6, <1>8, <1>9, <1>k, FS_EmptySet

(* One counts a condition. *)
LEMMA OneFacts == /\ \A b : One(b) \in {0, 1} /\ One(b) \in Nat
                  /\ One(TRUE) = 1 /\ One(FALSE) = 0
                  /\ \A b : (b => One(b) = 1) /\ (~b => One(b) = 0)
BY DEF One

(* Every step keeps CountInv: a step changes a count by as many references as it
   takes or drops. *)
LEMMA CountStep == BuildInv /\ [Next]_vars => CountInv'
<1> SUFFICES ASSUME BuildInv, [Next]_vars
             PROVE  CountInv'
  OBVIOUS
<1>d. DOMAIN i_count' = Inodes
  <2>1. DOMAIN i_count = Inodes
    BY DEF BuildInv, CountInv
  <2>2. CASE Bflush \/ RootPut \/ JobDirBh
    BY <2>2 DEF Bflush, RootPut, JobDirBh, Iput
  <2>3. CASE HandleRoot \/ HandleNew
    BY <2>1, <2>3 DEF HandleRoot, HandleNew, ReadDir
  <2>4. CASE Go
    BY <2>1, <2>4 DEF Go
  <2>5. CASE JobNdir \/ JobDir
    BY <2>1, <2>5 DEF JobNdir, JobDir
  <2>6. CASE FlushJobs \/ HandleFails \/ HardLink \/ EndDir \/ Stop \/ Join \/ JobMax
               \/ UNCHANGED vars
    BY <2>1, <2>6 DEF FlushJobs, HandleFails, HardLink, EndDir, Stop, Join, JobMax, vars, tree
  <2> QED
    BY <2>2, <2>3, <2>4, <2>5, <2>6 DEF Next, Main, Worker
<1> SUFFICES ASSUME NEW i \in Inodes
             PROVE  /\ IsFiniteSet(Named(i)')
                    /\ i_count'[i] = Cardinality(Named(i)') + One(Dumping(i)')
                                       + One(bh'[i] # "none") + One(inl'[i] = "write")
                                       + One(RootHeld(i)')
                    /\ i \in freed' => i_count'[i] = 0
  BY <1>d DEF CountInv
<1>t. /\ TypeInv /\ kids \in Trees /\ DOMAIN bh = Inodes /\ DOMAIN inl = Inodes
      /\ DOMAIN i_count = Inodes /\ DOMAIN parent = Inodes
  BY DEF BuildInv, TypeInv, CountInv
<1>1. /\ IsFiniteSet(Named(i)) /\ Cardinality(Named(i)) \in Nat /\ i_count[i] \in Nat
      /\ i_count[i] = Cardinality(Named(i)) + One(Dumping(i)) + One(bh[i] # "none")
                         + One(inl[i] = "write") + One(RootHeld(i))
      /\ i \in freed => i_count[i] = 0
  BY CountNat DEF BuildInv, CountInv
(* A step that leaves the references to i. *)
<1>2. ASSUME Named(i)' = Named(i), Dumping(i)' <=> Dumping(i), bh'[i] = bh[i], inl'[i] = inl[i],
             RootHeld(i)' <=> RootHeld(i), i_count'[i] = i_count[i], i \in freed' => i \in freed
      PROVE  /\ IsFiniteSet(Named(i)')
             /\ i_count'[i] = Cardinality(Named(i)') + One(Dumping(i)')
                                + One(bh'[i] # "none") + One(inl'[i] = "write")
                                + One(RootHeld(i)')
             /\ i \in freed' => i_count'[i] = 0
  <2>1. One(Dumping(i)') = One(Dumping(i)) /\ One(RootHeld(i)') = One(RootHeld(i))
    BY <1>2 DEF One
  <2>2. One(bh'[i] # "none") = One(bh[i] # "none") /\ One(inl'[i] = "write") = One(inl[i] = "write")
    BY <1>2
  <2> QED
    BY <1>1, <1>2, <2>1, <2>2
<1>o. \A e : Open(e) => e \in Dirs
  BY DEF Open, Read
<1>3. CASE FlushJobs \/ HardLink \/ EndDir \/ Stop \/ Join \/ JobMax \/ UNCHANGED vars
  <2>1. /\ kids' = kids /\ freed' = freed /\ parent' = parent /\ bh' = bh /\ inl' = inl
        /\ \A d : Open(d)' <=> Open(d)
    BY <1>3, TreeStepsKeep DEF TreeSteps
  <2>2. i_count' = i_count
    BY <1>3 DEF FlushJobs, HardLink, EndDir, Stop, Join, JobMax, vars, tree
  <2>3. Named(i)' = Named(i)
    BY <2>1, NamedKept
  <2>4. Dumping(i)' <=> Dumping(i)
    BY <1>3, <1>o, <2>1, FreshKept DEF Dumping, Worker
  <2>5. RootHeld(i)' <=> RootHeld(i)
    BY <1>3 DEF RootHeld, FlushJobs, HardLink, EndDir, Stop, Join, JobMax, vars, Scanning
  <2> QED
    BY <1>2, <2>1, <2>2, <2>3, <2>4, <2>5
<1>4. CASE HandleFails
  <2>1. PICK h \in Inodes : h = Here
    BY <1>4, FailsEffect
  <2>2. /\ ~Visited(h) /\ h \in failing /\ Head(dumpdir) \in Dirs
        /\ kids' = kids /\ failing' = failing /\ bh' = bh /\ inl' = inl /\ dents' = dents
        /\ err' = err /\ i_count' = i_count /\ freed' = freed /\ mpc' = mpc
        /\ parent' = [parent EXCEPT ![h] = Head(dumpdir)]
    BY <1>4, <2>1, FailsEffect
  <2>3. \A e : Open(e)' <=> Open(e)
    BY <2>2, MeetEffect
  <2>4. \A d \in Dirs : Open(d) => parent'[d] = parent[d]
    BY <2>2, <1>t, DirsInodes DEF Open, Read
  <2>5. Named(i)' = Named(i)
    BY <2>2, <2>3, <2>4, NamedKept
  <2>6. Dumping(i)' <=> Dumping(i)
    BY <1>4, <1>o, <2>3, FreshKept DEF Dumping
  <2>7. RootHeld(i)' <=> RootHeld(i)
    BY <2>2 DEF RootHeld
  <2> QED
    BY <1>2, <2>2, <2>5, <2>6, <2>7
<1>5. CASE HandleRoot /\ Root \in failing
  <2>1. /\ kids' = kids /\ bh' = bh /\ inl' = inl /\ i_count' = i_count /\ freed' = freed
        /\ mpc = "root" /\ mpc' = "stop" /\ \A j \in Inodes : parent[j] = NULL
    BY <1>5 DEF HandleRoot, BuildInv, MainInv
  <2>2. \A e : ~Open(e)
    BY <2>1, DirsInodes DEF Open, Read, Visited
  <2>3. \A e : Open(e)' <=> Open(e)
    BY <1>5, QuietEffect
  <2>4. Named(i)' = Named(i)
    BY <2>1, <2>2, <2>3, NamedKept
  <2>5. Dumping(i)' <=> Dumping(i)
    BY <2>2, <2>3 DEF Dumping
  <2>6. RootHeld(i)' <=> RootHeld(i)
    BY <2>1 DEF RootHeld
  <2> QED
    BY <1>2, <2>1, <2>4, <2>5, <2>6
<1>6. CASE Go
  <2>1. /\ kids' = kids /\ freed' = freed /\ parent' = parent /\ bh' = bh /\ inl' = inl
        /\ \A d : Open(d)' <=> Open(d)
    BY <1>6, TreeStepsKeep DEF TreeSteps
  <2>2. Named(i)' = Named(i)
    BY <2>1, NamedKept
  <2>3. RootHeld(i)' <=> RootHeld(i)
    <3>1. out # NULL /\ err' = err /\ mpc # "done" /\ mpc' # "done"
      BY <1>6 DEF Go, BuildInv, MainInv
    <3> QED
      BY <3>1 DEF RootHeld
  <2>4. \A e \in Dirs : ~Fresh(e)'
    <3>1. \A e \in Dirs : Job("DIR", e) # NULL
      BY JobFacts, DirsInodes
    <3> QED
      BY <1>6, <3>1 DEF Go, Fresh
  <2>5. Dumping(i)' <=> Open(i)
    BY <2>1, <2>4, <1>o DEF Dumping
  <2>6. \A e : Fresh(e) => mpc = "scan" /\ out.type = "DIR" /\ out.inode = e
    BY DEF Fresh, Job
  <2>7. CASE ~(mpc = "scan" /\ out.type = "DIR")
    <3>1. i_count' = i_count
      BY <1>6, <2>7 DEF Go
    <3>2. Dumping(i)' <=> Dumping(i)
      BY <2>5, <2>6, <2>7 DEF Dumping
    <3> QED
      BY <1>2, <2>1, <2>2, <2>3, <3>1, <3>2
  <2>8. CASE mpc = "scan" /\ out.type = "DIR"
    <3>1. i_count' = [i_count EXCEPT ![out.inode] = @ + 1] /\ out # NULL
      BY <1>6, <2>8 DEF Go
    <3>2. CASE i # out.inode
      <4>1. i_count'[i] = i_count[i]
        BY <3>1, <3>2, <1>t
      <4>2. Dumping(i)' <=> Dumping(i)
        BY <2>5, <2>6, <3>2 DEF Dumping
      <4> QED
        BY <1>2, <2>1, <2>2, <2>3, <4>1, <4>2
    <3>3. CASE i = out.inode
      <4>1. Q[Len(Q)] = out /\ Len(Q) \in 1..Len(Q) /\ out \in Jobs
        BY <3>1, <1>t, OutInQ
      <4>2. i \in Dirs
        BY <4>1, <2>8, <3>3 DEF BuildInv, WorkerInv
      <4>3. out = PlaceJob(i) /\ out = Job("DIR", i)
        BY <4>1, <4>2, <2>8, <3>3, JobKnown
      <4>4. Placing(Len(Q), i)
        BY <4>1, <4>3 DEF Placing
      <4>5. Open(i) /\ i \notin freed
        BY <4>1, <4>2, <4>4, PlacingLive DEF BuildInv, PlaceInv, Open, Read
      <4>6. Fresh(i)
        BY <2>8, <4>3 DEF Fresh
      <4>7. One(Dumping(i)') = 1 /\ One(Dumping(i)) = 0
        BY <2>5, <4>5, <4>6 DEF One, Dumping
      <4>8. One(RootHeld(i)') = One(RootHeld(i))
        BY <2>3 DEF One
      <4>9. i_count'[i] = i_count[i] + 1
        BY <3>1, <3>3, <1>t
      <4>10. i \notin freed'
        BY <2>1, <4>5
      <4>11. /\ One(bh[i] # "none") \in Nat /\ One(inl[i] = "write") \in Nat
             /\ One(RootHeld(i)) \in Nat
        BY OneFacts
      <4> QED
        BY <1>1, <2>1, <2>2, <4>7, <4>8, <4>9, <4>10, <4>11
    <3> QED
      BY <3>2, <3>3
  <2> QED
    BY <2>7, <2>8
(* What is left of a step that keeps the reference of erofs_mkfs_build_tree. *)
<1>n. /\ One(Dumping(i)) \in Nat /\ One(bh[i] # "none") \in Nat
      /\ One(inl[i] = "write") \in Nat /\ One(RootHeld(i)) \in Nat
  BY OneFacts
<1>7. CASE HandleRoot /\ Root \notin failing
  <2>1. /\ mpc = "root" /\ mpc' = "flush" /\ kids' = kids /\ bh' = bh /\ inl' = inl
        /\ ReadDir(Root, Root, 1) /\ freed' = {} /\ parent'[Root] = Root
        /\ (\A e : ~Read(e)) /\ (\A e : Open(e)' <=> e = Root)
        /\ (\A j \in Inodes : ~Visited(j)) /\ (\A j \in Inodes : j # Root => parent'[j] = NULL)
    BY <1>7, RootEffect
  <2>2. \A e : ~Open(e)
    BY <2>1 DEF Open
  <2>3. \A e \in Dirs : e # Root => parent'[e] = parent[e]
    BY <2>1, DirsInodes DEF Visited
  <2>4. \A e : Open(e)' <=> Open(e) \/ e = Root
    BY <2>1, <2>2
  <2>5. /\ IsFiniteSet(Named(i)') /\ Cardinality(Naming(i, Root)) \in Nat
        /\ Cardinality(Named(i)') = Cardinality(Named(i))
              + Cardinality(Naming(i, Root)) + DotRefs(i, Root, Root)
    BY <2>1, <2>2, <2>3, <2>4, NamedRead, DirsInodes
  <2>6. i_count'[i] = i_count[i] + Cardinality(Naming(i, Root)) + DotRefs(i, Root, Root)
                        + (IF i = Root THEN 1 ELSE 0)
    BY <2>1 DEF ReadDir, Naming
  <2>7. One(Dumping(i)) = 0 /\ One(Dumping(i)') = (IF i = Root THEN 1 ELSE 0)
    <3>1. Dumping(i)' <=> i = Root
      BY <2>1 DEF Dumping, Fresh
    <3> QED
      BY <3>1, <2>2 DEF One, Dumping
  <2>8. One(RootHeld(i)') = One(RootHeld(i))
    BY <2>1 DEF One, RootHeld
  <2>9. DotRefs(i, Root, Root) \in Nat
    BY DEF DotRefs
  <2>10. i \notin freed'
    BY <2>1
  <2> QED
    BY <1>1, <1>n, <2>1, <2>5, <2>6, <2>7, <2>8, <2>9, <2>10
<1>8. CASE HandleNew
  <2>1. PICK h \in Inodes : h = Here
    BY <1>8, NewEffect
  <2>2. PICK p \in Dirs : p = Head(dumpdir)
    BY <1>8, NewEffect
  <2>3. /\ mpc = "scan" /\ mpc' = "scan" /\ out = NULL /\ out' = PlaceJob(h) /\ err' = err
        /\ kids' = kids /\ bh' = bh /\ inl' = inl /\ ~Visited(h)
        /\ (h \in Dirs => ReadDir(h, p, 0))
        /\ (h \notin Dirs => i_count' = i_count /\ freed' = freed)
    BY <1>8, <2>1, <2>2, NewEffect
  <2>4. /\ parent'[h] = p /\ freed' \subseteq freed
        /\ (\A j \in Dirs : j # h => parent'[j] = parent[j])
        /\ (\A e : Open(e)' <=> Open(e) \/ (e = h /\ h \in Dirs))
    BY <1>8, <2>1, <2>2, NewTree
  <2>5. h \notin freed /\ Open(p)
    BY <1>8, <2>1, <2>2, <2>3, ScanFacts, NewEffect
  <2>6. RootHeld(i)' <=> RootHeld(i)
    BY <2>3 DEF RootHeld
  <2>7. ~Open(h)
    BY <2>3 DEF Open, Read
  <2>8. Dumping(i)' <=> Dumping(i)
    <3>1. \A e \in Dirs : ~Fresh(e)
      BY <2>3, JobFacts, DirsInodes DEF Fresh
    <3>2. \A e \in Dirs : Fresh(e)' <=> e = h
      BY <2>3, JobFacts, DirsInodes DEF Fresh
    <3> QED
      BY <3>1, <3>2, <2>4, <2>7, <1>o DEF Dumping
  <2>9. CASE h \notin Dirs
    <3>1. \A d : Open(d)' <=> Open(d)
      BY <2>4, <2>9
    <3>2. \A d \in Dirs : Open(d) => parent'[d] = parent[d]
      BY <2>4, <2>9
    <3>3. Named(i)' = Named(i)
      BY <2>3, <3>1, <3>2, NamedKept
    <3> QED
      BY <1>2, <2>3, <2>6, <2>8, <2>9, <3>3
  <2>10. CASE h \in Dirs
    <3>1. /\ IsFiniteSet(Named(i)') /\ Cardinality(Naming(i, h)) \in Nat
          /\ Cardinality(Named(i)') = Cardinality(Named(i))
                + Cardinality(Naming(i, h)) + DotRefs(i, h, p)
      BY <2>3, <2>4, <2>7, <2>10, NamedRead
    <3>2. i_count'[i] = i_count[i] + Cardinality(Naming(i, h)) + DotRefs(i, h, p)
                          + (IF i = h THEN 0 ELSE 0)
      BY <2>3, <2>10 DEF ReadDir, Naming
    <3>3. One(Dumping(i)') = One(Dumping(i)) /\ One(RootHeld(i)') = One(RootHeld(i))
      BY <2>6, <2>8 DEF One
    <3>4. DotRefs(i, h, p) \in Nat
      BY DEF DotRefs
    <3>5. ASSUME i \in freed'
          PROVE  i_count'[i] = 0
      <4>1. i \in freed /\ i # h /\ i # p
        BY <3>5, <2>4, <2>5, OpenLive DEF BuildInv
      <4>2. DotRefs(i, h, p) = 0
        BY <4>1 DEF DotRefs
      <4>3. Naming(i, h) = {}
        BY <3>5, <2>3, <2>10 DEF ReadDir, Naming
      <4>4. Cardinality(Naming(i, h)) = 0
        BY <4>3, FS_EmptySet
      <4> QED
        BY <1>1, <3>2, <4>1, <4>2, <4>4
    <3> QED
      BY <1>1, <1>n, <2>3, <3>1, <3>2, <3>3, <3>4, <3>5
  <2> QED
    BY <2>9, <2>10
<1>9. CASE JobNdir \/ JobDir
  <2>1. /\ kids' = kids /\ freed' = freed /\ parent' = parent /\ failing' = failing
        /\ dents' = dents /\ mpc' = mpc /\ err' = err
    BY <1>9, PlaceEffect
  <2>2. PICK j \in Inodes, o \in {"skip", "write"} : \E q \in {"none", o} :
              /\ Placing(1, j) /\ 1 \in 1..Len(Q)
              /\ bh' = [bh EXCEPT ![j] = o] /\ inl' = [inl EXCEPT ![j] = q]
              /\ i_count' = [i_count EXCEPT ![j] = @ + 1 + One(q = "write")]
    BY <1>9, PlaceEffect
  <2>3. PICK q \in {"none", o} :
              /\ Placing(1, j) /\ 1 \in 1..Len(Q)
              /\ bh' = [bh EXCEPT ![j] = o] /\ inl' = [inl EXCEPT ![j] = q]
              /\ i_count' = [i_count EXCEPT ![j] = @ + 1 + One(q = "write")]
    BY <2>2
  <2>4. \A d : Open(d)' <=> Open(d)
    BY <2>1, TreeKept
  <2>5. Named(i)' = Named(i)
    BY <2>1, <2>4, NamedKept
  <2>6. Dumping(i)' <=> Dumping(i)
    BY <1>9, <1>o, <2>4, FreshKept DEF Dumping, Worker
  <2>7. RootHeld(i)' <=> RootHeld(i)
    BY <2>1 DEF RootHeld
  <2>8. CASE i # j
    <3>1. bh'[i] = bh[i] /\ inl'[i] = inl[i] /\ i_count'[i] = i_count[i]
      BY <2>3, <2>8, <1>t
    <3> QED
      BY <1>2, <2>1, <2>5, <2>6, <2>7, <3>1
  <2>9. CASE i = j
    <3>1. bh[i] = "none" /\ inl[i] = "none"
      BY <2>3, <2>9 DEF BuildInv, PlaceInv, BufferInv
    <3>2. bh'[i] = o /\ inl'[i] = q /\ i_count'[i] = i_count[i] + 1 + One(q = "write")
      BY <2>3, <2>9, <1>t
    <3>3. i \notin freed'
      BY <2>1, <2>3, <2>9, PlacingLive DEF BuildInv
    <3>4. One(Dumping(i)') = One(Dumping(i)) /\ One(RootHeld(i)') = One(RootHeld(i))
      BY <2>6, <2>7 DEF One
    <3>5. /\ One(bh[i] # "none") = 0 /\ One(inl[i] = "write") = 0
          /\ One(bh'[i] # "none") = 1 /\ One(inl'[i] = "write") = One(q = "write")
      BY <3>1, <3>2 DEF One
    <3>6. One(q = "write") \in Nat
      BY OneFacts
    <3> QED
      BY <1>1, <1>n, <2>5, <3>2, <3>3, <3>4, <3>5, <3>6
  <2> QED
    BY <2>8, <2>9
(* Steps that drop references. *)
<1>f. ASSUME NEW b \in Nat, i_count'[i] = i_count[i] - b, i_count'[i] \in Nat,
             i \in freed' => i \in freed \/ (b > 0 /\ i_count[i] - b <= 0)
      PROVE  i \in freed' => i_count'[i] = 0
  BY <1>f, <1>1
<1>10. CASE JobDirBh
  <2>1. /\ kids' = kids /\ parent' = parent /\ mpc' = mpc /\ err' = err
    BY <1>10, WriteEffect
  <2>2. PICK d \in Dirs :
              /\ d = Subject /\ Open(d) /\ bh[d] # "none" /\ d \in Inodes
              /\ bh' = [bh EXCEPT ![d] = "write"]
              /\ inl' = [inl EXCEPT ![d] = IF @ = "skip" THEN "write" ELSE @]
              /\ \A e : Open(e)' <=> Open(e) /\ e # d
    BY <1>10, WriteEffect
  <2> DEFINE b == Occurs(i, d, Entries(d)) + (IF i = d THEN DumpRef ELSE 0)
                    - (IF i = d /\ inl[i] = "skip" THEN 1 ELSE 0)
  <2>3. /\ i_count'[i] = i_count[i] - b
        /\ i \in freed' => i \in freed \/ (b > 0 /\ i_count[i] - b <= 0)
    BY <1>10, <2>2 DEF JobDirBh, Iput
  <2>4. /\ IsFiniteSet(Named(i)') /\ Cardinality(Named(i)') \in Nat
        /\ Occurs(i, d, Entries(d)) \in Nat
        /\ Cardinality(Named(i)) = Cardinality(Named(i)') + Occurs(i, d, Entries(d))
    BY <2>1, <2>2, NamedWritten
  <2>5. ~Fresh(d)
    <3>1. ASSUME Fresh(d)
          PROVE  FALSE
      <4>1. out = PlaceJob(d) /\ out # NULL
        BY <3>1, <2>2, JobFacts DEF Fresh
      <4>2. Len(Q) \in 1..Len(Q) /\ Placing(Len(Q), d)
        BY <4>1, <1>t, OutInQ DEF Placing
      <4> QED
        BY <4>2, <2>2 DEF BuildInv, PlaceInv
    <3> QED
      BY <3>1
  <2>6. Dumping(i)' <=> Dumping(i) /\ i # d
    BY <1>10, <1>o, <2>2, FreshKept DEF Dumping, Worker
  <2>7. Dumping(d)
    BY <2>2, <2>5 DEF Dumping
  <2>8. One(Dumping(i)) = One(Dumping(i)') + (IF i = d THEN DumpRef ELSE 0)
    BY <2>6, <2>7 DEF One, DumpRef
  <2>9. One(bh'[i] # "none") = One(bh[i] # "none")
    BY <2>2, <1>t DEF One
  <2>10. One(inl'[i] = "write") = One(inl[i] = "write") + (IF i = d /\ inl[i] = "skip" THEN 1 ELSE 0)
    BY <2>2, <1>t DEF One
  <2>11. One(RootHeld(i)') = One(RootHeld(i))
    BY <2>1 DEF One, RootHeld
  <2>12. /\ One(Dumping(i)') \in Nat /\ One(inl'[i] = "write") \in Nat
    BY OneFacts
  <2>13. (IF i = d THEN DumpRef ELSE 0) \in Nat
    BY DEF DumpRef
  <2>14. (IF i = d /\ inl[i] = "skip" THEN 1 ELSE 0) \in Nat
    OBVIOUS
  <2>15. b \in Nat
    BY <2>4 DEF DumpRef
  <2>16. /\ i_count'[i] = Cardinality(Named(i)') + One(Dumping(i)') + One(bh'[i] # "none")
                            + One(inl'[i] = "write") + One(RootHeld(i)')
         /\ i_count'[i] \in Nat
    BY <1>1, <1>n, <2>3, <2>4, <2>8, <2>9, <2>10, <2>11, <2>12, <2>13, <2>14
  <2> HIDE DEF b
  <2>17. i \in freed' => i_count'[i] = 0
    BY <1>f, <2>3, <2>15, <2>16
  <2> QED
    BY <2>4, <2>16, <2>17
<1>11. CASE Bflush
  <2>1. kids' = kids /\ parent' = parent /\ mpc = "joined" /\ mpc' = "flushed" /\ err' = err
    BY <1>11 DEF Bflush
  <2>2. \A e : Open(e)' <=> Open(e)
    BY <1>11, QuietEffect
  <2>3. Named(i)' = Named(i)
    BY <2>1, <2>2, NamedKept
  <2> DEFINE b == One(bh[i] = "write") + One(inl[i] = "write")
  <2>4. /\ i_count'[i] = i_count[i] - b
        /\ i \in freed' => i \in freed \/ (b > 0 /\ i_count[i] - b <= 0)
    BY <1>11 DEF Bflush, Iput, One
  <2>5. One(Dumping(i)') = One(Dumping(i))
    BY <1>11, <1>o, <2>2, FreshKept DEF Dumping, One
  <2>6. /\ One(bh[i] # "none") = One(bh'[i] # "none") + One(bh[i] = "write")
        /\ One(inl'[i] = "write") = 0
    BY <1>11 DEF Bflush, One
  <2>7. One(RootHeld(i)') = One(RootHeld(i))
    BY <2>1 DEF One, RootHeld
  <2>8. One(bh[i] = "write") \in Nat /\ One(bh'[i] # "none") \in Nat
    BY OneFacts
  <2>9. /\ b \in Nat
        /\ i_count'[i] = Cardinality(Named(i)') + One(Dumping(i)') + One(bh'[i] # "none")
                            + One(inl'[i] = "write") + One(RootHeld(i)')
        /\ i_count'[i] \in Nat
    BY <1>1, <1>n, <2>3, <2>4, <2>5, <2>6, <2>7, <2>8
  <2> HIDE DEF b
  <2>10. i \in freed' => i_count'[i] = 0
    BY <1>f, <2>4, <2>9
  <2> QED
    BY <1>1, <2>3, <2>9, <2>10
<1>12. CASE RootPut
  <2>1. /\ kids' = kids /\ parent' = parent /\ mpc = "flushed" /\ mpc' = "done" /\ err' = err
        /\ bh' = bh /\ inl' = inl /\ ~err
    BY <1>12 DEF RootPut, BuildInv, MainInv
  <2>2. \A e : Open(e)' <=> Open(e)
    BY <1>12, QuietEffect
  <2>3. Named(i)' = Named(i)
    BY <2>1, <2>2, NamedKept
  <2> DEFINE b == One(i = Root)
  <2>4. /\ i_count'[i] = i_count[i] - b
        /\ i \in freed' => i \in freed \/ (b > 0 /\ i_count[i] - b <= 0)
    BY <1>12 DEF RootPut, Iput, One
  <2>5. One(Dumping(i)') = One(Dumping(i))
    BY <1>12, <1>o, <2>2, FreshKept DEF Dumping, One
  <2>6. One(RootHeld(i)') = 0 /\ One(RootHeld(i)) = b
    BY <2>1 DEF One, RootHeld
  <2>7. b \in Nat
    BY OneFacts
  <2>8. /\ i_count'[i] = Cardinality(Named(i)') + One(Dumping(i)') + One(bh'[i] # "none")
                            + One(inl'[i] = "write") + One(RootHeld(i)')
        /\ i_count'[i] \in Nat
    BY <1>1, <1>n, <2>1, <2>3, <2>4, <2>5, <2>6, <2>7
  <2> HIDE DEF b
  <2>9. i \in freed' => i_count'[i] = 0
    BY <1>f, <2>4, <2>7, <2>8
  <2> QED
    BY <1>1, <2>3, <2>8, <2>9
<1>13. HandleRoot => (HandleRoot /\ Root \in failing) \/ (HandleRoot /\ Root \notin failing)
  OBVIOUS
<1> QED
  BY <1>3, <1>4, <1>5, <1>6, <1>7, <1>8, <1>9, <1>10, <1>11, <1>12, <1>13 DEF Next, Main, Worker
-----------------------------------------------------------------------------
(* Builds in which nothing fails. *)

(* Everything the directory at the head of the ring names is placed. *)
LEMMA AllPlaced ==
  ASSUME BuildInv, failing = {}, NEW d \in Dirs, Writing(1, d), 1 \in 1..Len(Q)
  PROVE  \A k \in Entries(d) : bh[Target(d, k)] # "none"
<1>1. kids \in Trees
  BY DEF BuildInv, TypeInv
<1>2. /\ PlacedBy(d, 1) /\ PlacedBy(parent[d], 1)
      /\ \A k \in 1..Len(kids[d]) : PlacedBy(kids[d][k], 1)
  BY DEF BuildInv, WriteInv
<1>3. \A i : PlacedBy(i, 1) => bh[i] # "none"
  BY DEF PlacedBy
<1>4. TAKE k \in Entries(d)
<1>5. k \in {0, -1} \/ k \in 1..Len(kids[d])
  BY <1>1, TreeFacts
<1> QED
  BY <1>1, <1>2, <1>3, <1>5, TargetFacts

(* The source tree and what fails in it are fixed. *)
LEMMA FailingKept ==
  ASSUME [Next]_vars
  PROVE  failing' = failing /\ kids' = kids
BY DEF Next, Main, Worker, HandleRoot, Go, FlushJobs, HandleNew, HandleFails, HardLink, EndDir,
       Stop, Join, Bflush, RootPut, JobNdir, JobDir, JobDirBh, JobMax, vars, tree

(* An inode that was met stays so, until it is freed. *)
LEMMA VisitedGrows ==
  ASSUME BuildInv, [Next]_vars, failing = {}, NEW i \in Inodes, Visited(i)
  PROVE  Visited(i)'
<1>1. CASE HandleRoot
  BY <1>1, RootEffect
<1>2. CASE HandleNew
  <2>1. PICK h : h = Here
    OBVIOUS
  <2>2. freed = {}
    BY <1>2, NewEffect DEF BuildInv, HandledInv
  <2>3. /\ Visited(h)'
        /\ \A j \in Inodes : j # h => parent'[j] = IF j \in freed /\ j \notin freed'
                                                    THEN NULL ELSE parent[j]
    BY <1>2, <2>1, NewTree
  <2> QED
    BY <2>2, <2>3 DEF Visited
<1>3. CASE HandleFails
  BY <1>3, FailsEffect
<1>4. CASE Go \/ FlushJobs \/ HardLink \/ EndDir \/ Stop \/ Join
  BY <1>4, TreeStepsKeep DEF TreeSteps
<1>5. CASE Bflush \/ RootPut \/ UNCHANGED vars
  BY <1>5 DEF Bflush, RootPut, vars, Visited
<1>6. CASE Worker
  BY <1>6, WorkerEffect
<1> QED
  BY <1>1, <1>2, <1>3, <1>4, <1>5, <1>6 DEF Next, Main

(* What a step does to the place in the directory being scanned. *)
LEMMA ScanMoves ==
  ASSUME BuildInv, [Next]_vars, failing = {}, mpc' = "scan"
  PROVE  \/ idx' = 1
         \/ /\ mpc = "scan" /\ dumpdir' = dumpdir
            /\ \/ idx' = idx
               \/ idx' = idx + 1 /\ Visited(Here)
               \/ \E h \in Inodes : idx' = idx + 1 /\ h = Here /\ Visited(h)'
<1>1. CASE HandleRoot \/ FlushJobs
  BY <1>1 DEF HandleRoot, FlushJobs, BuildInv, MainInv
<1>2. CASE HandleNew
  <2>1. PICK h : h = Here
    OBVIOUS
  <2> QED
    BY <1>2, <2>1, NewEffect, NewTree
<1>3. CASE HandleFails
  BY <1>3, FailsEffect
<1>4. CASE HardLink
  BY <1>4 DEF HardLink, Scanning
<1>5. CASE Go
  BY <1>5 DEF Go, BuildInv, MainInv
<1>6. CASE EndDir \/ Stop \/ Join \/ Bflush \/ RootPut
  BY <1>6 DEF EndDir, Stop, Join, Bflush, RootPut
<1>7. CASE Worker
  BY <1>7, WorkerEffect
<1>8. CASE UNCHANGED vars
  BY <1>8 DEF vars
<1> QED
  BY <1>1, <1>2, <1>3, <1>4, <1>5, <1>6, <1>7, <1>8 DEF Next, Main

(* A directory is sent to be written, or was written, only in EndDir. *)
LEMMA SentMoves ==
  ASSUME BuildInv, [Next]_vars, failing = {}, NEW d \in Dirs, dents'[d][0] # "open" \/ Sent(d)'
  PROVE  dents[d][0] # "open" \/ Sent(d) \/ (EndDir /\ d = Head(dumpdir))
<1>t. TypeInv
  BY DEF BuildInv
<1>1. CASE HandleRoot
  <2>1. /\ dents' = dents /\ out = NULL /\ out' = PlaceJob(Root) /\ jobs' = jobs
        /\ PlaceJob(Root) \in Jobs /\ PlaceJob(Root) # NULL
    BY <1>1, RootEffect
  <2>2. PlaceJob(Root) # Job("DIR_BH", d)
    BY JobFacts, DirsInodes
  <2> QED
    BY <2>1, <2>2, <1>t, SentSend
<1>2. CASE HandleNew
  <2>1. PICK h \in Inodes : h = Here
    BY <1>2, NewEffect
  <2>2. /\ dents' = dents /\ out = NULL /\ out' = PlaceJob(h) /\ jobs' = jobs
        /\ PlaceJob(h) \in Jobs /\ PlaceJob(h) # NULL
    BY <1>2, <2>1, NewEffect
  <2>3. PlaceJob(h) # Job("DIR_BH", d)
    BY JobFacts
  <2> QED
    BY <2>2, <2>3, <1>t, SentSend
<1>3. CASE HandleFails
  BY <1>3, FailsEffect
<1>4. CASE Go
  <2>1. dents' = dents /\ Q' = Q
    BY <1>4, <1>t, QGo DEF Go
  <2> QED
    BY <2>1 DEF Sent, Writing
<1>5. CASE EndDir
  <2>1. dents' = dents /\ out = NULL /\ out' = Job("DIR_BH", Head(dumpdir)) /\ jobs' = jobs
    BY <1>5 DEF EndDir, tree
  <2>2. PICK p \in Dirs : p = Head(dumpdir)
    BY <1>5, ScanFacts DEF EndDir
  <2>3. Job("DIR_BH", p) \in Jobs /\ Job("DIR_BH", p) # NULL
    BY JobFacts
  <2>4. Sent(d)' => Sent(d) \/ Job("DIR_BH", p) = Job("DIR_BH", d)
    BY <2>1, <2>2, <2>3, <1>t, SentSend
  <2> QED
    BY <1>5, <2>1, <2>2, <2>4, JobFacts
<1>6. CASE Stop
  <2>1. /\ dents' = dents /\ out = NULL /\ out' = Job("MAX", NULL) /\ jobs' = jobs
        /\ Job("MAX", NULL) \in Jobs /\ Job("MAX", NULL) # NULL /\ Job("MAX", NULL) # Job("DIR_BH", d)
    BY <1>6, JobFacts DEF Stop, tree
  <2> QED
    BY <2>1, <1>t, SentSend
<1>7. CASE FlushJobs \/ HardLink \/ Join \/ Bflush \/ RootPut \/ UNCHANGED vars
  <2>1. dents' = dents /\ Q' = Q
    BY <1>7, QuietEffect
  <2> QED
    BY <2>1 DEF Sent, Writing
<1>8. CASE Worker
  <2>1. Sent(d)' => Sent(d)
    BY <1>8, SentTake
  <2>2. CASE JobDirBh
    BY <2>1, <2>2, WriteEffect DEF Sent
  <2>3. CASE JobNdir \/ JobDir \/ JobMax
    BY <2>1, <2>3 DEF JobNdir, JobDir, JobMax, tree
  <2> QED
    BY <1>8, <2>2, <2>3 DEF Worker
<1> QED
  BY <1>1, <1>2, <1>3, <1>4, <1>5, <1>6, <1>7, <1>8 DEF Next, Main

(* Every step keeps HandledInv. *)
LEMMA HandledStep == BuildInv /\ [Next]_vars /\ CountInv' => HandledInv'
<1> SUFFICES ASSUME BuildInv, [Next]_vars, CountInv', failing' = {}
             PROVE  /\ mpc' = "scan" => \A k \in 1..Len(kids'[Head(dumpdir')]) :
                         k < idx' => Visited(kids[Head(dumpdir)][k])'
                    /\ \A d \in Dirs : dents'[d][0] # "open" \/ Sent(d)' =>
                         \A k \in 1..Len(kids'[d]) : Visited(kids[d][k])'
                    /\ mpc' \notin {"flushed", "done"} => freed' = {}
                    /\ EntriesPlaced'
  BY DEF HandledInv, Sent
<1>1. failing = {} /\ kids' = kids
  BY FailingKept
<1>2. /\ mpc = "scan" => \A k \in 1..Len(kids[Head(dumpdir)]) :
         k < idx => Visited(kids[Head(dumpdir)][k])
      /\ \A d \in Dirs : dents[d][0] # "open" \/ Sent(d) =>
           \A k \in 1..Len(kids[d]) : Visited(kids[d][k])
      /\ mpc \notin {"flushed", "done"} => freed = {}
      /\ EntriesPlaced
  BY <1>1 DEF BuildInv, HandledInv, Sent
<1>3. \A i \in Inodes : Visited(i) => Visited(i)'
  BY <1>1, VisitedGrows
<1>4. \A d \in Dirs : \A k \in 1..Len(kids[d]) : kids[d][k] \in Inodes
  BY TreeFacts DEF BuildInv, TypeInv
<1>5. ASSUME mpc' = "scan", NEW p \in Dirs, p = Head(dumpdir'),
             NEW k \in 1..Len(kids[p]), k < idx'
      PROVE  Visited(kids[p][k])'
  <2>1. k \in Nat /\ k >= 1 /\ idx \in Nat
    BY DEF BuildInv, TypeInv
  <2>2. idx' # 1
    BY <2>1, <1>5
  <2>3. mpc = "scan" /\ p = Head(dumpdir)
    BY <1>1, <1>5, <2>2, ScanMoves
  <2>4. \/ k < idx
        \/ k = idx /\ Visited(Here)
        \/ k = idx /\ \E h \in Inodes : h = Here /\ Visited(h)'
    BY <1>1, <1>5, <2>1, <2>2, ScanMoves
  <2>5. k < idx => Visited(kids[p][k])
    BY <1>2, <2>3
  <2>6. k = idx => kids[p][k] = Here
    BY <2>3 DEF Here
  <2> QED
    BY <1>1, <1>3, <1>4, <2>4, <2>5, <2>6
<1>6. ASSUME NEW d \in Dirs, dents'[d][0] # "open" \/ Sent(d)', NEW k \in 1..Len(kids[d])
      PROVE  Visited(kids[d][k])'
  <2>1. dents[d][0] # "open" \/ Sent(d) \/ (EndDir /\ d = Head(dumpdir))
    BY <1>1, <1>6, SentMoves
  <2>2. Visited(kids[d][k])
    <3>1. CASE dents[d][0] # "open" \/ Sent(d)
      BY <1>2, <3>1
    <3>2. CASE EndDir /\ d = Head(dumpdir)
      <4>1. mpc = "scan" /\ idx > Len(kids[d]) /\ idx \in Nat /\ Len(kids[d]) \in Nat
        BY <3>2, TreeFacts DEF EndDir, BuildInv, TypeInv
      <4> QED
        BY <1>2, <3>2, <4>1
    <3> QED
      BY <2>1, <3>1, <3>2
  <2>3. PICK i \in Inodes : i = kids[d][k]
    BY <1>4
  <2> QED
    BY <1>1, <1>3, <2>2, <2>3
(* The worker writes a directory. *)
<1>7. ASSUME JobDirBh
      PROVE  EntriesPlaced' /\ (mpc' \notin {"flushed", "done"} => freed' = {})
  <2>1. PICK d \in Dirs :
              /\ d = Subject /\ Writing(1, d) /\ 1 \in 1..Len(Q) /\ d \in Inodes
              /\ bh' = [bh EXCEPT ![d] = "write"]
              /\ \A e \in Dirs : e # d => dents'[e] = dents[e]
              /\ \A k \in Entries(d) : dents'[d][k] = LookupNid(Target(d, k))
              /\ DOMAIN dents'[d] = Entries(d)
    BY <1>7, WriteEffect
  <2>2. \A k \in Entries(d) : bh[Target(d, k)] # "none"
    BY <1>1, <2>1, AllPlaced
  <2>3. EntriesPlaced'
    BY <1>2, <2>1, <2>2 DEF EntriesPlaced, LookupNid
  <2>4. ASSUME NEW i \in Inodes, i \in freed', i \notin freed
        PROVE  FALSE
    <3>1. PICK k \in Entries(d) : Target(d, k) = i
      BY <1>7, <2>1, <2>4, WriteFrees
    <3>2. bh'[i] # "none"
      <4>1. bh[i] # "none" /\ DOMAIN bh = Inodes
        BY <2>2, <3>1 DEF BuildInv, TypeInv
      <4> QED
        BY <2>1, <2>4, <4>1
    <3>3. /\ IsFiniteSet(Named(i)') /\ i_count'[i] = 0
          /\ i_count'[i] = Cardinality(Named(i)') + One(Dumping(i)') + One(bh'[i] # "none")
                            + One(inl'[i] = "write") + One(RootHeld(i)')
      BY <2>4 DEF CountInv
    <3>4. Cardinality(Named(i)') \in Nat
      BY <3>3, FS_CardinalityType
    <3>5. /\ One(Dumping(i)') \in Nat /\ One(bh'[i] # "none") = 1
          /\ One(inl'[i] = "write") \in Nat /\ One(RootHeld(i)') \in Nat
      BY <3>2, OneFacts
    <3> QED
      BY <3>3, <3>4, <3>5
  <2>5. freed' \subseteq Inodes
    BY TypeStep DEF TypeInv
  <2>6. mpc' = mpc
    BY <1>7, WriteEffect
  <2>7. mpc' \notin {"flushed", "done"} => freed' = {}
    BY <1>2, <2>4, <2>5, <2>6
  <2> QED
    BY <2>3, <2>7
<1>8. ASSUME ~JobDirBh
      PROVE  EntriesPlaced' /\ (mpc' \notin {"flushed", "done"} => freed' = {})
  <2>1. dents' = dents
    BY <1>8 DEF Next, Main, Worker, HandleRoot, Go, FlushJobs, HandleNew, HandleFails, HardLink,
                EndDir, Stop, Join, Bflush, RootPut, JobNdir, JobDir, JobMax, vars, tree
  <2>2. EntriesPlaced'
    BY <1>2, <2>1 DEF EntriesPlaced
  <2>3. (mpc' \notin {"flushed", "done"} => freed' \subseteq freed /\ mpc \notin {"flushed", "done"})
    <3>1. CASE HandleRoot \/ HandleNew
      BY <3>1 DEF HandleRoot, HandleNew, ReadDir, Scanning
    <3>2. CASE Go \/ FlushJobs \/ HandleFails \/ HardLink \/ EndDir \/ Stop \/ Join
      BY <3>2 DEF Go, FlushJobs, HandleFails, HardLink, EndDir, Stop, Join, Scanning, tree,
                  BuildInv, MainInv
    <3>3. CASE Bflush \/ RootPut
      BY <3>3 DEF Bflush, RootPut
    <3>4. CASE JobNdir \/ JobDir \/ JobMax \/ UNCHANGED vars
      BY <3>4 DEF JobNdir, JobDir, JobMax, vars, tree
    <3> QED
      BY <1>8, <3>1, <3>2, <3>3, <3>4 DEF Next, Main, Worker
  <2> QED
    BY <1>2, <2>2, <2>3
<1>9. mpc' = "scan" => Head(dumpdir') \in Dirs
  <2>1. TypeInv' /\ MainInv'
    BY TypeStep, MainStep
  <2> QED
    BY <2>1 DEF TypeInv, MainInv
<1>10. mpc' = "scan" => \A k \in 1..Len(kids'[Head(dumpdir')]) :
                          k < idx' => Visited(kids[Head(dumpdir)][k])'
  BY <1>1, <1>5, <1>9 DEF Visited
<1>11. \A d \in Dirs : dents'[d][0] # "open" \/ Sent(d)' =>
         \A k \in 1..Len(kids'[d]) : Visited(kids[d][k])'
  BY <1>1, <1>6
<1> QED
  BY <1>7, <1>8, <1>10, <1>11

(* Every step keeps FlushInv. *)
LEMMA FlushStep == BuildInv /\ [Next]_vars => FlushInv'
<1> SUFFICES ASSUME BuildInv, [Next]_vars, mpc' \in {"flushed", "done"}, ~err', NEW i \in Inodes
             PROVE  bh'[i] # "write"
  BY DEF FlushInv
<1>1. CASE Bflush
  BY <1>1 DEF Bflush
<1>2. CASE Worker
  BY <1>2, WorkerEffect DEF BuildInv, WorkerInv
<1>3. CASE HandleRoot \/ Go \/ FlushJobs \/ HandleNew \/ HandleFails \/ HardLink
             \/ EndDir \/ Stop
  BY <1>3 DEF HandleRoot, Go, FlushJobs, HandleNew, HandleFails, HardLink, EndDir, Stop,
              Scanning, BuildInv, MainInv
<1>4. CASE Join
  BY <1>4 DEF Join
<1>5. CASE RootPut \/ UNCHANGED vars
  BY <1>5 DEF RootPut, vars, BuildInv, FlushInv
<1> QED
  BY <1>1, <1>2, <1>3, <1>4, <1>5 DEF Next, Main
-----------------------------------------------------------------------------
(* The invariant. *)
LEMMA BuildInit == Init => BuildInv
<1> SUFFICES ASSUME Init
             PROVE  BuildInv
  OBVIOUS
<1>1. /\ kids \in Trees /\ failing \subseteq Inodes /\ freed = {}
      /\ parent = [i \in Inodes |-> NULL] /\ bh = [i \in Inodes |-> "none"]
      /\ inl = [i \in Inodes |-> "none"]
      /\ dents = [d \in Dirs |-> [k \in Entries(d) |-> "open"]]
      /\ mpc = "root" /\ dumpdir = <<Root>> /\ idx = 1 /\ subs = << >> /\ out = NULL
      /\ err = FALSE /\ jobs = << >> /\ wpc = "run"
      /\ i_count = [i \in Inodes |-> IF i = Root THEN 1 ELSE 0]
  BY MkfsAssumption DEF Init
<1>2. \A i \in Inodes : ~Visited(i)
  BY <1>1 DEF Visited
<1>3. \A e : ~Read(e) /\ ~Open(e)
  BY <1>2, DirsInodes DEF Read, Open
<1>4. Q = << >> /\ Len(Q) = 0
  BY <1>1 DEF Q
<1>5. \A n \in 1..Len(Q) : FALSE
  BY <1>4
<1>6. \A d \in Dirs : dents[d][0] = "open" /\ \A k \in Entries(d) : dents[d][k] = "open"
  BY <1>1, TreeFacts
<1>7. TypeInv
  <2>1. parent \in [Inodes -> Dirs \cup {NULL}] /\ bh \in [Inodes -> {"none", "skip", "write"}]
        /\ inl \in [Inodes -> {"none", "skip", "write"}]
    BY <1>1
  <2>2. DOMAIN dents = Dirs /\ \A d \in Dirs : dents[d] \in [Entries(d) -> {"open", "zero", "nid"}]
    BY <1>1
  <2>3. dumpdir \in Seq(Dirs) /\ subs \in Seq(Dirs) /\ jobs \in Seq(Jobs)
    BY <1>1, DirsInodes
  <2>4. idx \in Nat \ {0} /\ mpc \in MainPC /\ wpc \in {"run", "exited"}
    BY <1>1 DEF MainPC
  <2>5. freed \subseteq Inodes /\ out \in Jobs \cup {NULL} /\ err \in BOOLEAN
    BY <1>1
  <2> QED
    BY <1>1, <2>1, <2>2, <2>3, <2>4, <2>5 DEF TypeInv
<1>8. MainInv /\ RootInv /\ FlushInv
  BY <1>1 DEF MainInv, RootInv, FlushInv
<1>9. WorkerInv
  BY <1>1, <1>5 DEF WorkerInv
<1>10. PlaceInv /\ WriteInv
  BY <1>5 DEF PlaceInv, WriteInv
<1>11. ChainInv
  BY <1>1 DEF ChainInv
<1>12. BufferInv
  BY <1>1, <1>2 DEF BufferInv
<1>13. DirInv
  BY <1>1, <1>2, <1>3, <1>6, DirsInodes DEF DirInv
<1>14. CountInv
  <2> SUFFICES ASSUME NEW i \in Inodes
               PROVE  /\ IsFiniteSet(Named(i))
                      /\ i_count[i] = Cardinality(Named(i)) + One(Dumping(i))
                           + One(bh[i] # "none") + One(inl[i] = "write") + One(RootHeld(i))
    BY <1>1 DEF CountInv
  <2>1. Named(i) = {}
    BY <1>3 DEF Named
  <2>2. IsFiniteSet(Named(i)) /\ Cardinality(Named(i)) = 0
    BY <2>1, FS_EmptySet
  <2>3. /\ One(Dumping(i)) = 0 /\ One(bh[i] # "none") = 0 /\ One(inl[i] = "write") = 0
        /\ One(RootHeld(i)) = i_count[i]
    BY <1>1, <1>3 DEF One, Dumping, RootHeld
  <2>4. i_count[i] \in Nat
    BY <1>1
  <2> QED
    BY <2>2, <2>3, <2>4
<1>15. HandledInv
  <2>1. EntriesPlaced
    BY <1>1, <1>6 DEF EntriesPlaced
  <2> QED
    BY <1>1, <1>5, <1>6, <2>1 DEF HandledInv
<1> QED
  BY <1>7, <1>8, <1>9, <1>10, <1>11, <1>12, <1>13, <1>14, <1>15 DEF BuildInv

(* Every step keeps the invariant. *)
LEMMA BuildStep == BuildInv /\ [Next]_vars => BuildInv'
<1> SUFFICES ASSUME BuildInv, [Next]_vars
             PROVE  BuildInv'
  OBVIOUS
<1>1. TypeInv' /\ MainInv' /\ WorkerInv' /\ PlaceInv' /\ WriteInv' /\ ChainInv'
  BY TypeStep, MainStep, WorkerStep, PlaceStep, WriteStep, ChainStep
<1>2. BufferInv' /\ DirInv' /\ CountInv' /\ RootInv' /\ FlushInv'
  BY BufferStep, DirStep, CountStep, RootStep, FlushStep
<1>3. HandledInv'
  BY <1>2, HandledStep
<1> QED
  BY <1>1, <1>2, <1>3 DEF BuildInv

(* The two threads of the build, the ring between them, the references     *)
(* they hold and the buffers they allocate always agree (BuildInv).        *)
THEOREM BuildInvariant == Spec => []BuildInv
<1>1. Init => BuildInv
  BY BuildInit
<1>2. BuildInv /\ [Next]_vars => BuildInv'
  BY BuildStep
<1> QED
  BY <1>1, <1>2, PTL DEF Spec
-----------------------------------------------------------------------------
(* What follows from it. *)

(* erofs_write_dir_file never writes the nid of an inode that was not      *)
(* placed, when erofs_mkfs_handle_inode fails for none, and                *)
(* erofs_mkfs_dump_tree reads the root nid of a root that was placed.      *)
THEOREM NidsKnown == Spec => []EntriesPlacedIfHandled
<1>1. BuildInv => EntriesPlacedIfHandled
  BY DEF BuildInv, HandledInv, RootInv, EntriesPlacedIfHandled
<1> QED
  BY <1>1, BuildInvariant, PTL

(* Once the worker was joined no directory is left to write. *)
LEMMA NothingOpen ==
  ASSUME BuildInv, mpc \in {"joined", "flushed", "done"}, ~err
  PROVE  \A d : ~Open(d)
<1>1. dumpdir = << >> /\ subs = << >>
  BY DEF BuildInv, MainInv
<1>2. Chain = << >> /\ Len(Chain) = 0
  BY <1>1 DEF Chain
<1>3. Len(Q) = 0
  BY QEmpty
<1>4. \A d : ~Fresh(d)
  BY DEF Fresh
<1>5. \A d : Open(d) => d \in Dirs
  BY DEF Open, Read
<1> QED
  BY <1>2, <1>3, <1>4, <1>5 DEF BuildInv, ChainInv

(* A set of naturals has a least element. *)
LEMMA NatMin ==
  ASSUME NEW T, T \subseteq Nat, T # {}
  PROVE  \E x \in T : \A y \in T : x <= y
<1>1. IsWellFoundedOn(OpToRel(<, Nat), Nat)
  BY NatLessThanWellFounded
<1>2. \E x \in T : \A y \in T : ~ (<<y, x>> \in OpToRel(<, Nat))
  BY <1>1, WFMin
<1>3. \A x, y \in Nat : x < y => <<x, y>> \in OpToRel(<, Nat)
  BY DEF OpToRel
<1>4. \A x \in T : x \in Nat
  OBVIOUS
<1>5. \E x \in T : \A y \in T : ~(y < x)
  BY <1>2, <1>3, <1>4, Zenon
<1> QED
  BY <1>4, <1>5

(* The walk reaches every directory: one it missed, of least depth, would  *)
(* be an entry of a directory that was written, so it was met.             *)
LEMMA AllRead ==
  ASSUME BuildInv, mpc = "joined", failing = {}
  PROVE  \A d \in Dirs : Read(d)
<1>1. kids \in Trees /\ ~err /\ Read(Root)
  BY DEF BuildInv, TypeInv, MainInv
<1>2. IsTree(kids)
  BY <1>1, MkfsAssumption
<1>3. PICK depth \in [Dirs -> 0..Cardinality(Dirs)] :
        \A d, e \in Dirs :
          \A k \in 1..Len(kids[d]) : kids[d][k] = e => depth[e] = depth[d] + 1
  BY <1>2 DEF IsTree
<1>4. \A d \in Dirs : depth[d] \in Nat
  BY <1>3, MkfsAssumption, FS_CardinalityType
<1> DEFINE T == {depth[d] : d \in {e \in Dirs : ~Read(e)}}
<1>5. ASSUME NEW c \in Dirs, ~Read(c)
      PROVE  FALSE
  <2>1. T \subseteq Nat /\ T # {}
    BY <1>4, <1>5
  <2>2. PICK x \in T : \A y \in T : x <= y
    <3> HIDE DEF T
    <3> QED
      BY <2>1, NatMin
  <2>3. PICK d \in Dirs : ~Read(d) /\ depth[d] = x
    BY <2>2
  <2>4. d \in Dirs \ {Root}
    BY <1>1, <2>3
  <2>5. PICK u \in Dirs : \E k \in 1..Len(kids[u]) : kids[u][k] = d
    BY <1>2, <2>4 DEF IsTree
  <2>6. PICK k \in 1..Len(kids[u]) : kids[u][k] = d
    BY <2>5
  <2>7. Read(u)
    <3>1. depth[d] = depth[u] + 1 /\ depth[u] \in Nat
      BY <1>3, <1>4, <2>6
    <3>2. ~(x <= depth[u])
      BY <2>3, <3>1
    <3> QED
      BY <2>2, <3>2
  <2>8. dents[u][0] # "open"
    BY <1>1, <2>7, NothingOpen DEF Open
  <2>9. Visited(d)
    BY <2>6, <2>8 DEF BuildInv, HandledInv
  <2> QED
    BY <2>3, <2>9 DEF Read
<1> QED
  BY <1>5

(* The chain that erofs_mkfs_dump_tree links by hand loses no directory:   *)
(* when the worker is joined after a build in which nothing failed, every  *)
(* directory was written; and no inode gets its buffers twice, however     *)
(* many hard links lead to it.                                             *)
THEOREM NoneLost == Spec => []WrittenOnce
<1>1. ASSUME BuildInv
      PROVE  WrittenOnce
  <2>1. ASSUME mpc = "joined", failing = {}, NEW d \in Dirs
        PROVE  bh[d] = "write"
    <3>1. Read(d) /\ ~err
      BY <1>1, <2>1, AllRead DEF BuildInv, MainInv
    <3>2. dents[d][0] # "open"
      BY <1>1, <2>1, <3>1, NothingOpen DEF Open
    <3> QED
      BY <1>1, <2>1, <3>2 DEF BuildInv, DirInv
  <2>2. PreparedOnce
    <3> SUFFICES ASSUME wpc = "run", jobs # << >>, Head(jobs).type \in {"NDIR", "DIR"}
                 PROVE  bh[Subject] = "none" /\ inl[Subject] = "none"
      BY DEF PreparedOnce
    <3>1. Handling("NDIR") \/ Handling("DIR")
      BY DEF Handling
    <3>2. Subject \in Inodes /\ Placing(1, Subject) /\ 1 \in 1..Len(Q)
      BY <1>1, <3>1, HeadFacts DEF Inodes
    <3> QED
      BY <1>1, <3>2 DEF BuildInv, PlaceInv, BufferInv
  <2> QED
    BY <2>1, <2>2 DEF WrittenOnce
<1> QED
  BY <1>1, BuildInvariant, PTL

(* The reference counts are exact: while the threads run, what a job       *)
(* refers to is live, and when nothing fails no inode is freed, so that    *)
(* the inode hash table needs no lock; after the flush and the last        *)
(* erofs_iput no reference is left, also not to entries given up on an     *)
(* error.                                                                  *)
THEOREM ReferencesExact == Spec => []LifetimesRight
<1>1. ASSUME BuildInv
      PROVE  LifetimesRight
  <2>1. ASSUME wpc = "run"
        PROVE  /\ failing = {} => freed = {}
               /\ \A n \in 1..Len(jobs) : jobs[n].type # "MAX" => i_count[jobs[n].inode] > 0
    <3>1. mpc \notin {"flushed", "done"}
      BY <1>1, <2>1 DEF BuildInv, WorkerInv
    <3>2. failing = {} => freed = {}
      BY <1>1, <3>1 DEF BuildInv, HandledInv
    <3>3. ASSUME NEW n \in 1..Len(jobs), jobs[n].type # "MAX"
          PROVE  i_count[jobs[n].inode] > 0
      <4>1. jobs \in Seq(Jobs) /\ TypeInv
        BY <1>1 DEF BuildInv, TypeInv
      <4>2. n \in 1..Len(Q) /\ Q[n] = jobs[n] /\ jobs[n] \in Jobs
        <5>1. CASE out = NULL
          BY <4>1, <5>1, <3>3 DEF Q
        <5>2. CASE out # NULL
          <6>1. Q = Append(jobs, out)
            BY <5>2 DEF Q
          <6> QED
            BY <4>1, <6>1, <3>3
        <5> QED
          BY <5>1, <5>2
      <4> DEFINE j == jobs[n]
      <4>3. j.type \in {"NDIR", "DIR", "DIR_BH"} /\ j = Job(j.type, j.inode)
        BY <3>3, <4>2, JobKnown DEF JobTypes
      <4>4. /\ j.type = "NDIR" => j.inode \in Files
            /\ j.type \in {"DIR", "DIR_BH"} => j.inode \in Dirs
        BY <1>1, <4>2 DEF BuildInv, WorkerInv
      <4>5. CASE j.type = "DIR_BH"
        <5>1. j.inode \in Dirs /\ Writing(n, j.inode)
          BY <4>2, <4>3, <4>4, <4>5 DEF Writing
        <5>2. Open(j.inode)
          BY <1>1, <4>2, <5>1 DEF BuildInv, WriteInv
        <5> QED
          BY <1>1, <5>1, <5>2, OpenLive DEF BuildInv
      <4>6. CASE j.type \in {"NDIR", "DIR"}
        <5>1. j.inode \in Inodes /\ Placing(n, j.inode)
          BY <4>2, <4>4, <4>6, JobKnown DEF Placing, Inodes
        <5> QED
          BY <1>1, <4>2, <5>1, PlacingLive DEF BuildInv
      <4> QED
        BY <4>3, <4>5, <4>6
    <3> QED
      BY <3>2, <3>3
  <2>2. ASSUME mpc = "done", ~err, NEW i \in Inodes
        PROVE  i_count[i] = 0
    <3>1. \A d : ~Open(d)
      BY <1>1, <2>2, NothingOpen
    <3>2. Named(i) = {}
      BY <3>1 DEF Named
    <3>3. Cardinality(Named(i)) = 0
      BY <3>2, FS_EmptySet
    <3>4. bh[i] = "none" /\ inl[i] = "none"
      <4>1. bh[i] \in {"none", "skip", "write"}
        BY <1>1 DEF BuildInv, TypeInv
      <4>2. bh[i] # "write"
        BY <1>1, <2>2 DEF BuildInv, FlushInv
      <4>3. bh[i] # "skip" /\ inl[i] \in {"none", bh[i]}
        BY <1>1, <3>1 DEF BuildInv, BufferInv
      <4> QED
        BY <4>1, <4>2, <4>3
    <3>5. /\ One(Dumping(i)) = 0 /\ One(bh[i] # "none") = 0 /\ One(inl[i] = "write") = 0
          /\ One(RootHeld(i)) = 0
      BY <2>2, <3>1, <3>4 DEF One, Dumping, RootHeld
    <3>6. i_count[i] = Cardinality(Named(i)) + One(Dumping(i)) + One(bh[i] # "none")
                         + One(inl[i] = "write") + One(RootHeld(i))
      BY <1>1 DEF BuildInv, CountInv
    <3> QED
      BY <3>3, <3>5, <3>6
  <2> QED
    BY <2>1, <2>2 DEF LifetimesRight, NoFreeWhileBuilding
<1> QED
  BY <1>1, BuildInvariant, PTL
=============================================================================
