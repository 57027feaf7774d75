---------------------------- MODULE MCMkfsBuild -----------------------------
(* Instances of MkfsBuild for TLC: trees of the directories 0 (the root)   *)
(* to MaxDir and of the files 10 and 11, with at most MaxEntries entries   *)
(* per directory and MaxFileEntries names of files.  Directories and files *)
(* are named in the order the tree is written down.                        *)
EXTENDS MkfsBuild

CONSTANTS MaxDir, MaxEntries, MaxFileEntries  \* bounds

MCDirs == 0..MaxDir
MCFiles == {10, 11}

(* The entries d may have when up gives the parents of the directories:    *)
(* each directory below d once, in order.                                  *)
EntryLists(d, up) ==
  LET below == {e \in DOMAIN up : up[e] = d} IN
    {s \in UNION {[1..n -> below \cup MCFiles] : n \in 0..MaxEntries} :
       /\ \A e \in below : \E k \in DOMAIN s : s[k] = e
       /\ \A j, k \in DOMAIN s : j < k /\ s[j] \in MCDirs /\ s[k] \in MCDirs => s[j] < s[k]}

TreesOf(up) ==
  LET lists == [d \in MCDirs |-> EntryLists(d, up)] IN
    {t \in [MCDirs -> UNION {lists[d] : d \in MCDirs}] : \A d \in MCDirs : t[d] \in lists[d]}

(* The names of files, directory by directory. *)
FileEntries(t) ==
  {<<d, k>> \in MCDirs \X (1..MaxEntries) : k <= Len(t[d]) /\ t[d][k] \in MCFiles}
Before(x, y) == x[1] < y[1] \/ (x[1] = y[1] /\ x[2] < y[2])

Canonical(t) ==
  /\ Cardinality(FileEntries(t)) <= MaxFileEntries
  /\ \A y \in FileEntries(t) : t[y[1]][y[2]] = 11 =>
       \E x \in FileEntries(t) : Before(x, y) /\ t[x[1]][x[2]] = 10

Parents == {up \in [1..MaxDir -> MCDirs] :
              /\ \A e \in 1..MaxDir : up[e] < e
              /\ \A e \in 1..(MaxDir - 1) : up[e] <= up[e + 1]}

MCTrees == {t \in UNION {TreesOf(up) : up \in Parents} : Canonical(t)}
=============================================================================
