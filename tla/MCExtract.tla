----------------------------- MODULE MCExtract ------------------------------
(***************************************************************************)
(* Images of a directory and four other nodes in the order of the walk,    *)
(* which sorts names.  Slots are nids modulo 8: 1 and 9 share one.         *)
(***************************************************************************)
EXTENDS Extract

MCPaths == {"/", "/a", "/b", "/ba", "/bb"}
MCPrefixOf == {<<p, p>> : p \in MCPaths} \cup {<<"/", p>> : p \in MCPaths}
                \cup {<<"/b", "/ba">>, <<"/b", "/bb">>}

(* The nodes of an image whose four files have these nids. *)
ImageOf(nids) ==
  LET paths == <<"/a", "/b", "/ba", "/bb">>
  IN <<[nid |-> 100, path |-> "/", dir |-> TRUE, nlink |-> 2]>>
     \o [k \in 1..4 |-> [nid |-> nids[k], path |-> paths[k], dir |-> FALSE,
                         nlink |-> Cardinality({j \in 1..4 : nids[j] = nids[k]})]]

Apart == {ImageOf(nids) : nids \in [1..4 -> {1, 2, 3}]}
Colliding == {ImageOf(nids) : nids \in [1..4 -> {1, 9, 2}]}
MCImages == Apart \cup Colliding
=============================================================================
