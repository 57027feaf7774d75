------------------------------ MODULE MCXattr -------------------------------
(* Three inodes with up to two attributes each. *)
EXTENDS Xattr

KA == <<"user.", "a">>
KAB == <<"user.", "a", "b">>
Attrs == {<<KA, <<"v">>>>, <<KAB, <<"v", "w", "x", "y", "z", "v", "w", "x", "y", "z", "v", "w", "x", "y", "z", "v", "w", "x", "y">>>>,
          <<Selinux, <<"s">>>>}
Lists == {<<>>} \cup {<<a>> : a \in Attrs} \cup {<<a, b>> : a \in Attrs, b \in Attrs}
Uniq == {l \in Lists : Len(l) < 2 \/ l[1][1] # l[2][1]}

(* User attributes collide in the hash table. *)
MCBucket(key, val) == IF key[1] = "user." THEN <<>> ELSE <<key, val>>

Path == [plan |-> "path", attrs |-> <<>>, dirs |-> {}, second |-> <<>>, global |-> <<>>, tol |-> 1,
         prefixes |-> <<>>, label |-> <<>>, target |-> 0, strip |-> FALSE, again |-> FALSE]
Three == {<<a, b, c>> : a \in {<<>>, <<<<KA, <<"v">>>>>>}, b \in Uniq, c \in Uniq}
Odd == <<<<<<KA, <<"v">>>>>>, <<<<<<"other.", "k">>, <<"v">>>>, <<KA, <<>>>>>>, <<<<<<"acl_access">>, <<"q">>>>>>>>

(* Archives: a record given twice, a global record, opaque marks. *)
TarLists == {<<a, b, c>> : a \in {<<>>, <<<<KA, <<"v">>>>>>}, b \in {<<<<KA, <<"v">>>>, <<KA, <<"w">>>>>>, <<<<KAB, <<"v">>>>>>, <<<<Origin, <<>>>>>>},
                           c \in {<<>>, <<<<KA, <<"v">>>>>>, <<<<Opaque, <<"y">>>>>>}}


(* The header of the root or of a directory comes again. *)
Seconds == {<<>>, (2 :> <<<<KA, <<"w">>>>>>), (1 :> <<<<KAB, <<"v">>>>>>) @@ (2 :> <<>>)}

MCConfigs ==
    {[Path EXCEPT !.attrs = a, !.tol = t, !.prefixes = p] :
        a \in Three, t \in {0, 1, Off}, p \in {<<>>, <<KA>>}}
    \cup {[Path EXCEPT !.attrs = a, !.label = <<"l">>, !.target = 30, !.tol = t] :
              a \in {Odd} \cup {[Odd EXCEPT ![1] = u] : u \in Uniq}, t \in {-1, 0, 1}}
    \cup {[Path EXCEPT !.attrs = [Odd EXCEPT ![1] = <<>>], !.target = t] : t \in {4, 8, 12, 13}}
    \cup {[Path EXCEPT !.attrs = a, !.tol = t, !.prefixes = p, !.again = TRUE] :
              a \in {b \in Three : b[1] # <<>>}, t \in {0, 1}, p \in {<<>>, <<KA>>}}
    \cup {[Path EXCEPT !.plan = "tar", !.attrs = a, !.dirs = {2}, !.second = d, !.global = g, !.strip = s,
                       !.prefixes = p, !.again = TRUE] :
              a \in TarLists, d \in Seconds, g \in {<<>>, <<<<KA, <<"g">>>>>>}, s \in BOOLEAN,
              p \in {<<>>, <<KA>>}}
    \cup {[Path EXCEPT !.plan = "incremental", !.attrs = a, !.prefixes = p, !.target = t] :
              a \in TarLists, p \in {<<>>, <<KA>>}, t \in {16, 40}}
=============================================================================
