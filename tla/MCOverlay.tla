----------------------------- MODULE MCOverlay ------------------------------
(* Archives of up to five headers, and pairs of archives merged or put on  *)
(* each other.                                                             *)
EXTENDS Overlay

E(type, path, link) == [type |-> type, path |-> path, link |-> link]
A == <<"a">>
B == <<"b">>
AX == <<"a", "x">>

MCStripped == (".wh.a" :> "a") @@ (".wh.x" :> "x")

Files == {E("reg", A, None), E("dir", A, None), E("reg", AX, None), E("dir", AX, None),
          E("hard", B, AX), E("hard", AX, B), E("dir", B, None), E("dir", <<".">>, None)}
Names == {E("x", AX, B), E("g", None, A), E("K", None, A), E("?", None, None), E("bad", None, None),
          E("reg", <<".", "b">>, None), E("reg", A, None), E("hard", B, AX)}
Marks == {E("reg", A, None), E("dir", AX, None), E("hard", <<"a", "y">>, AX),
          E("reg", AX, None),
          E("reg", <<".wh.a">>, None), E("reg", <<"a", ".wh.x">>, None),
          E("reg", <<"a", ".opq">>, None)}

Tar == [plan |-> "tar", layers |-> 1, entries |-> Files, max |-> 5, strip |-> FALSE, aufs |-> FALSE]
Pair == [plan |-> "merge", layers |-> 2, entries |-> Marks, max |-> 2, strip |-> TRUE, aufs |-> TRUE]

MCConfigs == {Tar, [Tar EXCEPT !.entries = Names, !.max = 4],
              [Tar EXCEPT !.entries = Marks, !.aufs = TRUE, !.max = 3],
              Pair, [Pair EXCEPT !.strip = FALSE], [Pair EXCEPT !.plan = "base"]}
=============================================================================
