----------------------------- MODULE MCTreeSync -----------------------------
(***************************************************************************)
(* Small instances of TreeSync for TLC: two folders and the places of one  *)
(* file name in them and above them.                                       *)
(***************************************************************************)
EXTENDS TreeSync

Files   == {<<"f">>, <<"d", "f">>, <<"e", "f">>}
Folders == {<<"d">>, <<"e">>}

(* One folder and the places of a name in it and above it.                 *)
FewFiles   == {<<"f">>, <<"d", "f">>}
FewFolders == {<<"d">>}
FewTrees   == {{<<"d">>, <<"d", "f">>}}

TwoTrees == {{<<"f">>, <<"d">>, <<"d", "f">>}}

(* Nothing tells one content from another but equality.                    *)
SameWorth == Permutations(Content)

Pass(full, propagate, unattended) ==
    [full |-> full, propagate |-> propagate, unattended |-> unattended,
     allowed |-> FALSE]

(* `sync --full` by a person and by the runner; delta passes with deletions*)
(* carried over and with deletions only reported; the runner's delta passes.*)
Full  == {Pass(TRUE, TRUE, u) : u \in BOOLEAN}
Auto  == {Pass(FALSE, TRUE, TRUE)}
Delta == {Pass(FALSE, p, FALSE) : p \in BOOLEAN}
Sure  == {[full |-> TRUE, propagate |-> TRUE, unattended |-> FALSE, allowed |-> TRUE]}
Plain == {Pass(FALSE, TRUE, FALSE)}
=============================================================================
