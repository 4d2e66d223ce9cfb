------------------------------ MODULE MCWindow ------------------------------
(* Small instances of Window for TLC: a header, a file without an extension    *)
(* and an empty one; nothing stored before, or a file that depends on another, *)
(* or one whose name holds the separator of lists.                            *)
EXTENDS Window

Header == <<"C:", "\\", "work", ".", "1", "\\", "a", ".", "h">>
Bare == <<"C:", "\\", "work", ".", "1", "\\", "b">>
Blank == <<"D:", "\\", "e", ".", "h">>
Split2 == <<"C:", "\\", "c", "^", "d", ".", "h">>

Local == {Header, Bare, Blank}
EmptyFile == {Blank}
Repository == <<"repo", "/">>
Downloads == <<"down", "/">>

Stored(local, time, deps) ==
  [path |-> StoredPath(GetName(local), time), time |-> time, local |-> local,
   deps |-> IF deps = {} THEN {Front(NA)} ELSE deps, empty |-> FALSE, n |-> 0]

Other == Stored(Blank, "t2", {})
Repositories == {{}, {Stored(Header, "t1", {Other.path}), Other}, {Stored(Split2, "t1", {})}}
=============================================================================
