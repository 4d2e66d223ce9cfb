---------------------------- MODULE MCFileSystem ----------------------------
(* A small instance of FileSystem for TLC: two packages, the second of which *)
(* is uploaded meanwhile, with files for two patterns, and beside the first  *)
(* one a file that matches neither.                                          *)
EXTENDS FileSystem

AllDirs == {"pkg1", "pkg2"}
AllNames == {"a.h", "notes", "b.h", "c.txt"}
ParentOf == [e \in AllDirs \cup AllNames |->
               CASE e \in AllDirs -> Root
                 [] e \in {"a.h", "c.txt"} -> "pkg1"
                 [] e = "notes" -> Root
                 [] OTHER -> "pkg2"]
MatchOf == [f \in AllNames |-> CASE f \in {"a.h", "b.h"} -> {"*.h"}
                                 [] f = "c.txt" -> {"*.txt"}
                                 [] OTHER -> {}]
HeadersAndTexts == <<"*.h", "*.txt">>
FirstPackage == {"pkg1", "a.h", "c.txt", "notes"}

\* A line longer than the buffer, then another; and an empty last line.
TextOf == [f \in AllNames \cup {Copy} |->
             CASE f = "a.h" -> <<"x", "x", "x", "n", "x">>
               [] f = "b.h" -> <<"x", "n", "n", "x">>
               [] OTHER -> <<>>]
ShortLines == {<<>>, <<"x">>}
=============================================================================
