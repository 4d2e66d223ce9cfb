----------------------------- MODULE MCDepFiles -----------------------------
(* Small instance of DepFiles for TLC. *)
EXTENDS DepFiles

\* Three files of a package placed by hand, as Server_Repository/Test is, one of
\* which others name by its full path; a version uploaded to a dated directory; a
\* name without a file.
Five == {"A/a", "A/b", "A/c", "A/1462409502/a", "A/x"}
Nowhere == {"A/x"}
FolderOf == [f \in Five |-> IF f = "A/1462409502/a" THEN "1462409502" ELSE "A"]
XmlOf == [f \in Five |-> "A"]
Absolute == {"A/b"}

\* Up to two dependencies among the three, or one of the other files.
ByHand == {"A/a", "A/b", "A/c"}
Named == {<<>>, <<"A/1462409502/a">>, <<"A/x">>}
           \cup {<<f>> : f \in ByHand}
           \cup {<<f, g>> : f, g \in ByHand}
Graphs == {[f \in Five |-> IF f \in ByHand THEN g[f] ELSE IF f = "A/x" THEN <<>> ELSE <<"A/a">>] :
             g \in [ByHand -> Named]}
==============================================================================
