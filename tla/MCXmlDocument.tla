--------------------------- MODULE MCXmlDocument ---------------------------
(* A small instance of XmlDocument for TLC. *)
EXTENDS XmlDocument, TLC

Docs == {"DOC", "TEMP"}
AllElements == Docs \cup {"root", "file1", "file2", "name1", "name2", "deps", "text", "decl", "spare"}
AllKinds == [e \in AllElements |-> IF e \in Docs THEN "doc" ELSE IF e = "text" THEN "text"
                                   ELSE IF e = "decl" THEN "declar" ELSE "tagged"]
AllTags == [e \in AllElements |->
              CASE e \in {"file1", "file2"} -> "file" [] e \in {"name1", "name2", "spare"} -> "name"
                [] e = "root" -> "folder" [] e = "deps" -> "deps" [] OTHER -> ""]
Leaves == [e \in AllElements |-> <<>>]
\* A metadata file whose first entry has no dependencies element.
Metadata == ("DOC" :> <<"decl", "root">> @@ "root" :> <<"file1", "file2">> @@ "file1" :> <<"name1">>
             @@ "name1" :> <<"text">> @@ "file2" :> <<"name2", "deps">>) @@ Leaves
\* Equal tags inside one another, as in the test stub of XmlDocument.
Nested == ("DOC" :> <<"root">> @@ "root" :> <<"file1", "name2">> @@ "file1" :> <<"text", "name1", "file2">>) @@ Leaves
TwoTrees == {Metadata, Nested}
TwoNames == [e \in AllElements |-> IF e \in {"root", "decl"} THEN <<"name", "name">> ELSE <<>>]
AskedTags == {"file", "name", "deps"}
==============================================================================
