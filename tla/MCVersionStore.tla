--------------------------- MODULE MCVersionStore ---------------------------
(* Small instance of VersionStore for TLC. *)
EXTENDS VersionStore

\* One file twice, in versions of different length, its sibling with another
\* extension, and one with the name of their metadata.
Four == {"code.h 1", "code.h 2", "code.cpp", "code.xml"}
FourPackage == [u \in Four |-> "code"]
FourName == [u \in Four |-> IF u \in {"code.h 1", "code.h 2"} THEN "code.h" ELSE u]
FourXml == [p \in {"code"} |-> "code.xml"]
FourChunks == [u \in Four |-> IF u = "code.h 1" THEN 2 ELSE 1]
==============================================================================
