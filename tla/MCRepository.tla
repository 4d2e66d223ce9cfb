---------------------------- MODULE MCRepository ----------------------------
(* Small instances of Repository for TLC. *)
EXTENDS Repository

CONSTANTS c1, c2

\* One client uploads and lists, the other downloads.
Divided == [c \in Clients |-> IF c = c1 THEN {"upload", "getall"} ELSE {"download"}]
TwoOfOne == [c \in Clients |-> IF c = c1 THEN 2 ELSE 1]

AnyKind == [c \in Clients |-> {"upload", "getall", "download"}]
OneEach == [c \in Clients |-> 1]
=============================================================================
