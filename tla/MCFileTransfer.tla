--------------------------- MODULE MCFileTransfer ---------------------------
(* Small instances of FileTransfer for TLC. *)
EXTENDS FileTransfer, TLC

\* A client uploads one file and closes the connection; the server sends a file
\* with its dependencies, some of them empty, and leaves it open.
Upload(n) == [chunks |-> <<n>>, closes |-> TRUE]
Download(c) == [chunks |-> c, closes |-> FALSE]

\* Nothing goes wrong; or payloads are late, the sender may die and the receiver may
\* be unable to create files, or one of these alone.
FaultlessPlan(p) == p @@ [prompt |-> TRUE, ends |-> {}, opens |-> TRUE]
FaultyPlan(p) == p @@ [prompt |-> FALSE, ends |-> {"fin", "rst"}, opens |-> FALSE]
OneFault(p) == {[FaultlessPlan(p) EXCEPT !.prompt = FALSE], [FaultlessPlan(p) EXCEPT !.opens = FALSE],
                [FaultlessPlan(p) EXCEPT !.ends = {"fin", "rst"}]}

MCPlans ==
  {FaultlessPlan(p) : p \in {Upload(n) : n \in 0..3} \cup {Download(<<2, 0, 1>>), Download(<<1, 3>>)}}
  \cup {FaultyPlan(p) : p \in {Upload(1), Upload(3), Download(<<2, 2>>)}} \cup OneFault(Upload(2))
==============================================================================
