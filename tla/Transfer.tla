------------------------------ MODULE Transfer ------------------------------
(***************************************************************************)
(* What the transfer of files over one connection promises: the files are  *)
(* acknowledged in the order in which they were sent, each at most once,   *)
(* and a file that is acknowledged is stored whole, with the content that  *)
(* was sent.  A connection may stop anywhere, but only between files.      *)
(***************************************************************************)
EXTENDS Naturals, Sequences

CONSTANT Plans    \* what may be sent: sequences of numbers of chunks, one for each file

VARIABLES chunks,    \* chunks[f]: number of chunks of the f-th file sent
          received   \* the acknowledged files with the content stored for each

\* The content of file f, chunk by chunk.
Content(f) == [k \in 1..chunks[f] |-> <<f, k>>]

Init == chunks \in Plans /\ received = <<>>

\* File f is the next one sent that is not empty: nothing is sent of an empty file.
NextFile(f) ==
  /\ chunks[f] > 0
  /\ \A i \in 1..Len(received) : received[i].file < f
  /\ \A g \in 1..(f - 1) :
       chunks[g] > 0 => \E i \in 1..Len(received) : received[i].file = g

Complete(f) == /\ NextFile(f)
               /\ received' = Append(received, [file |-> f, content |-> Content(f)])
               /\ UNCHANGED chunks

Next == \E f \in 1..Len(chunks) : Complete(f)

Spec == Init /\ [][Next]_<<chunks, received>>
==============================================================================
