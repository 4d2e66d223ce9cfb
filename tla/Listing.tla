------------------------------ MODULE Listing ------------------------------
(***************************************************************************)
(* What asking for the list of all files promises.  Files are only ever     *)
(* added, also while the list is made; the answer names every file that was *)
(* there when the search began and none that is not there now.  It is no    *)
(* snapshot: of two files added meanwhile it may name the later one alone.  *)
(***************************************************************************)
CONSTANTS Files,   \* all files that may ever be added
          NotYet   \* no answer

VARIABLES files,   \* those there now
          before,  \* those there when the search began
          answer   \* the list, as a set

Init == /\ files \in SUBSET Files /\ before = files
        /\ answer = NotYet

Add == \E f \in Files \ files : files' = files \cup {f} /\ UNCHANGED <<before, answer>>

Answer == /\ answer = NotYet
          /\ \E a \in SUBSET files : before \subseteq a /\ answer' = a
          /\ UNCHANGED <<files, before>>

Next == Add \/ Answer

Spec == Init /\ [][Next]_<<files, before, answer>>
============================================================================
