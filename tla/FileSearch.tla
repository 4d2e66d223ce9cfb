----------------------------- MODULE FileSearch -----------------------------
(***************************************************************************)
(* FileMgr::getFiles: the recursive search for the files that match some    *)
(* patterns, over Directory::getFiles, Directory::getDirectories and        *)
(* FileSystemSearch, while uploads create directories and files in the tree *)
(* that is searched.  find() makes one pass over a directory for each       *)
(* pattern and one more for the directories in it; a pass is one call of    *)
(* FindFirstFile and many of FindNextFile, and the tree may grow between    *)
(* any two of them.  Nothing is ever removed from the repository.           *)
(***************************************************************************)
EXTENDS Naturals, Sequences, SequencesExt

CONSTANTS Root,      \* the directory to search
          Dirs,      \* the directories that may be below it
          Names,     \* the files that may be in them
          Parent,    \* Parent[e]: the directory of a directory or file
          Matching,  \* Matching[f]: the patterns that match the file f
          AnyName,   \* the pattern "*.*"
          Here, Up,  \* the entries "." and ".." of each directory
          Asked,     \* the patterns that getFiles is called with
          NotYet     \* there is no answer yet

\* Directories and files have one parent each, and no directory is below itself.
ASSUME TreeAssumption ==
  /\ Parent \in [Dirs \cup Names -> Dirs \cup {Root}]
  /\ Root \notin Dirs /\ Dirs \cap Names = {} /\ {Here, Up} \cap (Dirs \cup Names) = {}
  /\ \A S \in SUBSET Dirs : S # {} => \E d \in S : Parent[d] \notin S

\* No file matches two of the patterns: the server asks for *.h, *.cpp and *.txt.
ASSUME AskedAssumption ==
  /\ Asked \in Seq(ToSet(Asked)) /\ AnyName \notin ToSet(Asked)
  /\ \A f \in Names : \A i, j \in 1..Len(Asked) : {Asked[i], Asked[j]} \subseteq Matching[f] => i = j

VARIABLES tree,    \* the directories and files there are
          before,  \* those there when the search began
          stack,   \* the calls of find() under way, innermost first
          store    \* DataStore: the files found

searchVars == <<before, stack, store>>

------------------------------------------------------------------------------
(* FileMgr: the patterns.  The constructor puts "*.*" in the list.           *)

\* Mutant: the first pattern does not replace "*.*".
AddPatternToDefault(ps, p) == Append(ps, p)

\* addPattern.
AddPattern(ps, p) == IF ps = <<AnyName>> THEN <<p>> ELSE Append(ps, p)

\* patterns_ once getFiles has added the first n of those it was given, and all.
Added[n \in 0..Len(Asked)] == IF n = 0 THEN <<AnyName>> ELSE AddPattern(Added[n - 1], Asked[n])
Patterns == Added[Len(Asked)]

Matches(e, p) == p = AnyName \/ (e \in Names /\ p \in Matching[e])

Wanted(f) == \E p \in ToSet(Patterns) : Matches(f, p)

------------------------------------------------------------------------------
(* A call of find(): the directory; the patterns whose pass is to come, the  *)
(* directories' pass being the last one; the pass under way: "first" before  *)
(* FindFirstFile, "next" before FindNextFile, "down" when there is none; the *)
(* entries it saw at its start and has still to return; what it returned;    *)
(* of these the ones it was after; and the directories left to descend to.   *)
Frame(dir) == [dir |-> dir, passes |-> Append(Patterns, AnyName), pc |-> "first",
               unseen |-> {}, seen |-> {}, found |-> <<>>]

Top == Head(stack)
SetTop(f) == stack' = <<f>> \o Tail(stack)
DirsPass == Len(Top.passes) = 1

\* What the pattern of the pass under way matches in its directory.
Present == {e \in tree \cup {Here, Up} :
              /\ e \in {Here, Up} \/ Parent[e] = Top.dir
              /\ Matches(e, Head(Top.passes))}

\* FILE_ATTRIBUTE_DIRECTORY.
IsDirectory(e) == e \in Dirs \cup {Here, Up}

\* find(path_).
SearchInit == /\ before = tree
              /\ stack = <<Frame(Root)>>
              /\ store = <<>>

\* FindFirstFile opens a handle if anything matches.
FindFirst ==
  /\ stack # <<>> /\ Top.pc = "first" /\ Present # {}
  /\ SetTop([Top EXCEPT !.pc = "next", !.unseen = Present])
  /\ UNCHANGED <<tree, before, store>>

\* Mutant: what FindFirstFile returned is passed over if it is of the wrong
\* kind, and the search for the first one ends there.
FindNextOrStop(e) ==
  /\ stack # <<>> /\ Top.pc = "next"
  /\ e \in Present \ Top.seen
  /\ SetTop([Top EXCEPT !.unseen = IF IsDirectory(e) # DirsPass THEN {} ELSE @ \ {e},
                        !.seen = @ \cup {e},
                        !.found = IF IsDirectory(e) = DirsPass THEN Append(@, e) ELSE @])
  /\ UNCHANGED <<tree, before, store>>

\* An entry is returned: firstFile and nextFile skip directories, firstDirectory
\* and nextDirectory files.  An entry younger than the handle may be returned.
FindNext(e) ==
  /\ stack # <<>> /\ Top.pc = "next"
  /\ e \in Present \ Top.seen
  /\ SetTop([Top EXCEPT !.unseen = @ \ {e}, !.seen = @ \cup {e},
                        !.found = IF IsDirectory(e) = DirsPass THEN Append(@, e) ELSE @])
  /\ UNCHANGED <<tree, before, store>>

\* There is none, or FindNextFile has no more: the files found are saved and the
\* next pass begins; after the directories' pass find() goes down into them.
PassEnds ==
  /\ stack # <<>>
  /\ \/ Top.pc = "first" /\ Present = {}
     \/ Top.pc = "next" /\ Top.unseen = {}
  /\ IF DirsPass
     THEN SetTop([Top EXCEPT !.pc = "down"]) /\ UNCHANGED store
     ELSE /\ SetTop([Frame(Top.dir) EXCEPT !.passes = Tail(Top.passes)])
          /\ store' = store \o Top.found
  /\ UNCHANGED <<tree, before>>

\* The loop over the directories: a recursive call, except for "." and "..".
Descend ==
  /\ stack # <<>> /\ Top.pc = "down" /\ Top.found # <<>>
  /\ LET rest == [Top EXCEPT !.found = Tail(@)]
         d == Head(Top.found)
     IN  stack' = (IF d \in {Here, Up} THEN <<>> ELSE <<Frame(d)>>) \o <<rest>> \o Tail(stack)
  /\ UNCHANGED <<tree, before, store>>

Return ==
  /\ stack # <<>> /\ Top.pc = "down" /\ Top.found = <<>>
  /\ stack' = Tail(stack)
  /\ UNCHANGED <<tree, before, store>>

SearchDone == stack = <<>>

SearchStep == \/ FindFirst \/ PassEnds \/ Descend \/ Return
              \/ \E e \in Dirs \cup Names \cup {Here, Up} : FindNext(e)

\* Receiver::getFile creates the directory of a package, in it that of a version,
\* and there fileWriter the file.
Create(e) ==
  /\ e \notin tree /\ Parent[e] \in tree \cup {Root}
  /\ tree' = tree \cup {e}

------------------------------------------------------------------------------
\* Refinement: the search answers as module Listing says.
L == INSTANCE Listing WITH
       Files <- {f \in Names : Wanted(f)},
       files <- {f \in Names : Wanted(f)} \cap tree,
       before <- {f \in Names : Wanted(f)} \cap before,
       answer <- IF SearchDone THEN ToSet(store) ELSE NotYet
ListsFiles == L!Spec

\* No file is listed twice, although each directory is read once for each
\* pattern: the patterns asked for exclude each other, and a directory created
\* meanwhile is searched at most once.
ListedOnce == \A i, j \in 1..Len(store) : i # j => store[i] # store[j]
==============================================================================
