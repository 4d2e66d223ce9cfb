------------------------------ MODULE DepFiles ------------------------------
(***************************************************************************)
(* The server's sender thread answers a download (Server::processRequest):  *)
(* it sends the file asked for and, when the client wants dependencies too, *)
(* everything MetadataHandler::getAllDepFiles finds.  That walk is          *)
(* recursive: here its frames are a stack.                                  *)
(*                                                                         *)
(* A file is its full path.  How metadata names it matters only where the   *)
(* names are compared: the walk looks up the name as it is written, but     *)
(* keeps full paths, so a name relative to the server is never recognised.  *)
(***************************************************************************)
EXTENDS Naturals, Sequences, FiniteSets

CONSTANTS Files,     \* the files that are stored or named as dependencies
          Missing,   \* those that are named only
          Folder,    \* Folder[f]: the name of the directory f is in
          XmlName,   \* XmlName[f]: the name of the metadata file beside f
          ByFullPath,\* the files that metadata names by their full path
          Metadata,  \* the dependencies of all files: [Files -> Seq(Files)]
          MaxDepth   \* bound: the frames the thread's stack has room for

ASSUME FilesAssumption == /\ IsFiniteSet(Files)
                          /\ Missing \subseteq Files /\ ByFullPath \subseteq Files
                          /\ Metadata \subseteq [Files -> Seq(Files)]
ASSUME DepthAssumption == MaxDepth \in Nat /\ MaxDepth > Cardinality(Files)

VARIABLES named,    \* named[f]: the dependencies in the metadata entry of f
          request,  \* the file asked for
          withDeps, \* are its dependencies wanted?
          pc,       \* what the sender thread does
          stack,    \* the frames of getAllDepFilesHelper: file and loop counter
          allFiles, \* the dependencies found
          toSend,   \* those of depFileList that are still to be sent
          sent      \* the files sent, in order

vars == <<named, request, withDeps, pc, stack, allFiles, toSend, sent>>
inputs == <<named, request, withDeps>>

Init == /\ named \in Metadata
        /\ request \in Files \ Missing
        /\ withDeps \in BOOLEAN
        /\ pc = "send"
        /\ stack = <<>>
        /\ allFiles = {}
        /\ toSend = {}
        /\ sent = <<>>

\* The metadata file looked for is that with the name of the directory; a file
\* without one, or without an entry in it, has no dependencies.
Dependencies(f) == IF Folder[f] = XmlName[f] THEN named[f] ELSE <<>>

\* Mutant: the helper is called with the path of the file asked for.
FrameOfRequest(f) == [file |-> request, i |-> 1]

Frame(f) == [file |-> f, i |-> 1]
Top == stack[Len(stack)]
Below == SubSeq(stack, 1, Len(stack) - 1)

\* The frame below the top goes on with its next dependency.
Advanced(s) == [s EXCEPT ![Len(s)].i = @ + 1]

\* sendFile: a file that cannot be opened is not sent.
Send(f) == sent' = IF f \in Missing THEN sent ELSE Append(sent, f)

\* processRequest: the file itself comes first.
SendRequested ==
  /\ pc = "send"
  /\ Send(request)
  /\ IF withDeps THEN pc' = "walk" /\ stack' = <<Frame(request)>>
                 ELSE pc' = "over" /\ stack' = <<>>
  /\ UNCHANGED <<inputs, allFiles, toSend>>

------------------------------------------------------------------------------
Pending == pc = "walk" /\ Top.i <= Len(Dependencies(Top.file))
NextDependency == Dependencies(Top.file)[Top.i]

\* allFiles.count(depFile): holds of a file that is known and named as allFiles
\* has it.
Known(f) == f \in allFiles /\ f \in ByFullPath

Skip == /\ Pending /\ Known(NextDependency)
        /\ stack' = Advanced(stack)
        /\ UNCHANGED <<inputs, pc, allFiles, toSend, sent>>

\* Mutant: a file is marked before its dependencies are known.
MarkAndDescend ==
  /\ Pending /\ ~Known(NextDependency)
  /\ allFiles' = allFiles \cup {NextDependency}
  /\ IF Len(stack) < MaxDepth
     THEN stack' = Append(stack, Frame(NextDependency)) /\ pc' = pc
     ELSE stack' = stack /\ pc' = "overflow"
  /\ UNCHANGED <<inputs, toSend, sent>>

\* The helper calls itself; beyond the end of its stack the server ends.
Descend ==
  /\ Pending /\ ~Known(NextDependency)
  /\ IF Len(stack) < MaxDepth
     THEN stack' = Append(stack, Frame(NextDependency)) /\ pc' = pc
     ELSE stack' = stack /\ pc' = "overflow"
  /\ UNCHANGED <<inputs, allFiles, toSend, sent>>

\* Mutant: the caller's loop does not go on.
ReturnAndRepeat ==
  /\ pc = "walk" /\ ~Pending /\ Len(stack) > 1
  /\ stack' = Below
  /\ allFiles' = allFiles \cup {Top.file}
  /\ UNCHANGED <<inputs, pc, toSend, sent>>

\* A call returns and its caller puts the file into allFiles.
Return ==
  /\ pc = "walk" /\ ~Pending /\ Len(stack) > 1
  /\ stack' = Advanced(Below)
  /\ allFiles' = allFiles \cup {Top.file}
  /\ UNCHANGED <<inputs, pc, toSend, sent>>

\* getAllDepFiles returns; the file asked for is not in the set unless it is its
\* own dependency.
Finish ==
  /\ pc = "walk" /\ ~Pending /\ Len(stack) = 1
  /\ stack' = <<>>
  /\ toSend' = allFiles
  /\ pc' = "sendAll"
  /\ UNCHANGED <<inputs, allFiles, sent>>

------------------------------------------------------------------------------
\* Mutant: a file stays in the list.
SendAgain ==
  /\ pc = "sendAll" /\ Len(sent) <= Cardinality(Files)
  /\ \E f \in toSend : Send(f)
  /\ UNCHANGED <<inputs, pc, stack, allFiles, toSend>>

\* The loop over depFileList, in the order of an unordered set.
SendDependency ==
  /\ pc = "sendAll"
  /\ \E f \in toSend : Send(f) /\ toSend' = toSend \ {f}
  /\ UNCHANGED <<inputs, pc, stack, allFiles>>

Over == /\ pc = "sendAll" /\ toSend = {}
        /\ pc' = "over"
        /\ UNCHANGED <<inputs, stack, allFiles, toSend, sent>>

Next == SendRequested \/ Skip \/ Descend \/ Return \/ Finish \/ SendDependency \/ Over

Spec == Init /\ [][Next]_vars
FairSpec == Spec /\ WF_vars(Next)

------------------------------------------------------------------------------
Members(s) == {s[k] : k \in 1..Len(s)}
Deps(f) == Members(Dependencies(f))

Frames == [file : Files, i : Nat \ {0}]

\* Type invariant; no loop runs past the end of its vector.
TypeOK == /\ named \in [Files -> Seq(Files)]
          /\ request \in Files \ Missing
          /\ withDeps \in BOOLEAN
          /\ pc \in {"send", "walk", "overflow", "sendAll", "over"}
          /\ stack \in Seq(Frames) /\ Len(stack) <= MaxDepth
          /\ \A k \in 1..Len(stack) : stack[k].i <= Len(Dependencies(stack[k].file)) + 1
          /\ allFiles \subseteq Files
          /\ toSend \subseteq allFiles
          /\ sent \in Seq(Files \ Missing)

\* Reference: the files that every set with f's dependencies has to contain if it
\* is closed under dependencies, given D[g], the dependencies of each g.
Reachable(D, f) ==
  {g \in Files : \A S \in SUBSET Files :
                   D[f] \subseteq S /\ (\A h \in S : D[h] \subseteq S) => g \in S}

Read == [f \in Files |-> Deps(f)]

\* A file enters the set after everything it depends on: whatever the walk meets
\* next may rely on the set, and skip what is in it.
DependenciesFirst == \A f \in allFiles : Deps(f) \subseteq allFiles

\* The walk finds neither more nor less than what the file depends on, directly
\* or through others, however the branches of the graph meet again.
FindsReachable == pc = "sendAll" => allFiles = Reachable(Read, request)

\* The recursion exhausts its stack where files depend on one another in a circle,
\* and only there: a walk that ends has met none.
OnlyCirclesOverflow ==
  /\ pc = "overflow" => \E f \in Reachable(Read, request) : f \in Reachable(Read, f)
  /\ pc = "sendAll" => \A f \in Reachable(Read, request) : f \notin Reachable(Read, f)

\* A file that metadata names by its full path is not walked through again once the
\* set has it.
WalkedOnce == \A k \in 2..Len(stack) : stack[k].file \notin ByFullPath \cap allFiles

\* No file is sent twice, and a download that is over brought all that is stored of
\* what it found: the file asked for is found only where the walk does not end.
SentOnce ==
  /\ \A j, k \in 1..Len(sent) : j # k => sent[j] # sent[k]
  /\ pc = "over" /\ withDeps => Members(sent) = ({request} \cup Reachable(Read, request)) \ Missing

\* Every download comes to an end, be it that of the server.
Ends == <>(pc \in {"over", "overflow"})

\* The set the walk skips by is closed at every moment, and exact in the end.
WalkIsRight == DependenciesFirst /\ FindsReachable

\* A circle among the files found, and nothing else, makes the walk exhaust its stack,
\* and no file that it recognises is walked through after it was found.
OnlyCirclesRepeat == OnlyCirclesOverflow /\ WalkedOnce

\* What is sent is what was found, once each.
SendsHold == TypeOK /\ SentOnce
==============================================================================
