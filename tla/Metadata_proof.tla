---------------------------- MODULE Metadata_proof ----------------------------
(***************************************************************************)
(* Proofs about the metadata of the stored files: the walk over their        *)
(* dependencies (DepFiles), the queries it reads them with (XmlDocument) and *)
(* the parser that makes the documents of their texts (XmlParser).           *)
(*                                                                           *)
(* The frames of the walk form a chain: each is the dependency its caller    *)
(* stands at (Chain).  What a frame has passed is in allFiles (Passed), and  *)
(* a file enters allFiles when its frame has passed everything.  A circle    *)
(* does not end the walk, it fills the stack: what is in allFiles lies on    *)
(* none (Acyclic), and a stack with more frames than there are files has one *)
(* file twice (TwoAlike).  Then the download that the walk serves, the file  *)
(* asked for first, the others once each.                                    *)
(*                                                                           *)
(* Documents: a tree without circles is climbed from its leaves (AllUpwards). *)
(* This gives the recursive functions of the model what they say (SubtreeIs, *)
(* HitsAre), subtrees of siblings nothing in common (SiblingsApart), and     *)
(* what find appends its order (AllFound).  Every edit and every document    *)
(* made for a part keeps such a tree (TreeWith, TreeWithout, TreeShared).    *)
(*                                                                           *)
(* Texts: the loops of the tokenizer are functions whether they end or not   *)
(* (Loops), and what is still to be read gets less in each round (AllByLess).*)
(* With at most one character put back what getChar reads is what it peeked  *)
(* at (Orderly), and nothing is put back behind a "<", which XmlParts::get   *)
(* puts back itself (Token).  A member of the stack that was accepted is an  *)
(* open tag: all that follows it is below it (Nested).                       *)
(***************************************************************************)
EXTENDS DepFiles, XmlDocument, XmlParser, SequenceTheorems, FiniteSetTheorems, WellFoundedInduction, TLAPS

Types == /\ named \in [Files -> Seq(Files)]
         /\ request \in Files
         /\ stack \in Seq(Frames)
         /\ allFiles \in SUBSET Files

Active == pc \in {"walk", "overflow"}

\* The frames are those of the calls that lead from the file asked for to the top.
Chain == Active => /\ Len(stack) > 0 /\ stack[1].file = request
                   /\ \A k \in 1..(Len(stack) - 1) :
                        /\ stack[k].i <= Len(Dependencies(stack[k].file))
                        /\ stack[k + 1].file = Dependencies(stack[k].file)[stack[k].i]

\* No loop is past the end of its vector.
Within == \A k \in 1..Len(stack) : stack[k].i <= Len(Dependencies(stack[k].file)) + 1

\* The loop of a frame has left nothing out.
Passed == \A k \in 1..Len(stack) : \A j \in 1..Len(Dependencies(stack[k].file)) :
            j < stack[k].i => Dependencies(stack[k].file)[j] \in allFiles

\* Sets that contain the dependencies of f and of all their members.
Closed(S) == \A h \in S : Deps(h) \subseteq S

\* Nothing is found that need not be there.
Needed == \A S \in SUBSET Files :
            Deps(request) \subseteq S /\ Closed(S) =>
              allFiles \subseteq S /\ \A k \in 2..Len(stack) : stack[k].file \in S

Complete == pc = "sendAll" => Deps(request) \subseteq allFiles

\* The inductive invariant.
IInv == /\ Types /\ Chain /\ Within /\ Passed /\ DependenciesFirst /\ Needed /\ Complete
        /\ (pc = "send" => allFiles = {} /\ stack = <<>>)

------------------------------------------------------------------------------
\* What a file depends on, are files.
LEMMA DependenciesType ==
  ASSUME Types, NEW f \in Files
  PROVE  /\ Dependencies(f) \in Seq(Files)
         /\ Len(Dependencies(f)) \in Nat
         /\ \A j \in 1..Len(Dependencies(f)) : Dependencies(f)[j] \in Files /\ Dependencies(f)[j] \in Deps(f)
<1>1. Dependencies(f) \in Seq(Files)
  BY DEF Types, Dependencies
<1> QED
  BY <1>1 DEF Deps, Members

\* The frames of a stack.
LEMMA FrameType ==
  ASSUME Types, NEW k \in 1..Len(stack)
  PROVE  stack[k] \in Frames /\ stack[k].file \in Files /\ stack[k].i \in Nat \ {0}
<1>1. stack[k] \in Frames
  BY DEF Types
<1> QED
  BY <1>1 DEF Frames

\* Advancing changes the top frame's counter and nothing else.
LEMMA AdvancedFrames ==
  ASSUME NEW s \in Seq(Frames), Len(s) > 0
  PROVE  /\ Advanced(s) \in Seq(Frames) /\ Len(Advanced(s)) = Len(s)
         /\ \A k \in 1..Len(s) : Advanced(s)[k].file = s[k].file
         /\ \A k \in 1..(Len(s) - 1) : Advanced(s)[k].i = s[k].i
         /\ Advanced(s)[Len(s)].i = s[Len(s)].i + 1
<1>1. Len(s) \in 1..Len(s) /\ \A k \in 1..Len(s) : s[k] \in Frames
  OBVIOUS
<1>2. Advanced(s) = [s EXCEPT ![Len(s)] = [s[Len(s)] EXCEPT !.i = s[Len(s)].i + 1]]
  BY DEF Advanced
<1>3. [s[Len(s)] EXCEPT !.i = s[Len(s)].i + 1] \in Frames
  BY <1>1 DEF Frames
<1>4. Advanced(s) \in Seq(Frames) /\ Len(Advanced(s)) = Len(s)
  BY <1>1, <1>2, <1>3
<1>5. Advanced(s)[Len(s)].file = s[Len(s)].file /\ Advanced(s)[Len(s)].i = s[Len(s)].i + 1
  BY <1>1, <1>2 DEF Frames
<1>6. \A k \in 1..(Len(s) - 1) : Advanced(s)[k] = s[k]
  BY <1>1, <1>2
<1> QED
  BY <1>1, <1>4, <1>5, <1>6

\* What is below the top.
LEMMA BelowFrames ==
  ASSUME Types, Len(stack) > 1
  PROVE  /\ Below \in Seq(Frames) /\ Len(Below) = Len(stack) - 1
         /\ \A k \in 1..Len(Below) : Below[k] = stack[k]
BY DEF Types, Below

\* After a call: one more frame, which stands at its first dependency.
LEMMA Pushed ==
  ASSUME Types, NEW f \in Files, stack' = Append(stack, Frame(f))
  PROVE  /\ stack' \in Seq(Frames) /\ Len(stack') = Len(stack) + 1
         /\ \A k \in 1..Len(stack) : stack'[k] = stack[k]
         /\ stack'[Len(stack')].file = f /\ stack'[Len(stack')].i = 1
<1>1. Frame(f) \in Frames /\ Frame(f).file = f /\ Frame(f).i = 1
  BY DEF Frame, Frames
<1> QED
  BY <1>1 DEF Types

\* A step of the walk leaves the metadata alone.
LEMMA InputsKept ==
  ASSUME UNCHANGED inputs
  PROVE  /\ request' = request /\ named' = named
         /\ \A f : Dependencies(f)' = Dependencies(f) /\ Deps(f)' = Deps(f)
         /\ \A S : Closed(S)' <=> Closed(S)
<1>1. request' = request /\ named' = named
  BY DEF inputs
<1>2. \A f : Dependencies(f)' = Dependencies(f)
  BY <1>1 DEF Dependencies
<1>3. \A f : Deps(f)' = Deps(f)
  BY <1>2 DEF Deps
<1> QED
  BY <1>1, <1>2, <1>3 DEF Closed

------------------------------------------------------------------------------
\* The loop goes on after a dependency that is known already.
LEMMA SkipStep ==
  ASSUME IInv, Skip
  PROVE  IInv'
<1>1. /\ Types /\ Chain /\ Within /\ Passed /\ DependenciesFirst /\ Needed
      /\ pc = "walk" /\ pc' = pc /\ allFiles' = allFiles /\ stack' = Advanced(stack)
  BY DEF IInv, Skip, Pending
<1>2. /\ request' = request /\ named' = named
      /\ \A f : Dependencies(f)' = Dependencies(f) /\ Deps(f)' = Deps(f)
      /\ \A S : Closed(S)' <=> Closed(S)
  BY InputsKept DEF Skip
<1>3. Len(stack) > 0 /\ stack \in Seq(Frames)
  BY <1>1 DEF Chain, Active, Types
<1>4. /\ stack' \in Seq(Frames) /\ Len(stack') = Len(stack)
      /\ \A k \in 1..Len(stack) : stack'[k].file = stack[k].file
      /\ \A k \in 1..(Len(stack) - 1) : stack'[k].i = stack[k].i
      /\ stack'[Len(stack)].i = stack[Len(stack)].i + 1
  BY <1>1, <1>3, AdvancedFrames
<1>5. /\ Top.i <= Len(Dependencies(Top.file)) /\ NextDependency \in allFiles
      /\ Top.i \in Nat /\ Len(Dependencies(Top.file)) \in Nat
  BY <1>1, <1>3, FrameType, DependenciesType DEF Skip, Pending, Known, Top
<1>6. Types'
  BY <1>1, <1>2, <1>4 DEF Types
<1>7. Chain'
  BY <1>1, <1>2, <1>3, <1>4 DEF Chain, Active
<1>8. Within'
  <2>1. SUFFICES ASSUME NEW k \in 1..Len(stack)
                 PROVE  stack'[k].i <= Len(Dependencies(stack'[k].file)) + 1
    BY <1>2, <1>4 DEF Within
  <2>2. stack'[k].file = stack[k].file
    BY <1>4
  <2>3. CASE k = Len(stack)
    BY <1>4, <1>5, <2>2, <2>3 DEF Top
  <2>4. CASE k # Len(stack)
    <3>1. stack'[k].i = stack[k].i
      BY <1>3, <1>4, <2>4
    <3> QED
      BY <1>1, <2>2, <3>1 DEF Within
  <2> QED
    BY <2>3, <2>4
<1>9. Passed'
  <2>1. SUFFICES ASSUME NEW k \in 1..Len(stack), NEW j \in 1..Len(Dependencies(stack[k].file)), j < stack'[k].i
                 PROVE  Dependencies(stack[k].file)[j] \in allFiles
    BY <1>1, <1>2, <1>4 DEF Passed
  <2>2. CASE k = Len(stack) /\ j = stack[k].i
    BY <1>5, <2>2 DEF NextDependency, Top
  <2>3. CASE ~(k = Len(stack) /\ j = stack[k].i)
    <3>1. stack[k].i \in Nat
      BY <1>1, FrameType
    <3>2. j < stack[k].i
      BY <1>3, <1>4, <2>1, <2>3, <3>1
    <3> QED
      BY <1>1, <3>2 DEF Passed
  <2> QED
    BY <2>2, <2>3
<1>10. DependenciesFirst'
  BY <1>1, <1>2 DEF DependenciesFirst
<1>11. Needed'
  BY <1>1, <1>2, <1>3, <1>4 DEF Needed
<1> QED
  BY <1>1, <1>6, <1>7, <1>8, <1>9, <1>10, <1>11 DEF IInv, Complete

\* The helper calls itself, or the stack is full.
LEMMA DescendStep ==
  ASSUME IInv, Descend
  PROVE  IInv'
<1>1. /\ Types /\ Chain /\ Within /\ Passed /\ DependenciesFirst /\ Needed
      /\ pc = "walk" /\ pc' \in {"walk", "overflow"} /\ allFiles' = allFiles
  BY DEF IInv, Descend, Pending
<1>2. /\ request' = request /\ named' = named
      /\ \A f : Dependencies(f)' = Dependencies(f) /\ Deps(f)' = Deps(f)
      /\ \A S : Closed(S)' <=> Closed(S)
  BY InputsKept DEF Descend
<1>3. DependenciesFirst'
  BY <1>1, <1>2 DEF DependenciesFirst
<1>4. CASE stack' = stack
  BY <1>1, <1>2, <1>3, <1>4 DEF IInv, Types, Chain, Active, Within, Passed, Needed, Complete
<1>5. CASE stack' = Append(stack, Frame(NextDependency))
  <2>1. Len(stack) \in Nat \ {0} /\ stack[1].file = request
    BY <1>1 DEF Chain, Active, Types
  <2>2. Top.file \in Files /\ Top.i \in 1..Len(Dependencies(Top.file))
    BY <1>1, <2>1, FrameType, DependenciesType DEF Descend, Pending, Top
  <2>3. NextDependency \in Files /\ NextDependency \in Deps(Top.file)
    BY <1>1, <2>2, DependenciesType DEF NextDependency
  <2>4. /\ stack' \in Seq(Frames) /\ Len(stack') = Len(stack) + 1
        /\ \A k \in 1..Len(stack) : stack'[k] = stack[k]
        /\ stack'[Len(stack')].file = NextDependency /\ stack'[Len(stack')].i = 1
    BY <1>1, <1>5, <2>3, Pushed
  <2>5. Types'
    BY <1>1, <1>2, <2>4 DEF Types
  <2>6. Chain'
    <3>1. Len(stack') > 0 /\ stack'[1].file = request
      BY <2>1, <2>4
    <3>2. ASSUME NEW k \in 1..Len(stack)
          PROVE  /\ stack'[k].i <= Len(Dependencies(stack'[k].file))
                 /\ stack'[k + 1].file = Dependencies(stack'[k].file)[stack'[k].i]
      <4>1. CASE k = Len(stack)
        BY <2>2, <2>4, <4>1 DEF Top, NextDependency
      <4>2. CASE k # Len(stack)
        <5>1. k \in 1..(Len(stack) - 1) /\ k + 1 \in 1..Len(stack)
          BY <2>1, <4>2
        <5>2. stack'[k] = stack[k] /\ stack'[k + 1] = stack[k + 1]
          BY <2>4, <5>1
        <5> QED
          BY <1>1, <5>1, <5>2 DEF Chain, Active
      <4> QED
        BY <4>1, <4>2
    <3>3. 1..(Len(stack') - 1) = 1..Len(stack)
      BY <2>1, <2>4
    <3> QED
      BY <1>2, <3>1, <3>2, <3>3 DEF Chain
  <2>7. Within'
    <3>1. ASSUME NEW k \in 1..Len(stack') PROVE stack'[k].i <= Len(Dependencies(stack'[k].file)) + 1
      <4>1. CASE k = Len(stack')
        <5>1. Len(Dependencies(NextDependency)) \in Nat
          BY <1>1, <2>3, DependenciesType
        <5> QED
          BY <2>4, <4>1, <5>1
      <4>2. CASE k # Len(stack')
        <5>1. k \in 1..Len(stack)
          BY <2>1, <2>4, <4>2
        <5> QED
          BY <1>1, <2>4, <5>1 DEF Within
      <4> QED
        BY <4>1, <4>2
    <3> QED
      BY <1>2, <3>1 DEF Within
  <2>8. Passed'
    <3>1. ASSUME NEW k \in 1..Len(stack'), NEW j \in 1..Len(Dependencies(stack'[k].file)), j < stack'[k].i
          PROVE  Dependencies(stack'[k].file)[j] \in allFiles
      <4>1. CASE k = Len(stack')
        BY <2>4, <3>1, <4>1
      <4>2. CASE k # Len(stack')
        <5>1. k \in 1..Len(stack) /\ stack'[k] = stack[k]
          BY <2>1, <2>4, <4>2
        <5> QED
          BY <1>1, <3>1, <5>1 DEF Passed
      <4> QED
        BY <4>1, <4>2
    <3> QED
      BY <1>1, <1>2, <3>1 DEF Passed
  <2>9. Needed'
    <3>1. ASSUME NEW S \in SUBSET Files, Deps(request) \subseteq S, Closed(S)
          PROVE  allFiles \subseteq S /\ \A k \in 2..Len(stack') : stack'[k].file \in S
      <4>1. allFiles \subseteq S /\ \A k \in 2..Len(stack) : stack[k].file \in S
        BY <1>1, <3>1 DEF Needed
      <4>2. Deps(Top.file) \subseteq S
        <5>1. CASE Len(stack) = 1
          BY <2>1, <3>1, <5>1 DEF Top
        <5>2. CASE Len(stack) # 1
          BY <2>1, <3>1, <4>1, <5>2 DEF Top, Closed
        <5> QED
          BY <5>1, <5>2
      <4>3. ASSUME NEW k \in 2..Len(stack') PROVE stack'[k].file \in S
        <5>1. CASE k = Len(stack')
          BY <2>3, <2>4, <4>2, <5>1
        <5>2. CASE k # Len(stack')
          BY <2>1, <2>4, <4>1, <5>2
        <5> QED
          BY <5>1, <5>2
      <4> QED
        BY <4>1, <4>3
    <3> QED
      BY <1>1, <1>2, <3>1 DEF Needed
  <2> QED
    BY <1>1, <1>3, <2>5, <2>6, <2>7, <2>8, <2>9 DEF IInv, Complete
<1> QED
  BY <1>4, <1>5 DEF Descend

\* A call that returns has found all the dependencies of its file.
LEMMA ReturnPassed ==
  ASSUME IInv, Return
  PROVE  Deps(Top.file) \subseteq allFiles
<1>1. Types /\ Passed /\ Len(stack) > 1 /\ Len(stack) \in Nat /\ ~Pending /\ pc = "walk"
  BY DEF IInv, Return, Types
<1>2. Len(stack) \in 1..Len(stack) /\ Top = stack[Len(stack)] /\ Top.file \in Files /\ Top.i \in Nat
  BY <1>1, FrameType DEF Top
<1>3. Len(Dependencies(Top.file)) \in Nat /\ Top.i > Len(Dependencies(Top.file))
  BY <1>1, <1>2, DependenciesType DEF Pending
<1>4. ASSUME NEW j \in 1..Len(Dependencies(Top.file)) PROVE Dependencies(Top.file)[j] \in allFiles
  <2>1. j < stack[Len(stack)].i
    BY <1>2, <1>3
  <2> QED
    BY <1>1, <1>2, <2>1 DEF Passed
<1> QED
  BY <1>4 DEF Deps, Members

\* A call returns: its file has passed all its dependencies when it enters allFiles.
LEMMA ReturnStep ==
  ASSUME IInv, Return
  PROVE  IInv'
<1>1. /\ Types /\ Chain /\ Within /\ Passed /\ DependenciesFirst /\ Needed
      /\ pc = "walk" /\ pc' = pc /\ allFiles' = allFiles \cup {Top.file} /\ stack' = Advanced(Below)
      /\ Len(stack) > 1 /\ Len(stack) \in Nat
  BY DEF IInv, Return, Types
<1>2. /\ request' = request /\ named' = named
      /\ \A f : Dependencies(f)' = Dependencies(f) /\ Deps(f)' = Deps(f)
      /\ \A S : Closed(S)' <=> Closed(S)
  BY InputsKept DEF Return
<1> DEFINE n == Len(stack) - 1
<1>3. n \in Nat \ {0} /\ Len(stack) = n + 1 /\ Len(stack) - 1 = n
  <2>1. ASSUME NEW l \in Nat, l > 1
        PROVE  l - 1 \in Nat \ {0} /\ l = (l - 1) + 1
    BY <2>1
  <2> QED
    BY <1>1, <2>1
<1> HIDE DEF n
<1>4. /\ stack' \in Seq(Frames) /\ Len(stack') = n
      /\ \A k \in 1..n : stack'[k].file = stack[k].file
      /\ \A k \in 1..(n - 1) : stack'[k].i = stack[k].i
      /\ stack'[n].i = stack[n].i + 1
  <2>1. /\ Below \in Seq(Frames) /\ Len(Below) = n
        /\ \A k \in 1..n : Below[k] = stack[k]
    BY <1>1, <1>3, BelowFrames
  <2>2. Below \in Seq(Frames) /\ Len(Below) > 0
    BY <1>3, <2>1
  <2>3. /\ Advanced(Below) \in Seq(Frames) /\ Len(Advanced(Below)) = Len(Below)
        /\ \A k \in 1..Len(Below) : Advanced(Below)[k].file = Below[k].file
        /\ \A k \in 1..(Len(Below) - 1) : Advanced(Below)[k].i = Below[k].i
        /\ Advanced(Below)[Len(Below)].i = Below[Len(Below)].i + 1
    BY <2>2, AdvancedFrames
  <2> QED
    BY <1>1, <1>3, <2>1, <2>3
<1>5. /\ n + 1 \in 1..Len(stack) /\ n \in 1..Len(stack) /\ Top = stack[n + 1]
      /\ Top.file \in Files /\ Top.i \in Nat
      /\ stack[n].file \in Files /\ stack[n].i \in Nat
  BY <1>1, <1>3, FrameType DEF Top
<1>6. /\ stack[n].i <= Len(Dependencies(stack[n].file))
      /\ Top.file = Dependencies(stack[n].file)[stack[n].i]
      /\ Len(Dependencies(stack[n].file)) \in Nat
  <2>1. n \in 1..(Len(stack) - 1)
    BY <1>3
  <2>2. Len(Dependencies(stack[n].file)) \in Nat
    BY <1>1, <1>5, DependenciesType
  <2> QED
    BY <1>1, <1>5, <2>1, <2>2 DEF Chain, Active
<1>7. Deps(Top.file) \subseteq allFiles
  BY ReturnPassed
<1>8. Types'
  BY <1>1, <1>2, <1>4, <1>5 DEF Types
<1>9. Chain'
  <2>1. Len(stack') > 0 /\ stack'[1].file = request
    BY <1>1, <1>3, <1>4 DEF Chain, Active
  <2>2. ASSUME NEW k \in 1..(n - 1)
        PROVE  /\ stack'[k].i <= Len(Dependencies(stack'[k].file))
               /\ stack'[k + 1].file = Dependencies(stack'[k].file)[stack'[k].i]
    <3>1. k \in 1..n /\ k + 1 \in 1..n /\ k \in 1..(Len(stack) - 1)
      BY <1>3
    <3>2. stack'[k].i = stack[k].i /\ stack'[k].file = stack[k].file /\ stack'[k + 1].file = stack[k + 1].file
      BY <1>4, <3>1
    <3> QED
      BY <1>1, <3>1, <3>2 DEF Chain, Active
  <2> QED
    BY <1>2, <1>4, <2>1, <2>2 DEF Chain
<1>10. Within'
  <2>1. ASSUME NEW k \in 1..n PROVE stack'[k].i <= Len(Dependencies(stack'[k].file)) + 1
    <3>1. CASE k = n
      <4>1. stack'[n].file = stack[n].file /\ stack'[n].i = stack[n].i + 1
        BY <1>3, <1>4
      <4>2. stack'[n].i <= Len(Dependencies(stack[n].file)) + 1
        BY <1>5, <1>6, <4>1
      <4> QED
        BY <3>1, <4>1, <4>2
    <3>2. CASE k # n
      <4>1. k \in 1..(n - 1) /\ k \in 1..Len(stack)
        BY <1>3, <3>2
      <4> QED
        BY <1>1, <1>4, <4>1 DEF Within
    <3> QED
      BY <3>1, <3>2
  <2> QED
    BY <1>2, <1>4, <2>1 DEF Within
<1>11. Passed'
  <2>1. ASSUME NEW k \in 1..n, NEW j \in 1..Len(Dependencies(stack[k].file)), j < stack'[k].i
        PROVE  Dependencies(stack[k].file)[j] \in allFiles'
    <3>1. CASE k = n /\ j = stack[n].i
      BY <1>1, <1>6, <3>1
    <3>2. CASE ~(k = n /\ j = stack[n].i)
      <4>1. stack[k].i \in Nat /\ k \in 1..Len(stack)
        BY <1>1, <1>3, FrameType
      <4>2. j < stack[k].i
        <5>1. CASE k = n
          BY <1>4, <2>1, <3>2, <4>1, <5>1
        <5>2. CASE k # n
          BY <1>3, <1>4, <2>1, <4>1, <5>2
        <5> QED
          BY <5>1, <5>2
      <4> QED
        BY <1>1, <4>1, <4>2 DEF Passed
    <3> QED
      BY <3>1, <3>2
  <2> QED
    BY <1>2, <1>4, <2>1 DEF Passed
<1>12. DependenciesFirst'
  BY <1>1, <1>2, <1>7 DEF DependenciesFirst
<1>13. Needed'
  <2>1. ASSUME NEW S \in SUBSET Files, Deps(request) \subseteq S, Closed(S)
        PROVE  allFiles' \subseteq S /\ \A k \in 2..n : stack'[k].file \in S
    <3>1. allFiles \subseteq S /\ \A k \in 2..Len(stack) : stack[k].file \in S
      BY <1>1, <2>1 DEF Needed
    <3> QED
      BY <1>1, <1>3, <1>4, <1>5, <3>1
  <2> QED
    BY <1>2, <1>4, <2>1 DEF Needed
<1> QED
  BY <1>1, <1>8, <1>9, <1>10, <1>11, <1>12, <1>13 DEF IInv, Complete

\* The outermost call has passed the dependencies of the file asked for.
LEMMA FinishStep ==
  ASSUME IInv, Finish
  PROVE  IInv'
<1>1. /\ Types /\ Chain /\ Passed /\ DependenciesFirst /\ Needed
      /\ pc = "walk" /\ pc' = "sendAll" /\ allFiles' = allFiles /\ stack' = <<>> /\ Len(stack) = 1
  BY DEF IInv, Finish
<1>2. /\ request' = request /\ named' = named
      /\ \A f : Dependencies(f)' = Dependencies(f) /\ Deps(f)' = Deps(f)
      /\ \A S : Closed(S)' <=> Closed(S)
  BY InputsKept DEF Finish
<1>3. Deps(request) \subseteq allFiles
  <2>1. Top = stack[1] /\ Top.file = request /\ Top.i \in Nat /\ request \in Files
    BY <1>1, FrameType DEF Top, Chain, Active
  <2>2. Len(Dependencies(request)) \in Nat /\ Top.i > Len(Dependencies(request))
    BY <1>1, <2>1, DependenciesType DEF Finish, Pending
  <2>3. \A j \in 1..Len(Dependencies(request)) : Dependencies(request)[j] \in allFiles
    BY <1>1, <2>1, <2>2 DEF Passed
  <2> QED
    BY <2>3 DEF Deps, Members
<1>4. <<>> \in Seq(Frames) /\ Len(<<>>) = 0
  OBVIOUS
<1>5. Types' /\ Chain' /\ Within' /\ Passed'
  BY <1>1, <1>2, <1>4 DEF Types, Chain, Active, Within, Passed
<1>6. DependenciesFirst' /\ Needed' /\ Complete'
  BY <1>1, <1>2, <1>3, <1>4 DEF DependenciesFirst, Needed, Complete
<1> QED
  BY <1>1, <1>5, <1>6 DEF IInv

\* Sending the files changes nothing about the walk.
LEMMA SendStep ==
  ASSUME IInv, SendRequested \/ SendDependency \/ Over \/ UNCHANGED vars
  PROVE  IInv'
<1>1. /\ request' = request /\ named' = named
      /\ \A f : Dependencies(f)' = Dependencies(f) /\ Deps(f)' = Deps(f)
      /\ \A S : Closed(S)' <=> Closed(S)
  BY InputsKept DEF SendRequested, SendDependency, Over, vars, inputs
<1>2. CASE SendRequested
  <2>1. Types /\ allFiles = {} /\ allFiles' = {} /\ pc' \in {"walk", "over"} /\ stack' \in {<<>>, <<Frame(request)>>}
        /\ (pc' = "walk" => stack' = <<Frame(request)>>)
    BY <1>2 DEF IInv, SendRequested
  <2>2. Frame(request) \in Frames /\ Frame(request).file = request /\ Frame(request).i = 1
    BY <2>1 DEF Frame, Frames, Types
  <2>3. /\ stack' \in Seq(Frames) /\ Len(stack') \in {0, 1}
        /\ \A k \in 1..Len(stack') : stack'[k].file = request /\ stack'[k].i = 1
        /\ (pc' = "walk" => Len(stack') = 1)
    <3>1. CASE stack' = <<>>
      BY <2>1, <3>1
    <3>2. CASE stack' = <<Frame(request)>>
      BY <2>2, <3>2
    <3> QED
      BY <2>1, <3>1, <3>2
  <2>4. Len(Dependencies(request)) \in Nat
    BY <2>1, DependenciesType DEF Types
  <2>5. Types'
    BY <1>1, <2>1, <2>3 DEF Types
  <2>6. Chain'
    BY <2>1, <2>3, <1>1 DEF Chain, Active
  <2>7. Within'
    BY <1>1, <2>3, <2>4 DEF Within
  <2>8. Passed'
    BY <1>1, <2>3, <2>4 DEF Passed
  <2>9. DependenciesFirst' /\ Needed' /\ Complete'
    BY <1>1, <2>1, <2>3 DEF DependenciesFirst, Needed, Complete
  <2> QED
    BY <2>1, <2>5, <2>6, <2>7, <2>8, <2>9 DEF IInv
<1>3. CASE ~SendRequested
  <2>1. stack' = stack /\ allFiles' = allFiles /\ (pc' = pc \/ pc' = "over")
    BY <1>3 DEF SendDependency, Over, vars
  <2>2. Types' /\ Chain' /\ Within' /\ Passed'
    BY <1>1, <2>1 DEF IInv, Types, Chain, Active, Within, Passed
  <2>3. DependenciesFirst' /\ Needed' /\ Complete'
    BY <1>1, <2>1 DEF IInv, DependenciesFirst, Needed, Complete
  <2> QED
    BY <2>1, <2>2, <2>3 DEF IInv
<1> QED
  BY <1>2, <1>3

\* The first state: no call has been made.
LEMMA Initially ==
  ASSUME Init
  PROVE  IInv
<1>1. stack = <<>>
  BY Zenon DEF Init
<1>2. allFiles = {} /\ pc = "send"
  BY Zenon DEF Init
<1>3. <<>> \in Seq(Frames) /\ Len(<<>>) = 0
  OBVIOUS
<1>4. stack \in Seq(Frames) /\ Len(stack) = 0
  BY <1>1, <1>3
<1>5. named \in [Files -> Seq(Files)] /\ request \in Files
  BY Zenon, FilesAssumption DEF Init
<1>6. Types
  BY <1>2, <1>4, <1>5 DEF Types
<1>7. Chain /\ Within /\ Passed
  BY <1>2, <1>4 DEF Chain, Active, Within, Passed
<1>8. DependenciesFirst /\ Needed /\ Complete
  BY <1>2, <1>4 DEF DependenciesFirst, Needed, Complete
<1> QED
  BY <1>1, <1>2, <1>6, <1>7, <1>8 DEF IInv

\* The inductive invariant holds always.
THEOREM Invariance == Spec => []IInv
<1>1. Init => IInv
  BY Initially
<1>2. IInv /\ [Next]_vars => IInv'
  BY SkipStep, DescendStep, ReturnStep, FinishStep, SendStep DEF Next
<1> QED
  BY <1>1, <1>2, PTL DEF Spec

------------------------------------------------------------------------------
\* Whatever the graph, circles included, the set the walk skips by is closed: a
\* file in it has all its dependencies in it.
THEOREM ClosedAlways == Spec => []DependenciesFirst
<1>1. IInv => DependenciesFirst
  BY DEF IInv
<1> QED
  BY <1>1, Invariance, PTL

\* A set that has the dependencies of the file asked for is what is reached from it.
LEMMA Exact ==
  ASSUME IInv, Deps(request) \subseteq allFiles
  PROVE  allFiles = Reachable(Read, request)
<1>1. /\ Types /\ Needed /\ allFiles \in SUBSET Files /\ request \in Files /\ Closed(allFiles)
  BY DEF IInv, Types, DependenciesFirst, Closed
<1>2. \A f \in Files : Read[f] = Deps(f)
  BY DEF Read
<1>3. allFiles \subseteq Reachable(Read, request)
  <2>1. ASSUME NEW g \in allFiles, NEW S \in SUBSET Files, Read[request] \subseteq S, \A h \in S : Read[h] \subseteq S
        PROVE  g \in S
    <3>1. Deps(request) \subseteq S /\ Closed(S)
      BY <1>1, <1>2, <2>1 DEF Closed
    <3> QED
      BY <1>1, <3>1 DEF Needed
  <2> QED
    BY <1>1, <2>1 DEF Reachable
<1>4. Reachable(Read, request) \subseteq allFiles
  BY <1>1, <1>2 DEF Reachable, Closed
<1> QED
  BY <1>3, <1>4

\* When the walk is over, allFiles is exactly what the file asked for depends on,
\* directly or through others.
THEOREM WalkIsExact == Spec => []FindsReachable
<1>1. IInv => FindsReachable
  BY Exact DEF IInv, Complete, FindsReachable
<1> QED
  BY <1>1, Invariance, PTL

\* The walk of getAllDepFilesHelper is closed at every moment and exact in the end.
THEOREM WalkAlwaysRight == Spec => []WalkIsRight
  BY ClosedAlways, WalkIsExact, PTL DEF WalkIsRight

------------------------------------------------------------------------------
(* Circles.                                                                  *)

\* Each frame's file is reached from those of the frames below it.
Descends == \A k \in 1..Len(stack) : \A j \in 1..(k - 1) :
              stack[k].file \in Reachable(Read, stack[j].file)

\* No file that was found is on a circle.
Acyclic == \A f \in allFiles : f \notin Reachable(Read, f)

\* The stack overflows when it has the most frames there is room for.
Deep == Len(stack) <= MaxDepth /\ (pc = "overflow" => Len(stack) = MaxDepth)

Circles == Descends /\ Acyclic /\ WalkedOnce /\ Deep

\* What f depends on is reached from f, and what that depends on.
LEMMA ReachSteps ==
  ASSUME Types, NEW f \in Files
  PROVE  /\ Deps(f) \subseteq Reachable(Read, f)
         /\ \A g \in Reachable(Read, f) : Deps(g) \subseteq Reachable(Read, f)
<1>1. \A g \in Files : Read[g] = Deps(g) /\ Deps(g) \subseteq Files
  <2>1. SUFFICES ASSUME NEW g \in Files PROVE Read[g] = Deps(g) /\ Deps(g) \subseteq Files
    OBVIOUS
  <2>2. \A j \in 1..Len(Dependencies(g)) : Dependencies(g)[j] \in Files
    BY DependenciesType
  <2> QED
    BY <2>2 DEF Read, Deps, Members
<1>2. Deps(f) \subseteq Reachable(Read, f)
  BY <1>1 DEF Reachable
<1>3. ASSUME NEW g \in Reachable(Read, f) PROVE Deps(g) \subseteq Reachable(Read, f)
  <2>1. g \in Files
    BY DEF Reachable
  <2>2. ASSUME NEW S \in SUBSET Files, Read[f] \subseteq S, \A h \in S : Read[h] \subseteq S
        PROVE  Deps(g) \subseteq S
    <3>1. g \in S
      BY <2>2 DEF Reachable
    <3> QED
      BY <1>1, <2>1, <2>2, <3>1
  <2> QED
    BY <1>1, <2>1, <2>2 DEF Reachable
<1> QED
  BY <1>2, <1>3

\* A set with the dependencies of f that is closed has all that is reached from f.
LEMMA ReachWithin ==
  ASSUME NEW f \in Files, NEW S \in SUBSET Files, Deps(f) \subseteq S, Closed(S)
  PROVE  Reachable(Read, f) \subseteq S
<1>1. Read[f] \subseteq S /\ \A h \in S : Read[h] \subseteq S
  BY DEF Read, Closed
<1> QED
  BY <1>1 DEF Reachable

\* What a step does to the frames and to what was found: nothing, a walk begins or
\* ends, a call is made, or a call returns.
LEMMA WalkSteps ==
  ASSUME IInv, [Next]_vars
  PROVE  /\ Read' = Read
         /\ \/ /\ Len(stack') = Len(stack) /\ allFiles' = allFiles
               /\ \A k \in 1..Len(stack) : stack'[k].file = stack[k].file
            \/ Len(stack') <= 1 /\ allFiles' = allFiles
            \/ /\ Len(stack) > 0 /\ Len(stack') = Len(stack) + 1 /\ allFiles' = allFiles
               /\ \A k \in 1..Len(stack) : stack'[k].file = stack[k].file
               /\ stack'[Len(stack) + 1].file \in Deps(stack[Len(stack)].file)
               /\ ~Known(stack'[Len(stack) + 1].file)
            \/ /\ Len(stack) > 1 /\ Len(stack') = Len(stack) - 1
               /\ allFiles' = allFiles \cup {stack[Len(stack)].file}
               /\ \A k \in 1..Len(stack') : stack'[k].file = stack[k].file
               /\ Deps(stack[Len(stack)].file) \subseteq allFiles
<1>1. Types /\ Chain /\ Len(stack) \in Nat /\ stack \in Seq(Frames)
  BY DEF IInv, Types
<1>2. Read' = Read
  <2>1. UNCHANGED inputs
    BY DEF Next, SendRequested, Skip, Descend, Return, Finish, SendDependency, Over, vars, inputs
  <2>2. \A f : Deps(f)' = Deps(f)
    BY <2>1, InputsKept
  <2> QED
    BY <2>2 DEF Read
<1>3. CASE Skip
  <2>1. pc = "walk" /\ stack' = Advanced(stack) /\ allFiles' = allFiles
    BY <1>3 DEF Skip, Pending
  <2>2. Len(stack) > 0
    BY <1>1, <2>1 DEF Chain, Active
  <2> QED
    BY <1>1, <1>2, <2>1, <2>2, AdvancedFrames
<1>4. CASE Descend
  <2>1. /\ pc = "walk" /\ allFiles' = allFiles /\ ~Known(NextDependency)
        /\ Top.i <= Len(Dependencies(Top.file))
        /\ stack' = stack \/ stack' = Append(stack, Frame(NextDependency))
    BY <1>4 DEF Descend, Pending
  <2>2. Len(stack) > 0
    BY <1>1, <2>1 DEF Chain, Active
  <2>3. Top.file \in Files /\ Top.i \in 1..Len(Dependencies(Top.file)) /\ Top = stack[Len(stack)]
    BY <1>1, <2>1, <2>2, FrameType, DependenciesType DEF Top
  <2>4. NextDependency \in Files /\ NextDependency \in Deps(Top.file)
    BY <1>1, <2>3, DependenciesType DEF NextDependency
  <2>5. CASE stack' = stack
    BY <1>2, <2>1, <2>5
  <2>6. CASE stack' = Append(stack, Frame(NextDependency))
    <3>1. /\ Len(stack') = Len(stack) + 1
          /\ \A k \in 1..Len(stack) : stack'[k] = stack[k]
          /\ stack'[Len(stack')].file = NextDependency
      BY <1>1, <2>4, <2>6, Pushed
    <3> QED
      BY <1>2, <2>1, <2>2, <2>3, <2>4, <3>1
  <2> QED
    BY <2>1, <2>5, <2>6
<1>5. CASE Return
  <2>1. /\ Len(stack) > 1 /\ stack' = Advanced(Below) /\ Top = stack[Len(stack)]
        /\ allFiles' = allFiles \cup {Top.file}
    BY <1>5 DEF Return, Top
  <2>2. /\ Below \in Seq(Frames) /\ Len(Below) = Len(stack) - 1
        /\ \A k \in 1..Len(Below) : Below[k] = stack[k]
    BY <1>1, <2>1, BelowFrames
  <2>3. Len(Below) > 0
    BY <1>1, <2>1, <2>2
  <2>4. Len(stack') = Len(Below) /\ \A k \in 1..Len(Below) : stack'[k].file = Below[k].file
    BY <2>1, <2>2, <2>3, AdvancedFrames
  <2>5. Deps(Top.file) \subseteq allFiles
    BY <1>5, ReturnPassed
  <2> QED
    BY <1>2, <2>1, <2>2, <2>4, <2>5
<1>6. CASE SendRequested
  <2>1. stack' = <<>> \/ stack' = <<Frame(request)>>
    BY <1>6 DEF SendRequested
  <2>2. Len(stack') <= 1
    <3>1. CASE stack' = <<>>
      BY <3>1
    <3>2. CASE stack' = <<Frame(request)>>
      BY <3>2
    <3> QED
      BY <2>1, <3>1, <3>2
  <2>3. allFiles' = allFiles
    BY <1>6 DEF SendRequested
  <2> QED
    BY <1>2, <2>2, <2>3
<1>7. CASE Finish
  <2>1. stack' = <<>> /\ allFiles' = allFiles
    BY <1>7 DEF Finish
  <2>2. Len(stack') <= 1
    BY <2>1
  <2> QED
    BY <1>2, <2>1, <2>2
<1>8. CASE SendDependency \/ Over \/ UNCHANGED vars
  <2>1. stack' = stack /\ allFiles' = allFiles
    BY <1>8 DEF SendDependency, Over, vars
  <2> QED
    BY <1>2, <2>1
<1> QED
  BY <1>3, <1>4, <1>5, <1>6, <1>7, <1>8 DEF Next

\* A step keeps what is said about circles, except how deep the stack is.
LEMMA CirclesKept ==
  ASSUME IInv, Types', Circles, [Next]_vars
  PROVE  Descends' /\ Acyclic' /\ WalkedOnce'
<1>1. /\ Types /\ DependenciesFirst /\ Descends /\ Acyclic /\ WalkedOnce
      /\ Len(stack) \in Nat /\ Read' = Read
  BY WalkSteps DEF IInv, Circles, Types
<1>2. \A k \in 1..Len(stack) : stack[k].file \in Files
  BY <1>1, FrameType
<1>3. CASE /\ Len(stack') = Len(stack) /\ allFiles' = allFiles
           /\ \A k \in 1..Len(stack) : stack'[k].file = stack[k].file
  <2>1. Descends'
    BY <1>1, <1>3 DEF Descends
  <2>2. Acyclic' /\ WalkedOnce'
    BY <1>1, <1>3 DEF Acyclic, WalkedOnce
  <2> QED
    BY <2>1, <2>2
<1>4. CASE Len(stack') <= 1 /\ allFiles' = allFiles
  <2>1. \A n \in Nat : n <= 1 => \A k \in 1..n : 1..(k - 1) = {}
    OBVIOUS
  <2>2. Len(stack') \in Nat
    BY DEF Types
  <2>3. \A k \in 1..Len(stack') : 1..(k - 1) = {}
    BY <1>4, <2>1, <2>2
  <2>4. Descends'
    BY <2>3 DEF Descends
  <2>5. Acyclic' /\ WalkedOnce'
    BY <1>1, <1>4, <2>2 DEF Acyclic, WalkedOnce
  <2> QED
    BY <2>4, <2>5
<1>5. CASE /\ Len(stack) > 0 /\ Len(stack') = Len(stack) + 1 /\ allFiles' = allFiles
           /\ \A k \in 1..Len(stack) : stack'[k].file = stack[k].file
           /\ stack'[Len(stack) + 1].file \in Deps(stack[Len(stack)].file)
           /\ ~Known(stack'[Len(stack) + 1].file)
  <2>1. \A k \in 1..Len(stack') : k \in 1..Len(stack) \/ k = Len(stack) + 1
    BY <1>1, <1>5
  <2>2. ASSUME NEW j \in 1..Len(stack)
        PROVE  stack'[Len(stack) + 1].file \in Reachable(Read, stack[j].file)
    <3>1. Len(stack) \in 1..Len(stack)
      BY <1>1, <1>5
    <3>2. CASE j = Len(stack)
      <4>1. Deps(stack[Len(stack)].file) \subseteq Reachable(Read, stack[Len(stack)].file)
        BY <1>1, <1>2, <3>1, ReachSteps
      <4> QED
        BY <1>5, <3>2, <4>1
    <3>3. CASE j # Len(stack)
      <4>1. j \in 1..(Len(stack) - 1)
        BY <1>1, <3>3
      <4>2. stack[Len(stack)].file \in Reachable(Read, stack[j].file)
        BY <1>1, <3>1, <4>1 DEF Descends
      <4>3. Deps(stack[Len(stack)].file) \subseteq Reachable(Read, stack[j].file)
        BY <1>1, <1>2, <4>2, ReachSteps
      <4> QED
        BY <1>5, <4>3
    <3> QED
      BY <3>2, <3>3
  <2>3. ASSUME NEW k \in 1..Len(stack'), NEW j \in 1..(k - 1)
        PROVE  stack'[k].file \in Reachable(Read, stack'[j].file)
    <3>1. CASE k \in 1..Len(stack)
      <4>1. j \in 1..Len(stack)
        BY <1>1, <3>1
      <4> QED
        BY <1>1, <1>5, <3>1, <4>1 DEF Descends
    <3>2. CASE k = Len(stack) + 1
      <4>1. j \in 1..Len(stack)
        BY <1>1, <3>2
      <4> QED
        BY <1>5, <2>2, <3>2, <4>1
    <3> QED
      BY <2>1, <3>1, <3>2
  <2>4. Descends'
    BY <1>1, <2>3 DEF Descends
  <2>5. ASSUME NEW k \in 2..Len(stack') PROVE stack'[k].file \notin ByFullPath \cap allFiles
    <3>1. CASE k = Len(stack) + 1
      BY <1>5, <3>1 DEF Known
    <3>2. CASE k # Len(stack) + 1
      <4>1. k \in 2..Len(stack) /\ k \in 1..Len(stack)
        BY <1>1, <1>5, <3>2
      <4> QED
        BY <1>1, <1>5, <4>1 DEF WalkedOnce
    <3> QED
      BY <3>1, <3>2
  <2>6. WalkedOnce'
    BY <1>5, <2>5 DEF WalkedOnce
  <2>7. Acyclic'
    BY <1>1, <1>5 DEF Acyclic
  <2> QED
    BY <2>4, <2>6, <2>7
<1>6. CASE /\ Len(stack) > 1 /\ Len(stack') = Len(stack) - 1
           /\ allFiles' = allFiles \cup {stack[Len(stack)].file}
           /\ \A k \in 1..Len(stack') : stack'[k].file = stack[k].file
           /\ Deps(stack[Len(stack)].file) \subseteq allFiles
  <2> DEFINE t == stack[Len(stack)].file
  <2>0. Len(stack) \in 1..Len(stack) /\ t \in Files
    BY <1>1, <1>2, <1>6
  <2>1. t \notin Reachable(Read, t)
    <3>1. CASE t \in allFiles
      BY <1>1, <3>1 DEF Acyclic
    <3>2. CASE t \notin allFiles
      <4>1. allFiles \in SUBSET Files /\ Closed(allFiles)
        BY <1>1 DEF Types, DependenciesFirst, Closed
      <4>2. Reachable(Read, t) \subseteq allFiles
        BY <1>6, <2>0, <4>1, ReachWithin
      <4> QED
        BY <3>2, <4>2
    <3> QED
      BY <3>1, <3>2
  <2>2. Acyclic'
    BY <1>1, <1>6, <2>1 DEF Acyclic
  <2>3. \A k \in 1..Len(stack') : k \in 1..Len(stack) /\ k \in 1..(Len(stack) - 1)
    BY <1>1, <1>6
  <2>4. ASSUME NEW k \in 1..Len(stack') PROVE t \in Reachable(Read, stack[k].file)
    BY <1>1, <2>0, <2>3 DEF Descends
  <2>5. ASSUME NEW k \in 1..Len(stack'), NEW j \in 1..(k - 1)
        PROVE  stack'[k].file \in Reachable(Read, stack'[j].file)
    <3>1. j \in 1..Len(stack')
      BY <1>1, <1>6
    <3>2. stack[k].file \in Reachable(Read, stack[j].file)
      BY <1>1, <2>3 DEF Descends
    <3> QED
      BY <1>6, <3>1, <3>2
  <2>6. Descends'
    BY <1>1, <2>5 DEF Descends
  <2>7. ASSUME NEW k \in 2..Len(stack') PROVE stack'[k].file \notin ByFullPath \cap allFiles'
    <3>1. k \in 1..Len(stack') /\ k \in 2..Len(stack)
      BY <1>1, <1>6
    <3>2. stack[k].file \notin ByFullPath \cap allFiles
      BY <1>1, <3>1 DEF WalkedOnce
    <3>3. stack[k].file # t
      BY <2>1, <2>4, <3>1
    <3> QED
      BY <1>6, <3>1, <3>2, <3>3
  <2>8. WalkedOnce'
    BY <2>7 DEF WalkedOnce
  <2> QED
    BY <2>2, <2>6, <2>8
<1> QED
  BY <1>3, <1>4, <1>5, <1>6, WalkSteps

\* The stack never has more frames than there is room for.
LEMMA DeepKept ==
  ASSUME IInv, Deep, [Next]_vars
  PROVE  Deep'
<1>1. Types /\ Len(stack) \in Nat /\ Len(stack) <= MaxDepth /\ MaxDepth \in Nat /\ MaxDepth >= 1
  BY DepthAssumption, FilesAssumption, FS_CardinalityType DEF IInv, Types, Deep
<1>2. CASE Skip
  <2>1. pc = "walk" /\ pc' = pc /\ stack' = Advanced(stack)
    BY <1>2 DEF Skip, Pending
  <2>2. Len(stack) > 0
    BY <2>1 DEF IInv, Chain, Active
  <2>3. Len(stack') = Len(stack)
    BY <1>1, <2>1, <2>2, AdvancedFrames DEF Types
  <2> QED
    BY <1>1, <2>1, <2>3 DEF Deep
<1>3. CASE Descend
  <2>1. pc = "walk" /\ IF Len(stack) < MaxDepth
                       THEN stack' = Append(stack, Frame(NextDependency)) /\ pc' = pc
                       ELSE stack' = stack /\ pc' = "overflow"
    BY <1>3 DEF Descend, Pending
  <2>2. CASE Len(stack) < MaxDepth
    <3>1. Len(stack') = Len(stack) + 1 /\ pc' = "walk"
      BY <1>1, <2>1, <2>2 DEF Types
    <3> QED
      BY <1>1, <2>2, <3>1 DEF Deep
  <2>3. CASE ~(Len(stack) < MaxDepth)
    <3>1. stack' = stack /\ Len(stack) = MaxDepth
      BY <1>1, <2>1, <2>3
    <3> QED
      BY <1>1, <3>1 DEF Deep
  <2> QED
    BY <2>2, <2>3
<1>4. CASE Return
  <2>1. /\ pc = "walk" /\ pc' = pc /\ Len(stack) > 1 /\ stack' = Advanced(Below)
    BY <1>4 DEF Return
  <2>2. Below \in Seq(Frames) /\ Len(Below) = Len(stack) - 1
    BY <1>1, <2>1, BelowFrames
  <2>3. Len(Below) > 0
    BY <1>1, <2>1, <2>2
  <2>4. Len(stack') = Len(stack) - 1
    BY <2>1, <2>2, <2>3, AdvancedFrames
  <2> QED
    BY <1>1, <2>1, <2>4 DEF Deep
<1>5. CASE SendRequested \/ Finish
  <2>1. pc' # "overflow" /\ (stack' = <<>> \/ stack' = <<Frame(request)>>)
    BY <1>5 DEF SendRequested, Finish
  <2>2. Len(stack') <= 1
    <3>1. CASE stack' = <<>>
      BY <3>1
    <3>2. CASE stack' = <<Frame(request)>>
      BY <3>2
    <3> QED
      BY <2>1, <3>1, <3>2
  <2>3. Len(stack') \in Nat
    <3>1. CASE stack' = <<>>
      BY <3>1
    <3>2. CASE stack' = <<Frame(request)>>
      BY <3>2
    <3> QED
      BY <2>1, <3>1, <3>2
  <2> QED
    BY <1>1, <2>1, <2>2, <2>3 DEF Deep
<1>6. CASE SendDependency \/ Over \/ UNCHANGED vars
  <2>1. stack' = stack /\ (pc' = "overflow" => pc = "overflow")
    BY <1>6 DEF SendDependency, Over, vars
  <2> QED
    BY <1>1, <2>1 DEF Deep
<1> QED
  BY <1>2, <1>3, <1>4, <1>5, <1>6 DEF Next

\* More frames than there are files: two of them are of the same file.
LEMMA TwoAlike ==
  ASSUME Types, Deep, pc = "overflow"
  PROVE  \E j, k \in 1..Len(stack) : j < k /\ stack[j].file = stack[k].file
<1>1. IsFiniteSet(Files) /\ Cardinality(Files) \in Nat /\ MaxDepth \in Nat /\ MaxDepth > Cardinality(Files)
  BY FilesAssumption, DepthAssumption, FS_CardinalityType
<1>2. Len(stack) = MaxDepth
  BY DEF Deep
<1>3. IsFiniteSet(1..MaxDepth) /\ Cardinality(1..MaxDepth) = MaxDepth
  <2>1. 1 \in Int /\ MaxDepth \in Int /\ ~(1 > MaxDepth) /\ MaxDepth - 1 + 1 = MaxDepth
    BY <1>1
  <2>2. IsFiniteSet(1..MaxDepth)
        /\ Cardinality(1..MaxDepth) = IF 1 > MaxDepth THEN 0 ELSE MaxDepth - 1 + 1
    BY <2>1, FS_Interval
  <2> QED
    BY <2>1, <2>2
<1> DEFINE fileAt == [k \in 1..MaxDepth |-> stack[k].file]
<1>4. fileAt \in [1..MaxDepth -> Files]
  BY <1>2, FrameType
<1> HIDE DEF fileAt
<1>5. Cardinality(Files) < Cardinality(1..MaxDepth)
  BY <1>1, <1>3
<1>6. PICK j, k \in 1..MaxDepth : j # k /\ fileAt[j] = fileAt[k]
  BY <1>1, <1>3, <1>4, <1>5, FS_PigeonHole
<1>7. stack[j].file = stack[k].file
  BY <1>6 DEF fileAt
<1>8. j < k \/ k < j
  BY <1>1, <1>6
<1> QED
  BY <1>2, <1>7, <1>8

\* The invariant about circles says what the run checks of them.
LEMMA CirclesSuffice ==
  ASSUME IInv, Circles
  PROVE  OnlyCirclesRepeat
<1>1. Types /\ Chain /\ Descends /\ Acyclic /\ WalkedOnce /\ Deep
  BY DEF IInv, Circles
<1>2. ASSUME pc = "overflow"
      PROVE  \E f \in Reachable(Read, request) : f \in Reachable(Read, f)
  <2>1. PICK j, k \in 1..Len(stack) : j < k /\ stack[j].file = stack[k].file
    BY <1>1, <1>2, TwoAlike
  <2>2. Len(stack) \in Nat /\ stack[1].file = request
    BY <1>1, <1>2 DEF Types, Chain, Active
  <2>3. 1 \in 1..(k - 1) /\ j \in 1..(k - 1)
    BY <2>1, <2>2
  <2>4. stack[k].file \in Reachable(Read, request) /\ stack[k].file \in Reachable(Read, stack[k].file)
    BY <1>1, <2>1, <2>2, <2>3 DEF Descends
  <2> QED
    BY <2>4
<1>3. ASSUME pc = "sendAll"
      PROVE  \A f \in Reachable(Read, request) : f \notin Reachable(Read, f)
  <2>1. allFiles = Reachable(Read, request)
    BY <1>3, Exact DEF IInv, Complete
  <2> QED
    BY <1>1, <2>1 DEF Acyclic
<1> QED
  BY <1>1, <1>2, <1>3 DEF OnlyCirclesRepeat, OnlyCirclesOverflow

\* The invariant about circles holds always.
THEOREM CirclesFound == Spec => []Circles
<1>1. Init => Circles
  <2> SUFFICES ASSUME Init PROVE Circles
    OBVIOUS
  <2>2. stack = <<>> /\ allFiles = {} /\ pc = "send"
    BY Zenon DEF Init
  <2>3. Len(stack) = 0
    BY <2>2
  <2>4. MaxDepth \in Nat
    BY DepthAssumption
  <2> QED
    BY <2>2, <2>3, <2>4 DEF Circles, Descends, Acyclic, WalkedOnce, Deep
<1>2. IInv /\ IInv' /\ Circles /\ [Next]_vars => Circles'
  <2> SUFFICES ASSUME IInv, IInv', Circles, [Next]_vars PROVE Circles'
    OBVIOUS
  <2>2. Types'
    BY DEF IInv
  <2>3. Deep
    BY DEF Circles
  <2>4. Deep'
    BY <2>3, DeepKept
  <2>5. Descends' /\ Acyclic' /\ WalkedOnce'
    BY <2>2, CirclesKept
  <2> QED
    BY <2>4, <2>5 DEF Circles
<1> QED
  BY <1>1, <1>2, Invariance, PTL DEF Spec

\* For every dependency graph, the recursion exhausts its stack only where files depend
\* on one another in a circle, a walk that ends has met no circle, and a file that is
\* recognised is not walked through after it was found.
THEOREM OnlyCirclesEver == Spec => []OnlyCirclesRepeat
<1>1. IInv /\ Circles => OnlyCirclesRepeat
  BY CirclesSuffice
<1> QED
  BY <1>1, Invariance, CirclesFound, PTL

------------------------------------------------------------------------------
(* What is sent.                                                             *)

\* The file asked for comes first, then what was found and is no longer to be sent.
Delivered ==
  /\ sent \in Seq(Files \ Missing)
  /\ \A j, k \in 1..Len(sent) : j # k => sent[j] # sent[k]
  /\ Members(sent) = ({request} \cup (allFiles \ toSend)) \ Missing
  /\ toSend \subseteq allFiles /\ request \notin allFiles

Sending ==
  /\ withDeps \in BOOLEAN /\ request \in Files \ Missing
  /\ pc \in {"send", "walk", "overflow", "sendAll", "over"}
  /\ pc = "send" => sent = <<>> /\ toSend = {}
  /\ pc \in {"walk", "overflow"} => sent = <<request>> /\ toSend = {}
  /\ pc \in {"sendAll", "over"} => Delivered
  /\ pc = "over" => toSend = {}
  /\ pc = "over" /\ withDeps => Deps(request) \subseteq allFiles

\* One file more is sent.
LEMMA OneMore ==
  ASSUME NEW s \in Seq(Files \ Missing), NEW f \in Files \ Missing
  PROVE  /\ Append(s, f) \in Seq(Files \ Missing)
         /\ Members(Append(s, f)) = Members(s) \cup {f}
         /\ (\A j, k \in 1..Len(s) : j # k => s[j] # s[k]) /\ f \notin Members(s) =>
              \A j, k \in 1..Len(Append(s, f)) : j # k => Append(s, f)[j] # Append(s, f)[k]
<1>1. /\ Append(s, f) \in Seq(Files \ Missing) /\ Len(Append(s, f)) = Len(s) + 1
      /\ Append(s, f)[Len(s) + 1] = f
      /\ \A k \in 1..Len(s) : Append(s, f)[k] = s[k]
      /\ Len(s) \in Nat
  BY AppendProperties, LenProperties
<1>2. \A k \in 1..(Len(s) + 1) : k \in 1..Len(s) \/ k = Len(s) + 1
  BY <1>1
<1>3. Len(s) + 1 \in 1..(Len(s) + 1) /\ 1..Len(s) \subseteq 1..(Len(s) + 1)
  BY <1>1
<1>4. Members(Append(s, f)) = Members(s) \cup {f}
  BY <1>1, <1>2, <1>3 DEF Members
<1>5. ASSUME \A j, k \in 1..Len(s) : j # k => s[j] # s[k], f \notin Members(s),
             NEW j \in 1..Len(Append(s, f)), NEW k \in 1..Len(Append(s, f)), j # k
      PROVE  Append(s, f)[j] # Append(s, f)[k]
  <2>1. \A i \in 1..Len(s) : s[i] # f
    BY <1>5 DEF Members
  <2> QED
    BY <1>1, <1>2, <1>5, <2>1
<1> QED
  BY <1>1, <1>4, <1>5

\* The sequence with the file asked for alone.
LEMMA OnlyRequested ==
  ASSUME request \in Files \ Missing
  PROVE  /\ <<request>> \in Seq(Files \ Missing) /\ Members(<<request>>) = {request}
         /\ \A j, k \in 1..Len(<<request>>) : j # k => <<request>>[j] # <<request>>[k]
<1>1. <<request>> \in Seq(Files \ Missing) /\ Len(<<request>>) = 1 /\ <<request>>[1] = request
  OBVIOUS
<1>2. \A k \in 1..1 : k = 1
  OBVIOUS
<1>3. 1 \in 1..1
  OBVIOUS
<1>4. Members(<<request>>) = {request}
  BY <1>1, <1>2, <1>3 DEF Members
<1> QED
  BY <1>1, <1>2, <1>4

\* A step sends nothing twice and loses nothing.
LEMMA SendingKept ==
  ASSUME IInv, IInv', Circles, Sending, [Next]_vars
  PROVE  Sending'
<1>1. /\ request' = request /\ withDeps' = withDeps /\ withDeps \in BOOLEAN /\ request \in Files \ Missing
      /\ Deps(request)' = Deps(request)
  <2>1. UNCHANGED inputs
    BY DEF Next, SendRequested, Skip, Descend, Return, Finish, SendDependency, Over, vars, inputs
  <2>2. request' = request
    BY <2>1 DEF inputs
  <2>3. \A f : Deps(f)' = Deps(f)
    BY <2>1, InputsKept
  <2>4. Deps(request)' = Deps(request)
    BY <2>2, <2>3 DEF Deps, Dependencies
  <2> QED
    BY <2>1, <2>4 DEF inputs, Sending
<1>2. CASE SendRequested
  <2>1. /\ pc = "send" /\ sent = <<>> /\ toSend = {} /\ toSend' = {} /\ allFiles = {} /\ allFiles' = {}
        /\ sent' = Append(sent, request)
        /\ IF withDeps THEN pc' = "walk" ELSE pc' = "over"
    BY <1>1, <1>2 DEF SendRequested, Send, Sending, IInv
  <2>2. sent' = <<request>>
    BY <2>1
  <2>3. Delivered'
    BY <1>1, <2>1, <2>2, OnlyRequested DEF Delivered
  <2>4. pc' = "over" => ~withDeps'
    BY <1>1, <2>1
  <2> QED
    BY <1>1, <2>1, <2>2, <2>3, <2>4 DEF Sending
<1>3. CASE Skip \/ Descend \/ Return
  <2>1. pc = "walk" /\ pc' \in {"walk", "overflow"} /\ sent' = sent /\ toSend' = toSend
    BY <1>3 DEF Skip, Descend, Return, Pending
  <2> QED
    BY <1>1, <2>1 DEF Sending
<1>4. CASE Finish
  <2>1. pc = "walk" /\ pc' = "sendAll" /\ sent' = sent /\ toSend' = allFiles /\ allFiles' = allFiles
        /\ sent = <<request>>
    BY <1>4 DEF Finish, Sending
  <2>2. Deps(request) \subseteq allFiles
    BY <1>1, <2>1 DEF IInv, Complete
  <2>3. request \notin allFiles
    <3>1. allFiles = Reachable(Read, request)
      BY <2>2, Exact
    <3> QED
      BY <3>1 DEF Circles, Acyclic
  <2>4. Delivered'
    BY <1>1, <2>1, <2>3, OnlyRequested DEF Delivered
  <2> QED
    BY <1>1, <2>1, <2>4 DEF Sending
<1>5. CASE SendDependency
  <2>1. PICK f \in toSend : Send(f) /\ toSend' = toSend \ {f}
    BY <1>5 DEF SendDependency
  <2>2. pc = "sendAll" /\ pc' = pc /\ allFiles' = allFiles /\ Delivered
    BY <1>5 DEF SendDependency, Sending
  <2>3. f \in Files /\ f \in allFiles /\ f # request
    BY <2>1, <2>2 DEF Delivered, IInv, Types
  <2>4. Delivered'
    <3>1. CASE f \in Missing
      BY <1>1, <2>1, <2>2, <2>3, <3>1 DEF Delivered, Send
    <3>2. CASE f \notin Missing
      <4>1. sent' = Append(sent, f)
        BY <2>1, <3>2 DEF Send
      <4>2. f \notin Members(sent)
        BY <2>1, <2>2, <2>3 DEF Delivered
      <4>3. /\ sent' \in Seq(Files \ Missing) /\ Members(sent') = Members(sent) \cup {f}
            /\ \A j, k \in 1..Len(sent') : j # k => sent'[j] # sent'[k]
        BY <2>2, <2>3, <3>2, <4>1, <4>2, OneMore DEF Delivered
      <4>4. Members(sent') = ({request} \cup (allFiles \ toSend')) \ Missing
        BY <2>1, <2>2, <2>3, <3>2, <4>3 DEF Delivered
      <4> QED
        BY <1>1, <2>1, <2>2, <4>3, <4>4 DEF Delivered
    <3> QED
      BY <3>1, <3>2
  <2> QED
    BY <1>1, <2>2, <2>4 DEF Sending
<1>6. CASE Over
  <2>1. pc = "sendAll" /\ pc' = "over" /\ toSend = {} /\ UNCHANGED <<allFiles, toSend, sent>> /\ Delivered
    BY <1>6 DEF Over, Sending
  <2>2. Deps(request) \subseteq allFiles
    BY <2>1 DEF IInv, Complete
  <2>3. Delivered'
    BY <1>1, <2>1 DEF Delivered
  <2> QED
    BY <1>1, <2>1, <2>2, <2>3 DEF Sending
<1>7. CASE UNCHANGED vars
  <2>1. UNCHANGED <<pc, allFiles, toSend, sent>>
    BY <1>7 DEF vars
  <2>2. Delivered <=> Delivered'
    BY <1>1, <2>1 DEF Delivered
  <2> QED
    BY <1>1, <2>1, <2>2 DEF Sending
<1> QED
  BY <1>2, <1>3, <1>4, <1>5, <1>6, <1>7 DEF Next

\* The invariant about what is sent says what the run checks of it.
LEMMA SendingSuffices ==
  ASSUME IInv, Circles, Sending
  PROVE  SendsHold
<1>1. /\ Types /\ Within /\ Deep /\ request \in Files \ Missing
  BY DEF IInv, Circles, Sending
<1>2. toSend \subseteq allFiles /\ sent \in Seq(Files \ Missing)
  <2>1. CASE pc \in {"sendAll", "over"}
    BY <2>1 DEF Sending, Delivered
  <2>2. CASE pc = "send"
    <3>1. sent = <<>> /\ toSend = {}
      BY <2>2 DEF Sending
    <3>2. <<>> \in Seq(Files \ Missing)
      OBVIOUS
    <3> QED
      BY <3>1, <3>2
  <2>3. CASE pc \in {"walk", "overflow"}
    BY <1>1, <2>3, OnlyRequested DEF Sending
  <2> QED
    BY <2>1, <2>2, <2>3 DEF Sending
<1>3. TypeOK
  BY <1>1, <1>2 DEF TypeOK, Types, Within, Deep, Sending
<1>4. \A j, k \in 1..Len(sent) : j # k => sent[j] # sent[k]
  <2>1. CASE pc \in {"sendAll", "over"}
    BY <2>1 DEF Sending, Delivered
  <2>2. CASE pc = "send"
    BY <2>2 DEF Sending
  <2>3. CASE pc \in {"walk", "overflow"}
    BY <1>1, <2>3, OnlyRequested DEF Sending
  <2> QED
    BY <2>1, <2>2, <2>3 DEF Sending
<1>5. ASSUME pc = "over", withDeps
      PROVE  Members(sent) = ({request} \cup Reachable(Read, request)) \ Missing
  <2>1. allFiles = Reachable(Read, request)
    BY <1>5, Exact DEF Sending
  <2>2. toSend = {} /\ Members(sent) = ({request} \cup (allFiles \ toSend)) \ Missing
    BY <1>5 DEF Sending, Delivered
  <2> QED
    BY <2>1, <2>2
<1> QED
  BY <1>3, <1>4, <1>5 DEF SendsHold, SentOnce

\* Whatever the graph, no file is sent twice, and a download that is over brought the
\* file asked for and, if they were wanted, all that is stored of its dependencies.
THEOREM SendsAlwaysHold == Spec => []SendsHold
<1>1. Init => Sending
  BY FilesAssumption DEF Init, Sending
<1>2. IInv /\ IInv' /\ Circles /\ Sending /\ [Next]_vars => Sending'
  BY SendingKept
<1>3. IInv /\ Circles /\ Sending => SendsHold
  BY SendingSuffices
<1> QED
  BY <1>1, <1>2, <1>3, Invariance, CirclesFound, PTL DEF Spec

------------------------------------------------------------------------------
(* Documents.  Lists of lists first.                                         *)
Forms == Seq(Elements)
Smaller == {p \in Nat \X Nat : p[1] < p[2]}

\* Induction: a set with 0 and with the successor of each member is Nat.  (The
\* theorem of the library is for an operator, which no prover can instantiate; the
\* order of the naturals is well-founded as a set.)
LEMMA AllNumbers ==
  ASSUME NEW S \in SUBSET Nat, 0 \in S, \A n \in S : n + 1 \in S
  PROVE  S = Nat
<1>1. IsWellFoundedOn({p \in Nat \X Nat : p[1] < p[2]}, Nat)
  BY NatLessThanWellFounded DEF OpToRel
<1>2. IsWellFoundedOn(Smaller, Nat)
  BY <1>1 DEF Smaller
<1>3. SUFFICES ASSUME Nat \ S # {} PROVE FALSE
  OBVIOUS
<1>4. PICK x \in Nat \ S : \A y \in Nat \ S : ~ (<<y, x>> \in Smaller)
  BY <1>2, <1>3, WFMin
<1>5. x \in Nat /\ x # 0 /\ x - 1 \in Nat /\ x - 1 < x /\ (x - 1) + 1 = x
  OBVIOUS
<1>6. x - 1 \in S
  BY <1>4, <1>5 DEF Smaller
<1> QED
  BY <1>5, <1>6

\* A list of lists is flattened one list after the other.
LEMMA FlatSteps ==
  ASSUME NEW S, NEW a \in Seq(Seq(S)), a # <<>>
  PROVE  \E g : /\ g[1] = a[1]
                /\ \A n \in 2..Len(a) : g[n] = g[n - 1] \o a[n]
                /\ FlattenSeq(a) = g[Len(a)]
<1> DEFINE G(g, m) == [n \in 1..m |-> IF n = 1 THEN a[n] ELSE g[n - 1] \o a[n]]
           N == {m \in Nat : \E g : g = G(g, m)}
<1>1. 0 \in N
  <2> DEFINE g == [n \in 1..0 |-> a[n]]
  <2>1. g = G(g, 0)
    OBVIOUS
  <2> HIDE DEF G
  <2> QED
    BY <2>1
<1>2. ASSUME NEW m \in N PROVE m + 1 \in N
  <2>1. m \in Nat /\ m + 1 \in Nat
    OBVIOUS
  <2>2. PICK g : g = G(g, m)
    OBVIOUS
  <2> DEFINE h == [n \in 1..(m + 1) |-> IF n = 1 THEN a[1] ELSE
                                         IF n = m + 1 THEN g[m] \o a[m + 1] ELSE g[n]]
  <2>3. ASSUME NEW n \in 1..(m + 1)
        PROVE  h[n] = IF n = 1 THEN a[n] ELSE h[n - 1] \o a[n]
    <3>1. CASE n = 1
      BY <3>1
    <3>2. CASE n # 1 /\ n = m + 1
      <4>1. n - 1 = m /\ m \in 1..(m + 1) /\ m # m + 1 /\ m \in 1..m
        BY <2>1, <3>2
      <4>2. h[m] = g[m]
        <5>1. m = 1 => g[m] = a[1]
          BY <2>2, <4>1
        <5> QED
          BY <4>1, <5>1
      <4> QED
        BY <3>2, <4>1, <4>2
    <3>3. CASE n # 1 /\ n # m + 1
      <4>1. /\ n \in 1..m /\ n - 1 \in 1..(m + 1) /\ n - 1 # m + 1 /\ n - 1 \in 1..m
        BY <2>1, <3>3
      <4>2. g[n] = g[n - 1] \o a[n]
        BY <2>2, <3>3, <4>1
      <4>3. h[n - 1] = g[n - 1]
        <5>1. n - 1 = 1 => g[n - 1] = a[1]
          BY <2>2, <4>1
        <5> QED
          BY <4>1, <5>1
      <4> QED
        BY <3>3, <4>1, <4>2, <4>3
    <3> QED
      BY <3>1, <3>2, <3>3
  <2>4. h = G(h, m + 1)
    BY <2>3
  <2> HIDE DEF G
  <2> QED
    BY <2>1, <2>4
<1>3. N = Nat
  <2>1. N \in SUBSET Nat
    OBVIOUS
  <2> HIDE DEF N
  <2> QED
    BY <1>1, <1>2, <2>1, AllNumbers
<1>4. Len(a) \in Nat /\ Len(a) > 0
  BY EmptySeq
<1> DEFINE f == CHOOSE g : g = G(g, Len(a))
<1>5. f = G(f, Len(a))
  <2>1. \E g : g = G(g, Len(a))
    BY <1>3, <1>4
  <2> HIDE DEF G
  <2> QED
    BY <2>1
<1>6. FlattenSeq(a) = f[Len(a)]
  BY <1>4 DEF FlattenSeq
<1> HIDE DEF f
<1>7. 1 \in 1..Len(a) /\ \A n \in 2..Len(a) : n \in 1..Len(a) /\ n # 1
  BY <1>4
<1>8. f[1] = a[1] /\ \A n \in 2..Len(a) : f[n] = f[n - 1] \o a[n]
  BY <1>5, <1>7
<1> QED
  BY <1>6, <1>8

\* s is in the order that the pairs of R say.
Ordered(s, R) == \A i, j \in 1..Len(s) : i < j => <<s[i], s[j]>> \in R

\* Of the first n lists of a.
Heard(a, n) == UNION {Range(a[i]) : i \in 1..n}

\* Two lists behind one another.
LEMMA JoinedAre ==
  ASSUME NEW s \in Forms, NEW t \in Forms
  PROVE  /\ s \o t \in Forms
         /\ Range(s \o t) = Range(s) \cup Range(t)
         /\ \A R : Ordered(s, R) /\ Ordered(t, R) /\ Range(s) \X Range(t) \subseteq R
                     => Ordered(s \o t, R)
<1>1. /\ s \o t \in Forms /\ Len(s \o t) = Len(s) + Len(t) /\ Len(s) \in Nat /\ Len(t) \in Nat
      /\ DOMAIN s = 1..Len(s) /\ DOMAIN t = 1..Len(t) /\ DOMAIN (s \o t) = 1..(Len(s) + Len(t))
  BY ConcatProperties, LenProperties DEF Forms
<1>2. \A i \in 1..(Len(s) + Len(t)) : (s \o t)[i] = IF i <= Len(s) THEN s[i] ELSE t[i - Len(s)]
  BY ConcatProperties DEF Forms
<1> DEFINE u == s \o t
<1>3. /\ \A i \in 1..Len(s) : i \in 1..(Len(s) + Len(t)) /\ u[i] = s[i]
      /\ \A i \in 1..Len(t) : Len(s) + i \in 1..(Len(s) + Len(t)) /\ u[Len(s) + i] = t[i]
      /\ \A i \in 1..(Len(s) + Len(t)) : i > Len(s) => i - Len(s) \in 1..Len(t) /\ u[i] = t[i - Len(s)]
      /\ \A i \in 1..(Len(s) + Len(t)) : i <= Len(s) => i \in 1..Len(s) /\ u[i] = s[i]
  BY <1>1, <1>2
<1> HIDE DEF u
<1>4. Range(u) = Range(s) \cup Range(t)
  <2>1. DOMAIN u = 1..(Len(s) + Len(t))
    BY <1>1 DEF u
  <2>2. Range(s) \cup Range(t) \subseteq Range(u)
    <3>1. \A i \in DOMAIN u : u[i] \in Range(u)
      BY DEF Range
    <3>2. \A i \in 1..Len(s) : s[i] \in Range(u)
      BY <1>3, <2>1, <3>1
    <3>3. \A i \in 1..Len(t) : t[i] \in Range(u)
      BY <1>3, <2>1, <3>1
    <3> QED
      BY <1>1, <3>2, <3>3 DEF Range
  <2>3. ASSUME NEW i \in 1..(Len(s) + Len(t)) PROVE u[i] \in Range(s) \cup Range(t)
    <3>1. i <= Len(s) \/ i > Len(s)
      BY <1>1
    <3> QED
      BY <1>1, <1>3, <3>1 DEF Range
  <2> QED
    BY <2>1, <2>2, <2>3 DEF Range
<1>5. ASSUME NEW R, Ordered(s, R), Ordered(t, R), Range(s) \X Range(t) \subseteq R
      PROVE  Ordered(u, R)
  <2>1. Len(u) = Len(s) + Len(t)
    BY <1>1 DEF u
  <2>2. SUFFICES ASSUME NEW i \in 1..Len(u), NEW j \in 1..Len(u), i < j PROVE <<u[i], u[j]>> \in R
    BY DEF Ordered
  <2>3. CASE j <= Len(s)
    <3>1. i \in 1..Len(s) /\ j \in 1..Len(s)
      BY <1>1, <2>1, <2>2, <2>3
    <3>2. u[i] = s[i] /\ u[j] = s[j]
      BY <1>3, <3>1
    <3>3. <<s[i], s[j]>> \in R
      BY <1>5, <2>2, <3>1 DEF Ordered
    <3> QED
      BY <3>2, <3>3
  <2>4. CASE i > Len(s)
    <3>1. /\ i - Len(s) \in 1..Len(t) /\ j - Len(s) \in 1..Len(t) /\ i - Len(s) < j - Len(s)
      BY <1>1, <2>1, <2>2, <2>4
    <3>2. u[i] = t[i - Len(s)] /\ u[j] = t[j - Len(s)]
      BY <1>1, <1>3, <2>1, <2>2, <2>4
    <3>3. <<t[i - Len(s)], t[j - Len(s)]>> \in R
      BY <1>5, <3>1 DEF Ordered
    <3> QED
      BY <3>2, <3>3
  <2>5. CASE i <= Len(s) /\ j > Len(s)
    <3>1. i \in 1..Len(s) /\ j - Len(s) \in 1..Len(t) /\ u[i] = s[i] /\ u[j] = t[j - Len(s)]
      BY <1>1, <1>3, <2>1, <2>2, <2>5
    <3>2. s[i] \in Range(s) /\ t[j - Len(s)] \in Range(t)
      BY <1>1, <3>1 DEF Range
    <3> QED
      BY <1>5, <3>1, <3>2
  <2> QED
    BY <1>1, <2>1, <2>2, <2>3, <2>4, <2>5
<1> QED
  BY <1>1, <1>4, <1>5 DEF u

\* A list of lists, each in order and before the lists behind it, is in order.
LEMMA FlatAre ==
  ASSUME NEW a \in Seq(Forms)
  PROVE  /\ FlattenSeq(a) \in Forms
         /\ Range(FlattenSeq(a)) = Heard(a, Len(a))
         /\ \A R : /\ \A i \in 1..Len(a) : Ordered(a[i], R)
                   /\ \A i, j \in 1..Len(a) : i < j => Range(a[i]) \X Range(a[j]) \subseteq R
                   => Ordered(FlattenSeq(a), R)
<1> DEFINE InOrder(n, R) ==
             /\ \A i \in 1..n : Ordered(a[i], R)
             /\ \A i, j \in 1..n : i < j => Range(a[i]) \X Range(a[j]) \subseteq R
           Good(s, n) == /\ s \in Forms /\ Range(s) = Heard(a, n)
                         /\ \A R : InOrder(n, R) => Ordered(s, R)
<1>1. Len(a) \in Nat /\ \A i \in 1..Len(a) : a[i] \in Forms
  BY LenProperties, ElementOfSeq
<1>2. CASE a = <<>>
  <2>1. FlattenSeq(a) = <<>> /\ Len(a) = 0
    BY <1>2 DEF FlattenSeq
  <2>2. <<>> \in Forms /\ Range(<<>>) = {} /\ Heard(a, 0) = {}
    BY DEF Forms, Range, Heard
  <2>3. \A R : Ordered(<<>>, R)
    BY DEF Ordered
  <2> QED
    BY <2>1, <2>2, <2>3
<1>3. CASE a # <<>>
  <2>1. PICK g : /\ g[1] = a[1]
                 /\ \A n \in 2..Len(a) : g[n] = g[n - 1] \o a[n]
                 /\ FlattenSeq(a) = g[Len(a)]
    BY <1>3, FlatSteps, Zenon DEF Forms
  <2>2. Len(a) >= 1
    BY <1>3, EmptySeq
  <2> DEFINE N == {n \in Nat : n + 1 <= Len(a) => Good(g[n + 1], n + 1)}
  <2>3. 0 \in N
    <3>1. 1 \in 1..Len(a) /\ a[1] \in Forms
      BY <1>1, <2>2
    <3>2. Heard(a, 1) = Range(a[1])
      BY DEF Heard
    <3>3. \A R : InOrder(1, R) => Ordered(a[1], R)
      OBVIOUS
    <3>4. Good(g[1], 1)
      BY <2>1, <3>1, <3>2, <3>3
    <3> HIDE DEF Good
    <3> QED
      BY <3>4
  <2>4. ASSUME NEW n \in N PROVE n + 1 \in N
    <3>0. n \in Nat /\ n + 1 \in Nat
      OBVIOUS
    <3>1. SUFFICES ASSUME (n + 1) + 1 <= Len(a) PROVE Good(g[(n + 1) + 1], (n + 1) + 1)
      BY <3>0
    <3> DEFINE m == n + 1
    <3>2. m \in Nat /\ m + 1 \in 2..Len(a) /\ m + 1 \in 1..Len(a) /\ (m + 1) - 1 = m /\ m <= Len(a)
      BY <1>1, <3>0, <3>1
    <3>3. Good(g[m], m)
      BY <3>2
    <3>4. g[m + 1] = g[m] \o a[m + 1] /\ a[m + 1] \in Forms
      BY <1>1, <2>1, <3>2
    <3> HIDE DEF m
    <3> DEFINE s == g[m]
               t == a[m + 1]
    <3>5. /\ s \o t \in Forms
          /\ Range(s \o t) = Range(s) \cup Range(t)
          /\ \A R : Ordered(s, R) /\ Ordered(t, R) /\ Range(s) \X Range(t) \subseteq R
                     => Ordered(s \o t, R)
      <4>1. s \in Forms /\ t \in Forms
        BY <3>3, <3>4
      <4> HIDE DEF s, t
      <4> QED
        BY <4>1, JoinedAre
    <3>6. Range(s \o t) = Heard(a, m + 1)
      <4>1. 1..(m + 1) = 1..m \cup {m + 1}
        BY <3>2
      <4>2. Heard(a, m + 1) = Heard(a, m) \cup Range(t)
        BY <4>1 DEF Heard
      <4> QED
        BY <3>3, <3>5, <4>2
    <3>7. ASSUME NEW R, InOrder(m + 1, R) PROVE Ordered(s \o t, R)
      <4>1. \A i \in 1..m : i \in 1..(m + 1) /\ i < m + 1
        BY <3>2
      <4>2. m + 1 \in 1..(m + 1)
        BY <3>2
      <4>3. InOrder(m, R)
        BY <3>7, <4>1
      <4>4. Ordered(s, R) /\ Ordered(t, R)
        BY <3>3, <3>7, <4>2, <4>3
      <4>5. Heard(a, m) \X Range(t) \subseteq R
        BY <3>7, <4>1, <4>2 DEF Heard
      <4>6. Range(s) = Heard(a, m)
        BY <3>3
      <4> QED
        BY <3>5, <4>4, <4>5, <4>6
    <3>8. Good(g[m + 1], m + 1)
      BY <3>4, <3>5, <3>6, <3>7
    <3> HIDE DEF Good
    <3> QED
      BY <3>8 DEF m
  <2>5. N = Nat
    <3>1. N \in SUBSET Nat
      OBVIOUS
    <3> HIDE DEF N
    <3> QED
      BY <2>3, <2>4, <3>1, AllNumbers
  <2>6. Good(g[Len(a)], Len(a))
    <3>1. PICK n \in Nat : Len(a) = n + 1
      <4>1. \A k \in Nat : k >= 1 => k - 1 \in Nat /\ k = (k - 1) + 1
        OBVIOUS
      <4> QED
        BY <1>1, <2>2, <4>1, Zenon
    <3>2. n \in N
      BY <2>5, <3>1, Zenon
    <3>3. n + 1 <= Len(a)
      BY <3>1
    <3> HIDE DEF Good
    <3> QED
      BY <3>1, <3>2, <3>3
  <2> QED
    BY <2>1, <2>6
<1> QED
  BY <1>2, <1>3

------------------------------------------------------------------------------
(* Trees.                                                                    *)

Families == [Elements -> Forms]
NoCircle(k) == \A S \in SUBSET Elements : S # {} => \E e \in S : Range(k[e]) \cap S = {}

\* Children are elements.
LEMMA KidsAre ==
  ASSUME NEW k \in Families, NEW e \in Elements
  PROVE  /\ k[e] \in Forms /\ DOMAIN k[e] = 1..Len(k[e]) /\ Len(k[e]) \in Nat
         /\ Range(k[e]) \in SUBSET Elements
         /\ \A i \in DOMAIN k[e] : k[e][i] \in Elements /\ k[e][i] \in Range(k[e])
<1>1. k[e] \in Forms
  BY DEF Families
<1>2. DOMAIN k[e] = 1..Len(k[e]) /\ Len(k[e]) \in Nat /\ \A i \in 1..Len(k[e]) : k[e][i] \in Elements
  BY <1>1, LenProperties, ElementOfSeq DEF Forms
<1> QED
  BY <1>1, <1>2 DEF Range

\* Induction from the leaves of a tree upwards.
LEMMA AllUpwards ==
  ASSUME NEW k \in Families, NoCircle(k), NEW P \in SUBSET Elements,
         \A e \in Elements : Range(k[e]) \subseteq P => e \in P
  PROVE  P = Elements
<1>1. SUFFICES ASSUME Elements \ P # {} PROVE FALSE
  OBVIOUS
<1>2. PICK e \in Elements \ P : Range(k[e]) \cap (Elements \ P) = {}
  BY <1>1 DEF NoCircle
<1>3. Range(k[e]) \subseteq P
  BY <1>2, KidsAre
<1> QED
  BY <1>2, <1>3

Least(k, e) == {x \in Elements : \A S \in SUBSET Elements :
                                  e \in S /\ (\A y \in S : Range(k[y]) \subseteq S) => x \in S}
SubtreeStep(k, of) == [x \in Elements |-> {x} \cup UNION {of[c] : c \in Range(k[x])}]

\* An element, and what is below its children.
LEMMA SubtreeIs ==
  ASSUME NEW k \in Families
  PROVE  \A e \in Elements : Subtree(k, e) = {e} \cup UNION {Subtree(k, c) : c \in Range(k[e])}
<1> DEFINE R == [e \in Elements |-> Least(k, e)]
<1>1. \A e \in Elements : Range(k[e]) \in SUBSET Elements
  BY KidsAre
<1>2. ASSUME NEW e \in Elements
      PROVE  Least(k, e) = {e} \cup UNION {Least(k, c) : c \in Range(k[e])}
  <2> DEFINE U == {e} \cup UNION {Least(k, c) : c \in Range(k[e])}
  <2>1. ASSUME NEW x \in U PROVE x \in Least(k, e)
    BY <1>1 DEF Least
  <2>2. U \in SUBSET Elements
    BY DEF Least
  <2>3. \A c \in Range(k[e]) : c \in Least(k, c)
    BY <1>1 DEF Least
  <2>4. ASSUME NEW y \in U, NEW z \in Range(k[y]) PROVE z \in U
    <3>1. CASE y = e
      BY <2>3, <2>4, <3>1
    <3>2. CASE y # e
      <4>1. PICK c \in Range(k[e]) : y \in Least(k, c)
        BY <2>4, <3>2
      <4>2. z \in Least(k, c)
        BY <1>1, <2>2, <2>4, <4>1 DEF Least
      <4> QED
        BY <4>1, <4>2
    <3> QED
      BY <3>1, <3>2
  <2>5. Least(k, e) \subseteq U
    <3>1. e \in U /\ \A y \in U : Range(k[y]) \subseteq U
      BY <2>4
    <3> HIDE DEF U
    <3> QED
      BY <2>2, <3>1 DEF Least
  <2> QED
    BY <2>1, <2>5
<1>3. R = SubtreeStep(k, R)
  <2>1. ASSUME NEW e \in Elements
        PROVE  Least(k, e) = {e} \cup UNION {R[c] : c \in Range(k[e])}
    <3>1. \A c \in Range(k[e]) : R[c] = Least(k, c)
      BY <1>1
    <3>2. {R[c] : c \in Range(k[e])} = {Least(k, c) : c \in Range(k[e])}
      BY <3>1
    <3> QED
      BY <1>2, <3>2
  <2> QED
    BY <2>1 DEF SubtreeStep
<1> DEFINE f == CHOOSE of : of = SubtreeStep(k, of)
<1>4. f = SubtreeStep(k, f)
  BY <1>3
<1>5. \A e : Subtree(k, e) = f[e]
  BY DEF Subtree, SubtreeStep
<1> HIDE DEF f
<1>6. ASSUME NEW e \in Elements
      PROVE  Subtree(k, e) = {e} \cup UNION {Subtree(k, c) : c \in Range(k[e])}
  <2>1. f[e] = {e} \cup UNION {f[c] : c \in Range(k[e])}
    BY <1>4 DEF SubtreeStep
  <2>2. {f[c] : c \in Range(k[e])} = {Subtree(k, c) : c \in Range(k[e])}
    BY <1>5
  <2> QED
    BY <1>5, <2>1, <2>2
<1> QED
  BY <1>6

\* The same as facts about membership.
LEMMA SubtreeParts ==
  ASSUME NEW k \in Families, NoCircle(k), NEW e \in Elements
  PROVE  /\ Subtree(k, e) \in SUBSET Elements /\ e \in Subtree(k, e)
         /\ \A c \in Range(k[e]) : Subtree(k, c) \subseteq Subtree(k, e)
         /\ \A x \in Subtree(k, e) : x = e \/ \E c \in Range(k[e]) : x \in Subtree(k, c)
<1>1. \A x \in Elements : Subtree(k, x) = {x} \cup UNION {Subtree(k, c) : c \in Range(k[x])}
  BY SubtreeIs
<1> DEFINE P == {x \in Elements : Subtree(k, x) \in SUBSET Elements}
<1>2. ASSUME NEW x \in Elements, Range(k[x]) \subseteq P PROVE x \in P
  BY <1>1, <1>2
<1>3. P = Elements
  <2>1. P \in SUBSET Elements
    OBVIOUS
  <2> HIDE DEF P
  <2> QED
    BY <1>2, <2>1, AllUpwards
<1> QED
  BY <1>1, <1>3

\* The subtree has the children of its elements, and nothing more.
LEMMA SubtreeClosed ==
  ASSUME NEW k \in Families, NoCircle(k), NEW e \in Elements
  PROVE  /\ \A y \in Subtree(k, e) : Range(k[y]) \subseteq Subtree(k, e)
         /\ \A S \in SUBSET Elements :
              e \in S /\ (\A y \in S : Range(k[y]) \subseteq S) => Subtree(k, e) \subseteq S
<1> DEFINE P == {x \in Elements :
                  /\ \A y \in Subtree(k, x) : Range(k[y]) \subseteq Subtree(k, x)
                  /\ \A S \in SUBSET Elements :
                       x \in S /\ (\A y \in S : Range(k[y]) \subseteq S) => Subtree(k, x) \subseteq S}
<1>1. ASSUME NEW x \in Elements, Range(k[x]) \subseteq P PROVE x \in P
  <2>1. /\ \A c \in Range(k[x]) : Subtree(k, c) \subseteq Subtree(k, x)
        /\ \A y \in Subtree(k, x) : y = x \/ \E c \in Range(k[x]) : y \in Subtree(k, c)
    BY SubtreeParts
  <2>2. \A c \in Range(k[x]) : c \in Subtree(k, c)
    BY KidsAre, SubtreeParts
  <2>3. ASSUME NEW y \in Subtree(k, x) PROVE Range(k[y]) \subseteq Subtree(k, x)
    <3>1. CASE y = x
      BY <2>1, <2>2, <3>1
    <3>2. CASE \E c \in Range(k[x]) : y \in Subtree(k, c)
      BY <1>1, <2>1, <3>2
    <3> QED
      BY <2>1, <2>3, <3>1, <3>2
  <2>4. ASSUME NEW S \in SUBSET Elements, x \in S, \A y \in S : Range(k[y]) \subseteq S
        PROVE  Subtree(k, x) \subseteq S
    <3>1. \A c \in Range(k[x]) : c \in S
      BY <2>4
    <3>2. \A c \in Range(k[x]) : Subtree(k, c) \subseteq S
      BY <1>1, <2>4, <3>1
    <3> QED
      BY <2>1, <2>4, <3>2
  <2> QED
    BY <2>3, <2>4
<1>2. P = Elements
  <2>1. P \in SUBSET Elements
    OBVIOUS
  <2> HIDE DEF P
  <2> QED
    BY <1>1, <2>1, AllUpwards
<1> QED
  BY <1>2

\* All but the top are children of elements of the subtree.
LEMMA SubtreeChildren ==
  ASSUME NEW k \in Families, NoCircle(k), NEW e \in Elements, NEW x \in Subtree(k, e), x # e
  PROVE  \E y \in Subtree(k, e) : x \in Range(k[y])
<1> DEFINE S == {z \in Subtree(k, e) : z = e \/ \E y \in Subtree(k, e) : z \in Range(k[y])}
<1>1. S \in SUBSET Elements /\ e \in S
  BY SubtreeParts
<1>2. \A y \in S : Range(k[y]) \subseteq S
  BY SubtreeClosed
<1>3. Subtree(k, e) \subseteq S
  <2> HIDE DEF S
  <2> QED
    BY <1>1, <1>2, SubtreeClosed
<1> QED
  BY <1>3

\* No element is below its child.
LEMMA NotBelowChild ==
  ASSUME NEW k \in Families, NoCircle(k), NEW e \in Elements, NEW c \in Range(k[e])
  PROVE  e \notin Subtree(k, c)
<1>1. SUFFICES ASSUME e \in Subtree(k, c) PROVE FALSE
  OBVIOUS
<1>2. c \in Elements
  BY KidsAre
<1> DEFINE S == {y \in Subtree(k, c) : e \in Subtree(k, y)}
<1>3. S \in SUBSET Elements /\ c \in S
  BY <1>1, <1>2, SubtreeParts
<1>4. PICK y \in S : Range(k[y]) \cap S = {}
  BY <1>3 DEF NoCircle
<1>5. y \in Elements /\ Range(k[y]) \subseteq Subtree(k, c)
  BY <1>2, <1>3, SubtreeClosed
<1>6. CASE y = e
  BY <1>3, <1>4, <1>6
<1>7. CASE y # e
  <2>1. PICK d \in Range(k[y]) : e \in Subtree(k, d)
    BY <1>5, <1>7, SubtreeParts
  <2> QED
    BY <1>4, <1>5, <2>1
<1> QED
  BY <1>6, <1>7

------------------------------------------------------------------------------
(* Each element is in one place.                                             *)

Parents == Elements \ {TempElem}

\* What addChild of the classes makes of an element's children.
Proper(k, p) ==
  /\ IsInjective(k[p])
  /\ Kind[p] = "doc" => RootAlone(k, p)
  /\ Kind[p] \notin {"doc", "tagged"} => k[p] = <<>>
  /\ \A c \in Range(k[p]) : Kind[c] # "doc"

\* Only the document made for a part shares it, and what is added to that document
\* is nowhere else.
Tree(k) ==
  /\ k \in Families /\ NoCircle(k)
  /\ \A p \in Elements : Proper(k, p)
  /\ \A p, q \in Parents : Range(k[p]) \cap Range(k[q]) # {} => p = q
  /\ \A c \in Range(k[TempElem]) : ~Tagged(c) => \A q \in Parents : c \notin Range(k[q])

\* No element is above a document.
LEMMA DocsOnTop ==
  ASSUME NEW k, Tree(k), NEW e \in Elements, TempElem \in Subtree(k, e)
  PROVE  e = TempElem
<1>1. SUFFICES ASSUME e # TempElem PROVE FALSE
  OBVIOUS
<1>2. PICK y \in Subtree(k, e) : TempElem \in Range(k[y])
  BY <1>1, SubtreeChildren DEF Tree
<1>3. y \in Elements
  BY SubtreeParts DEF Tree
<1> QED
  BY <1>2, <1>3, ElementsAssumption DEF Tree, Proper

\* An element below another is a child of an element there.
LEMMA ParentBelow ==
  ASSUME NEW k, Tree(k), NEW e \in Parents, NEW x \in Subtree(k, e), x # e
  PROVE  \E y \in Parents : y \in Subtree(k, e) /\ x \in Range(k[y])
<1>1. e \in Elements /\ e # TempElem
  BY DEF Parents
<1>2. PICK y \in Subtree(k, e) : x \in Range(k[y])
  BY <1>1, SubtreeChildren DEF Tree
<1>3. y \in Elements /\ y # TempElem
  BY <1>1, DocsOnTop, SubtreeParts DEF Tree
<1> QED
  BY <1>2, <1>3 DEF Parents

\* Subtrees of which none has the top of the other share nothing.
LEMMA TopsApart ==
  ASSUME NEW k, Tree(k), NEW a \in Parents, NEW b \in Parents,
         b \notin Subtree(k, a), a \notin Subtree(k, b)
  PROVE  Subtree(k, a) \cap Subtree(k, b) = {}
<1> DEFINE W == Subtree(k, a) \ Subtree(k, b)
<1>1. a \in Elements /\ b \in Elements /\ a # TempElem /\ k \in Families /\ NoCircle(k)
  BY DEF Parents, Tree
<1>2. W \in SUBSET Elements /\ a \in W
  BY <1>1, SubtreeParts
<1>3. ASSUME NEW y \in W, NEW c \in Range(k[y]) PROVE c \in W
  <2>1. c \in Subtree(k, a)
    BY <1>1, <1>3, SubtreeClosed
  <2>2. SUFFICES ASSUME c \in Subtree(k, b) PROVE FALSE
    BY <2>1
  <2>3. c # b
    BY <2>1
  <2>4. PICK z \in Parents : z \in Subtree(k, b) /\ c \in Range(k[z])
    BY <2>2, <2>3, ParentBelow
  <2>5. y \in Parents
    BY <1>1, <1>2, DocsOnTop DEF Parents
  <2>6. y = z
    BY <1>3, <2>4, <2>5 DEF Tree
  <2> QED
    BY <2>4, <2>6
<1>4. Subtree(k, a) \subseteq W
  <2> HIDE DEF W
  <2> QED
    BY <1>1, <1>2, <1>3, SubtreeClosed
<1> QED
  BY <1>4

\* A root is not below anything beside it, and is not above it.
LEMMA BesideRoot ==
  ASSUME NEW k, Tree(k), NEW c \in Range(k[TempElem]), ~Tagged(c), NEW d \in Parents, c # d
  PROVE  Subtree(k, c) = {c} /\ c \notin Subtree(k, d)
<1>1. k \in Families /\ NoCircle(k) /\ TempElem \in Elements
  BY ElementsAssumption DEF Tree
<1>2. c \in Elements /\ Kind[c] # "tagged" /\ Kind[c] # "doc"
  BY <1>1, KidsAre DEF Tree, Proper, Tagged
<1>3. Subtree(k, c) = {c}
  <2>1. Proper(k, c)
    BY <1>2 DEF Tree
  <2>2. k[c] = <<>>
    BY <1>2, <2>1 DEF Proper
  <2>3. Range(k[c]) = {}
    BY <2>2 DEF Range
  <2> QED
    BY <1>1, <1>2, <2>3, SubtreeIs
<1>4. c \notin Subtree(k, d)
  <2>1. SUFFICES ASSUME c \in Subtree(k, d) PROVE FALSE
    OBVIOUS
  <2>2. PICK y \in Parents : y \in Subtree(k, d) /\ c \in Range(k[y])
    BY <2>1, ParentBelow
  <2> QED
    BY <2>2 DEF Tree
<1> QED
  BY <1>3, <1>4

\* What is below one child is not below another.
LEMMA SiblingsApart ==
  ASSUME NEW k, Tree(k), NEW p \in Elements, NEW i \in DOMAIN k[p], NEW j \in DOMAIN k[p], i # j
  PROVE  Subtree(k, k[p][i]) \cap Subtree(k, k[p][j]) = {}
<1> DEFINE c == k[p][i]
           d == k[p][j]
<1>1. k \in Families /\ NoCircle(k) /\ Proper(k, p)
  BY DEF Tree
<1>2. /\ c \in Elements /\ d \in Elements /\ c \in Range(k[p]) /\ d \in Range(k[p])
  BY <1>1, KidsAre
<1>3. c # d
  BY <1>1 DEF Proper, IsInjective
<1>4. c \in Parents /\ d \in Parents
  <2>1. Kind[c] # "doc" /\ Kind[d] # "doc"
    BY <1>1, <1>2 DEF Proper
  <2> QED
    BY <1>2, <2>1, ElementsAssumption DEF Parents
<1>5. CASE p # TempElem
  <2>1. ASSUME NEW a \in Parents, NEW b \in Parents, a \in Range(k[p]), b \in Range(k[p]), a # b
        PROVE  a \notin Subtree(k, b)
    <3>1. SUFFICES ASSUME a \in Subtree(k, b) PROVE FALSE
      OBVIOUS
    <3>2. PICK z \in Parents : z \in Subtree(k, b) /\ a \in Range(k[z])
      BY <2>1, <3>1, ParentBelow
    <3>3. p \in Parents
      BY <1>5 DEF Parents
    <3>4. z = p
      BY <2>1, <3>2, <3>3 DEF Tree
    <3> QED
      BY <1>1, <2>1, <3>2, <3>4, NotBelowChild
  <2> HIDE DEF c, d
  <2>2. c \notin Subtree(k, d) /\ d \notin Subtree(k, c)
    BY <1>2, <1>3, <1>4, <2>1
  <2>3. Subtree(k, c) \cap Subtree(k, d) = {}
    BY <1>4, <2>2, TopsApart
  <2> QED
    BY <2>3 DEF c, d
<1>6. CASE p = TempElem
  <2>1. ~Tagged(c) \/ ~Tagged(d)
    BY <1>1, <1>6, ElementsAssumption DEF Proper, RootAlone
  <2> HIDE DEF c, d
  <2>2. ASSUME ~Tagged(c) PROVE Subtree(k, c) \cap Subtree(k, d) = {}
    BY <1>2, <1>3, <1>4, <1>6, <2>2, BesideRoot
  <2>3. ASSUME ~Tagged(d) PROVE Subtree(k, c) \cap Subtree(k, d) = {}
    BY <1>2, <1>3, <1>4, <1>6, <2>3, BesideRoot
  <2>4. Subtree(k, c) \cap Subtree(k, d) = {}
    BY <2>1, <2>2, <2>3
  <2> QED
    BY <2>4 DEF c, d
<1> QED
  BY <1>5, <1>6

\* No element comes before itself.
LEMMA NotBeforeItself ==
  ASSUME NEW k, Tree(k), NEW top \in Elements, NEW x
  PROVE  ~Precedes(k, top, x, x)
<1>1. \A p \in Subtree(k, top) : p \in Elements
  BY SubtreeParts DEF Tree
<1>2. \A p \in Subtree(k, top) : \A i, j \in DOMAIN k[p] :
        i # j => Subtree(k, k[p][i]) \cap Subtree(k, k[p][j]) = {}
  BY <1>1, SiblingsApart
<1>3. ASSUME NEW p \in Subtree(k, top), NEW i \in DOMAIN k[p], NEW j \in DOMAIN k[p], i < j
      PROVE  i # j
  <2>1. i \in Nat /\ j \in Nat
    BY <1>1, KidsAre DEF Tree
  <2> QED
    BY <1>3, <2>1
<1> QED
  BY <1>2, <1>3 DEF Precedes

------------------------------------------------------------------------------
(* What find finds.                                                          *)

Own(tag, e) == IF tag \in {TagOf[e], ""} THEN <<e>> ELSE <<>>

\* Lists of one element and of none.
LEMMA ShortAre ==
  /\ \A x \in Elements : <<x>> \in Forms /\ Len(<<x>>) = 1 /\ Range(<<x>>) = {x}
  /\ <<>> \in Forms /\ Len(<<>>) = 0 /\ Range(<<>>) = {}
  /\ \A R : Ordered(<<>>, R) /\ \A x \in Elements : Ordered(<<x>>, R)
<1>1. ASSUME NEW x \in Elements
      PROVE  <<x>> \in Forms /\ Len(<<x>>) = 1 /\ Range(<<x>>) = {x}
  <2>1. <<x>> \in Forms /\ Len(<<x>>) = 1 /\ DOMAIN <<x>> = 1..1 /\ <<x>>[1] = x
    BY DEF Forms
  <2>2. \A i \in 1..1 : i = 1
    OBVIOUS
  <2> QED
    BY <2>1, <2>2 DEF Range
<1>2. <<>> \in Forms /\ Len(<<>>) = 0 /\ Range(<<>>) = {}
  BY DEF Forms, Range
<1>3. ASSUME NEW s, Len(s) \in {0, 1}, NEW R PROVE Ordered(s, R)
  <2>1. (\A i, j \in 1..0 : ~(i < j)) /\ \A i, j \in 1..1 : ~(i < j)
    OBVIOUS
  <2>2. \A i, j \in 1..Len(s) : ~(i < j)
    BY <1>3, <2>1
  <2> QED
    BY <2>2 DEF Ordered
<1> QED
  BY <1>1, <1>2, <1>3

HitsStep(k, tag, of) ==
  [e \in Elements |-> Own(tag, e) \o FlattenSeq([i \in DOMAIN k[e] |-> of[k[e][i]]])]

\* g finds what there is to find below the elements of D.
Finds(k, tag, D, g) ==
  /\ D \in SUBSET Elements /\ \A e \in D : Range(k[e]) \subseteq D
  /\ \A e \in D : g[e] = Own(tag, e) \o FlattenSeq([i \in DOMAIN k[e] |-> g[k[e][i]]])

\* There is one way of finding.
LEMMA FindsAlike ==
  ASSUME NEW k \in Families, NoCircle(k), NEW tag, NEW D, NEW g, NEW E, NEW h,
         Finds(k, tag, D, g), Finds(k, tag, E, h)
  PROVE  \A e \in D \cap E : g[e] = h[e]
<1> DEFINE S == {e \in D \cap E : g[e] # h[e]}
<1>1. S \in SUBSET Elements
  BY DEF Finds
<1>2. SUFFICES ASSUME S # {} PROVE FALSE
  OBVIOUS
<1>3. PICK e \in S : Range(k[e]) \cap S = {}
  BY <1>1, <1>2 DEF NoCircle
<1>4. e \in Elements /\ Range(k[e]) \subseteq D \cap E
  BY <1>1 DEF Finds
<1>5. \A i \in DOMAIN k[e] : g[k[e][i]] = h[k[e][i]]
  BY <1>3, <1>4, KidsAre
<1>6. [i \in DOMAIN k[e] |-> g[k[e][i]]] = [i \in DOMAIN k[e] |-> h[k[e][i]]]
  BY <1>5
<1>7. g[e] = h[e]
  BY <1>6 DEF Finds
<1> QED
  BY <1>7

\* There is one for all elements.
LEMMA FindsAll ==
  ASSUME NEW k \in Families, NoCircle(k), NEW tag
  PROVE  \E of : of = HitsStep(k, tag, of)
<1> DEFINE Answers(x, v) == \E D \in SUBSET Elements : \E g : Finds(k, tag, D, g) /\ x \in D /\ v = g[x]
           U == {x \in Elements : \E v : Answers(x, v)}
           G == [x \in Elements |-> CHOOSE v : Answers(x, v)]
<1>1. ASSUME NEW D, NEW g, Finds(k, tag, D, g), NEW x \in D PROVE x \in U /\ G[x] = g[x]
  <2>1. D \in SUBSET Elements /\ x \in Elements
    BY <1>1 DEF Finds
  <2>2. Answers(x, g[x])
    BY <1>1, <2>1
  <2>3. x \in U
    BY <2>1, <2>2
  <2>4. Answers(x, G[x])
    <3>1. G[x] = CHOOSE v : Answers(x, v)
      BY <2>1
    <3> HIDE DEF Answers, G
    <3> QED
      BY <2>2, <3>1
  <2> HIDE DEF G
  <2>5. PICK E \in SUBSET Elements : \E h : Finds(k, tag, E, h) /\ x \in E /\ G[x] = h[x]
    BY <2>4
  <2>6. PICK h : Finds(k, tag, E, h) /\ x \in E /\ G[x] = h[x]
    BY <2>5
  <2>7. g[x] = h[x]
    BY <1>1, <2>6, FindsAlike
  <2> QED
    BY <2>3, <2>6, <2>7
<1>2. Finds(k, tag, U, G)
  <2>1. ASSUME NEW e \in U
        PROVE  /\ Range(k[e]) \subseteq U
               /\ G[e] = Own(tag, e) \o FlattenSeq([i \in DOMAIN k[e] |-> G[k[e][i]]])
    <3>0. PICK D \in SUBSET Elements : \E g : Finds(k, tag, D, g) /\ e \in D
      OBVIOUS
    <3>1. PICK g : Finds(k, tag, D, g) /\ e \in D
      BY <3>0
    <3> HIDE DEF G, U
    <3>2. e \in Elements /\ Range(k[e]) \subseteq D
      BY <3>1 DEF Finds
    <3>3. \A x \in D : x \in U /\ G[x] = g[x]
      BY <1>1, <3>1
    <3>4. \A i \in DOMAIN k[e] : G[k[e][i]] = g[k[e][i]]
      BY <3>2, <3>3, KidsAre
    <3>5. [i \in DOMAIN k[e] |-> G[k[e][i]]] = [i \in DOMAIN k[e] |-> g[k[e][i]]]
      BY <3>4
    <3>6. g[e] = Own(tag, e) \o FlattenSeq([i \in DOMAIN k[e] |-> g[k[e][i]]])
      BY <3>1 DEF Finds
    <3> QED
      BY <3>1, <3>2, <3>3, <3>5, <3>6
  <2>2. U \in SUBSET Elements
    OBVIOUS
  <2> HIDE DEF U, G
  <2> QED
    BY <2>1, <2>2 DEF Finds
<1>3. ASSUME NEW e \in Elements, Range(k[e]) \subseteq U PROVE e \in U
  <2>1. SUFFICES ASSUME e \notin U PROVE FALSE
    OBVIOUS
  <2> DEFINE E == U \cup {e}
             h == [x \in E |-> IF x = e
                                THEN Own(tag, e) \o FlattenSeq([i \in DOMAIN k[e] |-> G[k[e][i]]])
                                ELSE G[x]]
  <2>2. E \in SUBSET Elements /\ e \in E
    OBVIOUS
  <2>3. \A x \in U : x # e /\ h[x] = G[x] /\ Range(k[x]) \subseteq U
    <3>1. \A x \in U : x # e /\ Range(k[x]) \subseteq U
      BY <1>2, <2>1 DEF Finds
    <3> HIDE DEF U, G
    <3> QED
      BY <3>1
  <2>4. h[e] = Own(tag, e) \o FlattenSeq([i \in DOMAIN k[e] |-> G[k[e][i]]])
    BY <2>2
  <2> HIDE DEF U, G, h
  <2>5. \A x \in E : Range(k[x]) \subseteq U
    BY <1>3, <2>3
  <2>6. ASSUME NEW x \in E
        PROVE  h[x] = Own(tag, x) \o FlattenSeq([i \in DOMAIN k[x] |-> h[k[x][i]]])
    <3>1. \A i \in DOMAIN k[x] : h[k[x][i]] = G[k[x][i]]
      BY <2>2, <2>3, <2>5, KidsAre
    <3>2. [i \in DOMAIN k[x] |-> h[k[x][i]]] = [i \in DOMAIN k[x] |-> G[k[x][i]]]
      BY <3>1
    <3>3. x # e => G[x] = Own(tag, x) \o FlattenSeq([i \in DOMAIN k[x] |-> G[k[x][i]]])
      BY <1>2 DEF Finds
    <3> QED
      BY <2>3, <2>4, <3>2, <3>3
  <2>7. Finds(k, tag, E, h)
    BY <2>2, <2>5, <2>6 DEF Finds
  <2> QED
    BY <1>1, <2>1, <2>2, <2>7
<1>4. U = Elements
  <2>1. U \in SUBSET Elements
    OBVIOUS
  <2> HIDE DEF U, G
  <2> QED
    BY <1>3, <2>1, AllUpwards
<1>5. G = HitsStep(k, tag, G)
  <2>1. \A e \in Elements :
          G[e] = Own(tag, e) \o FlattenSeq([i \in DOMAIN k[e] |-> G[k[e][i]]])
    <3> HIDE DEF U, G
    <3> QED
      BY <1>2, <1>4 DEF Finds
  <2>2. G = [x \in Elements |-> G[x]]
    OBVIOUS
  <2> HIDE DEF U, G
  <2>3. [x \in Elements |-> G[x]] = HitsStep(k, tag, G)
    BY <2>1 DEF HitsStep
  <2> QED
    BY <2>2, <2>3
<1> QED
  BY <1>5

\* What find appends: the element itself, if it has the tag, and what its children give.
LEMMA HitsAre ==
  ASSUME NEW k \in Families, NoCircle(k), NEW tag
  PROVE  /\ \A e \in Elements : Hits(k, tag)[e] = Own(tag, e) \o HitsBelow(k, tag, e)
         /\ Hits(k, tag) \in Families
<1> DEFINE f == CHOOSE of : of = HitsStep(k, tag, of)
<1>1. f = HitsStep(k, tag, f)
  BY FindsAll
<1>2. Hits(k, tag) = f
  BY DEF Hits, HitsStep, Own
<1> HIDE DEF f
<1>3. \A e \in Elements : f[e] = Own(tag, e) \o FlattenSeq([i \in DOMAIN k[e] |-> f[k[e][i]]])
  BY <1>1 DEF HitsStep
<1>4. \A e : HitsBelow(k, tag, e) = FlattenSeq([i \in DOMAIN k[e] |-> f[k[e][i]]])
  BY <1>2 DEF HitsBelow
<1>5. \A e \in Elements : f[e] = Own(tag, e) \o HitsBelow(k, tag, e)
  BY <1>3, <1>4
<1>6. DOMAIN f = Elements /\ f = [x \in Elements |-> f[x]]
  BY <1>1 DEF HitsStep
<1> DEFINE P == {e \in Elements : f[e] \in Forms}
<1>7. ASSUME NEW e \in Elements, Range(k[e]) \subseteq P PROVE e \in P
  <2> DEFINE a == [i \in DOMAIN k[e] |-> f[k[e][i]]]
  <2>1. DOMAIN k[e] = 1..Len(k[e]) /\ Len(k[e]) \in Nat /\ \A i \in DOMAIN k[e] : f[k[e][i]] \in Forms
    BY <1>7, KidsAre
  <2>2. a \in Seq(Forms)
    BY <2>1
  <2>3. FlattenSeq(a) \in Forms
    <3> HIDE DEF a
    <3> QED
      BY <2>2, FlatAre
  <2>4. Own(tag, e) \in Forms
    BY ShortAre DEF Own
  <2>5. f[e] = Own(tag, e) \o FlattenSeq(a)
    BY <1>3
  <2> HIDE DEF a
  <2> QED
    BY <2>3, <2>4, <2>5, JoinedAre
<1>8. P = Elements
  <2>1. P \in SUBSET Elements
    OBVIOUS
  <2> HIDE DEF P
  <2> QED
    BY <1>7, <2>1, AllUpwards
<1> QED
  BY <1>2, <1>5, <1>6, <1>8 DEF Families

\* Pairs of elements in document order.
Order(k, top) == {q \in Elements \X Elements : Precedes(k, top, q[1], q[2])}
Found(k, tag, top, s, S) == /\ s \in Forms /\ Range(s) = Matching(S, tag)
                            /\ Ordered(s, Order(k, top))

\* What the children give, one after the other, is what is below them.
LEMMA ChildrenFound ==
  ASSUME NEW k \in Families, NoCircle(k), NEW tag, NEW top \in Elements, NEW e \in Subtree(k, top),
         \A c \in Range(k[e]) : Found(k, tag, top, Hits(k, tag)[c], Subtree(k, c))
  PROVE  Found(k, tag, top, HitsBelow(k, tag, e), Subtree(k, e) \ {e})
<1> DEFINE H == Hits(k, tag)
           a == [i \in DOMAIN k[e] |-> H[k[e][i]]]
<1>1. e \in Elements
  BY SubtreeParts
<1>2. /\ DOMAIN k[e] = 1..Len(k[e]) /\ Len(k[e]) \in Nat /\ Range(k[e]) \in SUBSET Elements
      /\ \A i \in DOMAIN k[e] : k[e][i] \in Elements /\ k[e][i] \in Range(k[e])
  BY <1>1, KidsAre
<1> HIDE DEF H
<1>3. \A i \in DOMAIN k[e] : Found(k, tag, top, H[k[e][i]], Subtree(k, k[e][i]))
  BY <1>2 DEF H
<1>4. a \in Seq(Forms) /\ Len(a) = Len(k[e]) /\ \A i \in 1..Len(k[e]) : a[i] = H[k[e][i]]
  <2>1. \A i \in 1..Len(k[e]) : H[k[e][i]] \in Forms
    BY <1>2, <1>3 DEF Found
  <2> QED
    BY <1>2, <2>1
<1>5. HitsBelow(k, tag, e) = FlattenSeq(a)
  BY DEF HitsBelow, H
<1> HIDE DEF a
<1>6. /\ FlattenSeq(a) \in Forms
      /\ Range(FlattenSeq(a)) = Heard(a, Len(a))
      /\ \A R : /\ \A i \in 1..Len(a) : Ordered(a[i], R)
                /\ \A i, j \in 1..Len(a) : i < j => Range(a[i]) \X Range(a[j]) \subseteq R
                => Ordered(FlattenSeq(a), R)
  BY <1>4, FlatAre
<1>7. \A i \in 1..Len(a) : Range(a[i]) = Matching(Subtree(k, k[e][i]), tag)
  BY <1>2, <1>3, <1>4 DEF Found
<1>8. Heard(a, Len(a)) = Matching(Subtree(k, e) \ {e}, tag)
  <2>1. \A c \in Range(k[e]) : Subtree(k, c) \subseteq Subtree(k, e) /\ e \notin Subtree(k, c)
    BY <1>1, SubtreeParts, NotBelowChild
  <2>2. \A i \in 1..Len(a) : Range(a[i]) \subseteq Matching(Subtree(k, e) \ {e}, tag)
    BY <1>2, <1>4, <1>7, <2>1 DEF Matching
  <2>3. ASSUME NEW x \in Matching(Subtree(k, e) \ {e}, tag)
        PROVE  \E i \in 1..Len(a) : x \in Range(a[i])
    <3>1. PICK c \in Range(k[e]) : x \in Subtree(k, c)
      BY <1>1, SubtreeParts DEF Matching
    <3>2. PICK i \in DOMAIN k[e] : c = k[e][i]
      BY DEF Range
    <3> QED
      BY <1>2, <1>4, <1>7, <3>1, <3>2 DEF Matching
  <2> QED
    BY <2>2, <2>3 DEF Heard
<1>9. Ordered(FlattenSeq(a), Order(k, top))
  <2>1. \A i \in 1..Len(a) : Ordered(a[i], Order(k, top))
    BY <1>2, <1>3, <1>4 DEF Found
  <2>2. ASSUME NEW i \in 1..Len(a), NEW j \in 1..Len(a), i < j,
               NEW x \in Range(a[i]), NEW y \in Range(a[j])
        PROVE  <<x, y>> \in Order(k, top)
    <3>1. x \in Subtree(k, k[e][i]) /\ y \in Subtree(k, k[e][j])
      BY <1>7, <2>2 DEF Matching
    <3>2. i \in DOMAIN k[e] /\ j \in DOMAIN k[e]
      BY <1>2, <1>4
    <3>3. x \in Elements /\ y \in Elements
      BY <1>2, <3>1, <3>2, SubtreeParts
    <3>4. Precedes(k, top, x, y)
      BY <2>2, <3>1, <3>2 DEF Precedes
    <3> QED
      BY <3>3, <3>4 DEF Order
  <2>3. \A i, j \in 1..Len(a) : i < j => Range(a[i]) \X Range(a[j]) \subseteq Order(k, top)
    BY <2>2
  <2> QED
    BY <1>6, <2>1, <2>3
<1> QED
  BY <1>5, <1>6, <1>8, <1>9 DEF Found

\* find(tag, e, true) finds everything with the tag from e downwards, in document order.
LEMMA AllFound ==
  ASSUME NEW k \in Families, NoCircle(k), NEW tag, NEW top \in Elements, NEW e \in Subtree(k, top)
  PROVE  Found(k, tag, top, Hits(k, tag)[e], Subtree(k, e))
<1> DEFINE P == {x \in Elements : x \in Subtree(k, top) =>
                    Found(k, tag, top, Hits(k, tag)[x], Subtree(k, x))}
<1>1. ASSUME NEW x \in Elements, Range(k[x]) \subseteq P PROVE x \in P
  <2>1. SUFFICES ASSUME x \in Subtree(k, top)
                 PROVE  Found(k, tag, top, Hits(k, tag)[x], Subtree(k, x))
    OBVIOUS
  <2>2. \A c \in Range(k[x]) : Found(k, tag, top, Hits(k, tag)[c], Subtree(k, c))
    BY <1>1, <2>1, SubtreeClosed
  <2> DEFINE o == Own(tag, x)
             b == HitsBelow(k, tag, x)
  <2>3. Found(k, tag, top, b, Subtree(k, x) \ {x})
    BY <2>1, <2>2, ChildrenFound
  <2>4. o \in Forms /\ Range(o) = Matching({x}, tag) /\ Ordered(o, Order(k, top))
    <3>1. CASE tag \in {TagOf[x], ""}
      <4>1. o = <<x>> /\ Matching({x}, tag) = {x}
        BY <3>1 DEF Own, Matching
      <4>2. <<x>> \in Forms /\ Range(<<x>>) = {x} /\ Ordered(<<x>>, Order(k, top))
        BY ShortAre
      <4> QED
        BY <4>1, <4>2
    <3>2. CASE tag \notin {TagOf[x], ""}
      <4>1. o = <<>> /\ Matching({x}, tag) = {}
        BY <3>2 DEF Own, Matching
      <4> QED
        BY <4>1, ShortAre
    <3> QED
      BY <3>1, <3>2
  <2>5. Range(o) \X Range(b) \subseteq Order(k, top)
    <3>1. ASSUME NEW y \in Range(o), NEW z \in Range(b) PROVE <<y, z>> \in Order(k, top)
      <4>1. y = x
        BY <2>4, <3>1 DEF Matching
      <4>2. z \in Subtree(k, x) \ {x}
        BY <2>3, <3>1 DEF Found, Matching
      <4>3. z \in Elements
        BY <4>2, SubtreeParts
      <4>4. Precedes(k, top, x, z)
        BY <4>2 DEF Precedes
      <4> QED
        BY <4>1, <4>3, <4>4 DEF Order
    <3> QED
      BY <3>1
  <2>6. /\ o \o b \in Forms /\ Range(o \o b) = Range(o) \cup Range(b)
        /\ Ordered(o \o b, Order(k, top))
    <3>1. b \in Forms /\ Ordered(b, Order(k, top))
      BY <2>3 DEF Found
    <3> HIDE DEF o, b
    <3> QED
      BY <2>4, <2>5, <3>1, JoinedAre
  <2>7. Range(o) \cup Range(b) = Matching(Subtree(k, x), tag)
    <3>1. x \in Subtree(k, x)
      BY SubtreeParts
    <3>2. Range(b) = Matching(Subtree(k, x) \ {x}, tag)
      BY <2>3 DEF Found
    <3> QED
      BY <2>4, <3>1, <3>2 DEF Matching
  <2>8. Hits(k, tag)[x] = o \o b
    BY HitsAre
  <2> QED
    BY <2>6, <2>7, <2>8 DEF Found
<1>2. P = Elements
  <2>1. P \in SUBSET Elements
    OBVIOUS
  <2> HIDE DEF P
  <2> QED
    BY <1>1, <2>1, AllUpwards
<1>3. e \in Elements
  BY SubtreeParts
<1> QED
  BY <1>2, <1>3

------------------------------------------------------------------------------
(* Lists in document order.                                                  *)

\* A list in document order holds each element once, so that it is as long as its set.
LEMMA OrderedLists ==
  ASSUME NEW k, Tree(k), NEW top \in Elements, NEW s \in Forms, Ordered(s, Order(k, top))
  PROVE  Lists(k, s, Range(s), top)
<1>1. Len(s) \in Nat /\ DOMAIN s = 1..Len(s)
  BY LenProperties DEF Forms
<1>2. \A i, j \in 1..Len(s) : i < j => Precedes(k, top, s[i], s[j])
  BY DEF Ordered, Order
<1>3. \A i, j \in 1..Len(s) : i < j => s[i] # s[j]
  BY <1>2, NotBeforeItself
<1>4. \A i, j \in 1..Len(s) : s[i] = s[j] => i = j
  <2>1. \A i, j \in 1..Len(s) : i < j \/ j < i \/ i = j
    BY <1>1
  <2> QED
    BY <1>3, <2>1
<1>5. s \in Bijection(1..Len(s), Range(s))
  <2>1. s \in [1..Len(s) -> Range(s)]
    BY <1>1, LenProperties DEF Range, Forms
  <2>2. s \in Injection(1..Len(s), Range(s))
    BY <1>1, <1>4, <2>1 DEF Injection, IsInjective
  <2>3. \A x \in Range(s) : \E i \in 1..Len(s) : s[i] = x
    BY <1>1 DEF Range
  <2>4. s \in Surjection(1..Len(s), Range(s))
    BY <2>1, <2>3 DEF Surjection
  <2> QED
    BY <2>2, <2>4 DEF Bijection
<1>6. Cardinality(Range(s)) = Len(s)
  <2>1. ExistsBijection(1..Len(s), Range(s))
    BY <1>5 DEF ExistsBijection
  <2> QED
    BY <1>1, <2>1, FS_CountingElements
<1>7. \A i \in 1..(Len(s) - 1) : i \in 1..Len(s) /\ i + 1 \in 1..Len(s) /\ i < i + 1
  BY <1>1
<1> QED
  BY <1>2, <1>6, <1>7 DEF Lists

\* Of such a list, the first element precedes all others.
LEMMA FirstOfAll ==
  ASSUME NEW k, NEW top, NEW s \in Forms, Ordered(s, Order(k, top)), s # <<>>
  PROVE  /\ s[1] \in Range(s)
         /\ \A f \in Range(s) \ {s[1]} : Precedes(k, top, s[1], f)
<1>1. Len(s) \in Nat \ {0} /\ DOMAIN s = 1..Len(s)
  BY LenProperties, EmptySeq DEF Forms
<1>2. 1 \in DOMAIN s
  BY <1>1
<1>3. ASSUME NEW f \in Range(s), f # s[1] PROVE Precedes(k, top, s[1], f)
  <2>1. PICK j \in DOMAIN s : f = s[j]
    BY DEF Range
  <2>2. 1 < j
    BY <1>1, <1>3, <2>1
  <2> QED
    BY <1>1, <1>2, <2>1, <2>2 DEF Ordered, Order
<1> QED
  BY <1>2, <1>3 DEF Range

\* What is found below an element, and from it downwards.
LEMMA QueriesFind ==
  ASSUME NEW k, Tree(k), NEW top \in Elements, NEW tag
  PROVE  /\ Found(k, tag, top, Hits(k, tag)[top], Subtree(k, top))
         /\ Lists(k, Hits(k, tag)[top], Matching(Subtree(k, top), tag), top)
         /\ HitsBelow(k, tag, top) \in Forms
         /\ Lists(k, HitsBelow(k, tag, top), Matching(Subtree(k, top) \ {top}, tag), top)
<1>1. k \in Families /\ NoCircle(k) /\ top \in Subtree(k, top)
  BY SubtreeParts DEF Tree
<1>2. \A e \in Subtree(k, top) : Found(k, tag, top, Hits(k, tag)[e], Subtree(k, e))
  BY <1>1, AllFound
<1>3. Found(k, tag, top, HitsBelow(k, tag, top), Subtree(k, top) \ {top})
  <2>1. \A c \in Range(k[top]) : c \in Subtree(k, top)
    BY <1>1, SubtreeClosed
  <2> QED
    BY <1>1, <1>2, <2>1, ChildrenFound
<1>4. \A s, S : Found(k, tag, top, s, S) => Lists(k, s, Matching(S, tag), top)
  <2>1. SUFFICES ASSUME NEW s, NEW S, Found(k, tag, top, s, S)
                 PROVE  Lists(k, s, Matching(S, tag), top)
    OBVIOUS
  <2>2. s \in Forms /\ Range(s) = Matching(S, tag) /\ Ordered(s, Order(k, top))
    BY <2>1 DEF Found
  <2>3. Lists(k, s, Range(s), top)
    BY <2>2, OrderedLists
  <2> QED
    BY <2>2, <2>3
<1>5. HitsBelow(k, tag, top) \in Forms
  BY <1>3 DEF Found
<1> QED
  BY <1>1, <1>2, <1>3, <1>4, <1>5

------------------------------------------------------------------------------
(* Edits of one list.                                                        *)

\* Every set of numbers has a least one.
LEMMA LeastOf ==
  ASSUME NEW I \in SUBSET Nat, I # {}
  PROVE  Min(I) \in I
<1>1. IsWellFoundedOn({p \in Nat \X Nat : p[1] < p[2]}, Nat)
  BY NatLessThanWellFounded DEF OpToRel
<1>2. IsWellFoundedOn(Smaller, Nat)
  BY <1>1 DEF Smaller
<1>3. PICK x \in I : \A y \in I : ~ (<<y, x>> \in Smaller)
  BY <1>2, WFMin
<1>4. ASSUME NEW y \in I PROVE x <= y
  <2>1. x \in Nat /\ y \in Nat /\ ~ (<<y, x>> \in Smaller)
    BY <1>3
  <2>2. ~ (y < x)
    BY <2>1 DEF Smaller
  <2> QED
    BY <2>1, <2>2
<1> QED
  BY <1>4 DEF Min

\* The list t without its element at i.
Without(t, i, r) ==
  /\ Len(r) = Len(t) - 1
  /\ \A j \in 1..Len(r) : IF j < i THEN r[j] = t[j] ELSE r[j] = t[j + 1]

\* RemoveAt takes out one element.
LEMMA RemoveAtIs ==
  ASSUME NEW S, NEW t \in Seq(S), NEW i \in 1..Len(t)
  PROVE  RemoveAt(t, i) \in Seq(S) /\ Without(t, i, RemoveAt(t, i))
<1>1. Len(t) \in Nat /\ i \in Nat /\ i >= 1 /\ i <= Len(t) /\ \A j \in 1..Len(t) : t[j] \in S
  BY ElementOfSeq
<1> DEFINE a == SubSeq(t, 1, i - 1)
           b == SubSeq(t, i + 1, Len(t))
<1>2. /\ a \in Seq(S) /\ Len(a) = i - 1
      /\ \A j \in 1..(i - 1) : a[j] = t[j]
  <2>1. 1 \in Int /\ i - 1 \in Int /\ \A j \in 1..(i - 1) : t[j] \in S
    BY <1>1
  <2>2. /\ a \in Seq(S) /\ Len(a) = (IF 1 <= i - 1 THEN (i - 1) - 1 + 1 ELSE 0)
        /\ \A j \in 1..((i - 1) - 1 + 1) : a[j] = t[1 + j - 1]
    BY <2>1, SubSeqProperties
  <2> HIDE DEF a
  <2> QED
    BY <1>1, <2>2
<1>3. /\ b \in Seq(S) /\ Len(b) = Len(t) - i
      /\ \A j \in 1..(Len(t) - i) : b[j] = t[i + j]
  <2>1. i + 1 \in Int /\ Len(t) \in Int /\ \A j \in (i + 1)..Len(t) : t[j] \in S
    BY <1>1
  <2>2. /\ b \in Seq(S) /\ Len(b) = (IF i + 1 <= Len(t) THEN Len(t) - (i + 1) + 1 ELSE 0)
        /\ \A j \in 1..(Len(t) - (i + 1) + 1) : b[j] = t[(i + 1) + j - 1]
    BY <2>1, SubSeqProperties
  <2> HIDE DEF b
  <2> QED
    BY <1>1, <2>2
<1>4. RemoveAt(t, i) = a \o b
  BY DEF RemoveAt
<1> HIDE DEF a, b
<1>5. /\ a \o b \in Seq(S) /\ Len(a \o b) = Len(a) + Len(b)
      /\ \A j \in 1..(Len(a) + Len(b)) : (a \o b)[j] = IF j <= Len(a) THEN a[j] ELSE b[j - Len(a)]
  BY <1>2, <1>3, ConcatProperties
<1>6. Len(a \o b) = Len(t) - 1
  BY <1>1, <1>2, <1>3, <1>5
<1>7. ASSUME NEW j \in 1..(Len(t) - 1)
      PROVE  IF j < i THEN (a \o b)[j] = t[j] ELSE (a \o b)[j] = t[j + 1]
  <2>1. (a \o b)[j] = IF j <= i - 1 THEN a[j] ELSE b[j - (i - 1)]
    BY <1>1, <1>2, <1>3, <1>5
  <2>2. CASE j < i
    <3>1. j <= i - 1 /\ j \in 1..(i - 1)
      BY <1>1, <2>2
    <3> QED
      BY <1>2, <2>1, <2>2, <3>1
  <2>3. CASE ~(j < i)
    <3>1. ~(j <= i - 1) /\ j - (i - 1) \in 1..(Len(t) - i) /\ i + (j - (i - 1)) = j + 1
      BY <1>1, <2>3
    <3>2. b[j - (i - 1)] = t[i + (j - (i - 1))]
      BY <1>3, <3>1
    <3> QED
      BY <2>1, <2>3, <3>1, <3>2
  <2> QED
    BY <2>2, <2>3
<1> QED
  BY <1>4, <1>5, <1>6, <1>7 DEF Without

\* A list without one element has no other elements, and each in its place only.
LEMMA WithoutKeeps ==
  ASSUME NEW t \in Forms, NEW i \in 1..Len(t), NEW r \in Forms, Without(t, i, r)
  PROVE  /\ Range(r) \subseteq Range(t)
         /\ IsInjective(t) => IsInjective(r)
         /\ \A Q \in SUBSET Elements :
              (\A m, n \in DOMAIN t : t[m] \in Q /\ t[n] \in Q => m = n)
              => \A m, n \in DOMAIN r : r[m] \in Q /\ r[n] \in Q => m = n
<1> DEFINE at(j) == IF j < i THEN j ELSE j + 1
<1>1. /\ Len(t) \in Nat /\ i \in Nat /\ DOMAIN t = 1..Len(t)
      /\ DOMAIN r = 1..Len(r) /\ Len(r) = Len(t) - 1
  BY LenProperties DEF Forms, Without
<1>2. \A j \in DOMAIN r : at(j) \in DOMAIN t /\ r[j] = t[at(j)]
  <2>1. SUFFICES ASSUME NEW j \in 1..(Len(t) - 1) PROVE at(j) \in 1..Len(t) /\ r[j] = t[at(j)]
    BY <1>1
  <2>2. IF j < i THEN r[j] = t[j] ELSE r[j] = t[j + 1]
    BY <1>1 DEF Without
  <2>3. j \in 1..Len(t) /\ j + 1 \in 1..Len(t)
    BY <1>1
  <2> QED
    BY <2>2, <2>3
<1>3. \A j, l \in DOMAIN r : at(j) = at(l) => j = l
  BY <1>1
<1> HIDE DEF at
<1>4. Range(r) \subseteq Range(t)
  BY <1>2 DEF Range
<1>5. IsInjective(t) => IsInjective(r)
  BY <1>2, <1>3 DEF IsInjective
<1>6. ASSUME NEW Q \in SUBSET Elements, \A m, n \in DOMAIN t : t[m] \in Q /\ t[n] \in Q => m = n
      PROVE  \A m, n \in DOMAIN r : r[m] \in Q /\ r[n] \in Q => m = n
  BY <1>2, <1>3, <1>6
<1> QED
  BY <1>4, <1>5, <1>6

\* removeChild and removeAttrib take out the first that is equal, if there is one.
LEMMA RemoveFirstIs ==
  ASSUME NEW S, NEW t \in Seq(S), NEW v
  PROVE  /\ v \notin Range(t) => RemoveFirst(t, v) = t
         /\ v \in Range(t) => \E i \in 1..Len(t) : RemoveFirst(t, v) = RemoveAt(t, i)
<1>1. Len(t) \in Nat /\ DOMAIN t = 1..Len(t)
  BY LenProperties
<1>2. v \in Range(t) <=> \E i \in 1..Len(t) : t[i] = v
  BY <1>1 DEF Range
<1>3. ASSUME v \notin Range(t) PROVE RemoveFirst(t, v) = t
  BY <1>2, <1>3 DEF RemoveFirst
<1>4. ASSUME v \in Range(t) PROVE \E i \in 1..Len(t) : RemoveFirst(t, v) = RemoveAt(t, i)
  <2> DEFINE I == {i \in 1..Len(t) : t[i] = v}
  <2>1. I \in SUBSET Nat /\ I # {}
    BY <1>1, <1>2, <1>4
  <2>2. RemoveFirst(t, v) = RemoveAt(t, Min(I))
    BY <1>2, <1>4, <2>1 DEF RemoveFirst, SelectInSeq
  <2>3. Min(I) \in I
    <3> HIDE DEF I
    <3> QED
      BY <2>1, LeastOf
  <2> QED
    BY <2>2, <2>3
<1> QED
  BY <1>3, <1>4

\* One element more at the end is one element more.
LEMMA AppendLonger ==
  ASSUME NEW S, NEW t \in Seq(S), NEW c \in S
  PROVE  LongerByOne(t, Append(t, c)) /\ Append(t, c) # t
<1> DEFINE u == Append(t, c)
           n == Len(t) + 1
<1>1. /\ u \in Seq(S) /\ Len(u) = n /\ Len(t) \in Nat /\ n \in 1..Len(u) /\ DOMAIN u = 1..Len(u)
      /\ \A j \in 1..Len(t) : u[j] = t[j]
  BY AppendProperties, LenProperties
<1> HIDE DEF u
<1>2. RemoveAt(u, n) \in Seq(S) /\ Without(u, n, RemoveAt(u, n))
  BY <1>1, RemoveAtIs
<1>3. Len(RemoveAt(u, n)) = Len(t) /\ \A j \in 1..Len(t) : t[j] = RemoveAt(u, n)[j]
  BY <1>1, <1>2 DEF Without
<1>4. t = RemoveAt(u, n)
  BY <1>2, <1>3, SeqEqual
<1>5. u # t
  BY <1>1
<1> QED
  BY <1>1, <1>4, <1>5 DEF LongerByOne, u

\* One element taken out is one element less.
LEMMA RemoveShorter ==
  ASSUME NEW S, NEW t \in Seq(S), NEW v \in Range(t)
  PROVE  /\ RemoveFirst(t, v) \in Seq(S) /\ RemoveFirst(t, v) # t
         /\ LongerByOne(RemoveFirst(t, v), t)
<1>1. Len(t) \in Nat /\ DOMAIN t = 1..Len(t)
  BY LenProperties
<1>2. PICK i \in 1..Len(t) : RemoveFirst(t, v) = RemoveAt(t, i)
  BY RemoveFirstIs
<1>3. RemoveAt(t, i) \in Seq(S) /\ Without(t, i, RemoveAt(t, i))
  BY RemoveAtIs
<1>4. RemoveAt(t, i) # t
  BY <1>1, <1>3 DEF Without
<1> QED
  BY <1>1, <1>2, <1>3, <1>4 DEF LongerByOne

------------------------------------------------------------------------------
(* Edits of the tree.                                                        *)

\* The tree k with list r for the children of p.
Changed(k, p, r) == [k EXCEPT ![p] = r]

\* Only p has other children.
LEMMA ChangedIs ==
  ASSUME NEW k \in Families, NEW p \in Elements, NEW r \in Forms
  PROVE  /\ Changed(k, p, r) \in Families
         /\ \A e \in Elements : Changed(k, p, r)[e] = IF e = p THEN r ELSE k[e]
BY DEF Changed, Families

\* A child that is taken out.
LEMMA TreeWithout ==
  ASSUME NEW k, Tree(k), NEW p \in Elements, NEW r \in Forms,
         NEW i \in 1..Len(k[p]), Without(k[p], i, r)
  PROVE  Tree(Changed(k, p, r))
<1> DEFINE n == Changed(k, p, r)
<1>1. /\ k \in Families /\ NoCircle(k) /\ (\A e \in Elements : Proper(k, e))
      /\ k[p] \in Forms
  BY KidsAre DEF Tree
<1>2. n \in Families /\ \A e \in Elements : n[e] = IF e = p THEN r ELSE k[e]
  BY <1>1, ChangedIs
<1> HIDE DEF n
<1>3. /\ Range(r) \subseteq Range(k[p])
      /\ IsInjective(k[p]) => IsInjective(r)
      /\ \A Q \in SUBSET Elements :
           (\A l, m \in DOMAIN k[p] : k[p][l] \in Q /\ k[p][m] \in Q => l = m)
           => \A l, m \in DOMAIN r : r[l] \in Q /\ r[m] \in Q => l = m
  BY <1>1, WithoutKeeps
<1>4. \A e \in Elements : Range(n[e]) \subseteq Range(k[e])
  BY <1>2, <1>3
<1>5. NoCircle(n)
  BY <1>1, <1>4 DEF NoCircle
<1>6. ASSUME NEW e \in Elements PROVE Proper(n, e)
  <2>1. CASE e # p
    <3>1. n[e] = k[e] /\ Proper(k, e)
      BY <1>1, <1>2, <2>1
    <3> QED
      BY <3>1 DEF Proper, RootAlone
  <2>2. CASE e = p
    <3>1. n[e] = r /\ Proper(k, p)
      BY <1>1, <1>2, <2>2
    <3>2. IsInjective(r) /\ \A c \in Range(r) : Kind[c] # "doc"
      BY <1>3, <3>1 DEF Proper
    <3>3. ASSUME Kind[p] = "doc" PROVE RootAlone(n, p)
      <4> DEFINE Q == {c \in Elements : Tagged(c)}
      <4>1. \A l, m \in DOMAIN k[p] : k[p][l] \in Q /\ k[p][m] \in Q => l = m
        BY <1>1, <3>1, <3>3 DEF Proper, RootAlone
      <4>2. \A l, m \in DOMAIN r : r[l] \in Q /\ r[m] \in Q => l = m
        <5>1. Q \in SUBSET Elements
          OBVIOUS
        <5> HIDE DEF Q
        <5> QED
          BY <1>3, <4>1, <5>1
      <4>3. \A l \in DOMAIN r : r[l] \in Elements
        BY LenProperties, ElementOfSeq DEF Forms
      <4>4. \A c \in Range(r) : Kind[c] \notin {"text", "doc"}
        BY <1>3, <3>1, <3>3 DEF Proper, RootAlone
      <4> QED
        BY <2>2, <3>1, <4>2, <4>3, <4>4 DEF RootAlone
    <3>4. ASSUME Kind[p] \notin {"doc", "tagged"} PROVE FALSE
      <4>1. k[p] = <<>>
        BY <3>1, <3>4 DEF Proper
      <4>2. Len(k[p]) = 0
        BY <4>1
      <4> QED
        BY <4>2
    <3> QED
      BY <2>2, <3>1, <3>2, <3>3, <3>4 DEF Proper
  <2> QED
    BY <2>1, <2>2
<1>7. \A a, b \in Parents : Range(n[a]) \cap Range(n[b]) # {} => a = b
  BY <1>4 DEF Tree, Parents
<1>8. \A c \in Range(n[TempElem]) : ~Tagged(c) => \A q \in Parents : c \notin Range(n[q])
  BY <1>4, ElementsAssumption DEF Tree, Parents
<1>9. Tree(n)
  BY <1>2, <1>5, <1>6, <1>7, <1>8 DEF Tree
<1> QED
  BY <1>9 DEF n

\* A child that is added: one without a parent, and not above its parent to be.
LEMMA TreeWith ==
  ASSUME NEW k, Tree(k), NEW p \in Elements, NEW c \in Elements,
         \A e \in Elements : c \notin Range(k[e]),
         p \notin Subtree(k, c),
         Kind[c] = "doc" => Kind[p] = "doc",
         \/ Tagged(p)
         \/ /\ Kind[p] = "doc" /\ Kind[c] \notin {"text", "doc"}
            /\ Tagged(c) => ~(\E i \in DOMAIN k[p] : Tagged(k[p][i]))
  PROVE  Tree(Changed(k, p, Append(k[p], c)))
<1> DEFINE r == Append(k[p], c)
           n == Changed(k, p, r)
<1>1. /\ k \in Families /\ NoCircle(k) /\ (\A e \in Elements : Proper(k, e))
      /\ k[p] \in Forms /\ DOMAIN k[p] = 1..Len(k[p]) /\ Len(k[p]) \in Nat
      /\ \A i \in DOMAIN k[p] : k[p][i] \in Elements /\ k[p][i] \in Range(k[p])
  BY KidsAre DEF Tree
<1>2. /\ r \in Forms /\ Len(r) = Len(k[p]) + 1 /\ DOMAIN r = 1..(Len(k[p]) + 1)
      /\ \A i \in DOMAIN k[p] : r[i] = k[p][i]
      /\ r[Len(k[p]) + 1] = c
  BY <1>1, AppendProperties, LenProperties DEF Forms
<1> HIDE DEF r
<1>3. n \in Families /\ \A e \in Elements : n[e] = IF e = p THEN r ELSE k[e]
  BY <1>1, <1>2, ChangedIs
<1> HIDE DEF n
<1>4. \A i \in DOMAIN r : i \in DOMAIN k[p] \/ (i = Len(k[p]) + 1 /\ r[i] = c)
  BY <1>1, <1>2
<1>5. Range(r) = Range(k[p]) \cup {c}
  <2>1. Len(k[p]) + 1 \in DOMAIN r /\ \A i \in DOMAIN k[p] : i \in DOMAIN r
    BY <1>1, <1>2
  <2> QED
    BY <1>2, <1>4, <2>1 DEF Range
<1>6. \A e \in Elements : Range(n[e]) = IF e = p THEN Range(k[p]) \cup {c} ELSE Range(k[e])
  BY <1>3, <1>5
<1>7. NoCircle(n)
  <2>1. SUFFICES ASSUME NEW S \in SUBSET Elements, S # {}
                 PROVE  \E e \in S : Range(n[e]) \cap S = {}
    BY DEF NoCircle
  <2>2. CASE p \notin S \/ c \notin S
    <3>1. PICK e \in S : Range(k[e]) \cap S = {}
      BY <1>1, <2>1 DEF NoCircle
    <3> QED
      BY <1>6, <2>2, <3>1
  <2>3. CASE p \in S /\ c \in S
    <3> DEFINE B == S \cap Subtree(k, c)
    <3>1. B \in SUBSET Elements /\ B # {}
      BY <1>1, <2>3, SubtreeParts
    <3>2. PICK e \in B : Range(k[e]) \cap B = {}
      BY <1>1, <3>1 DEF NoCircle
    <3>3. Range(k[e]) \subseteq Subtree(k, c)
      BY <1>1, <3>2, SubtreeClosed
    <3>4. e # p
      BY <3>2
    <3> QED
      BY <1>6, <3>2, <3>3, <3>4
  <2> QED
    BY <2>2, <2>3
<1>8. Kind[c] # "doc"
  BY DEF Tagged
<1>9. ASSUME NEW e \in Elements PROVE Proper(n, e)
  <2>1. CASE e # p
    <3>1. n[e] = k[e] /\ Proper(k, e)
      BY <1>1, <1>3, <2>1
    <3> QED
      BY <3>1 DEF Proper, RootAlone
  <2>2. CASE e = p
    <3>1. n[e] = r /\ Proper(k, p)
      BY <1>1, <1>3, <2>2
    <3>2. ASSUME NEW i \in DOMAIN r, NEW j \in DOMAIN r, r[i] = r[j] PROVE i = j
      <4>1. c \notin Range(k[p])
        OBVIOUS
      <4>2. \A l \in DOMAIN k[p] : r[l] = k[p][l] /\ r[l] # c
        BY <1>1, <1>2, <4>1
      <4>3. \A l, m \in DOMAIN k[p] : k[p][l] = k[p][m] => l = m
        BY <3>1 DEF Proper, IsInjective
      <4> QED
        BY <1>4, <3>2, <4>2, <4>3
    <3>3. IsInjective(r)
      BY <3>2 DEF IsInjective
    <3>4. \A d \in Range(r) : Kind[d] # "doc"
      BY <1>5, <1>8, <3>1 DEF Proper
    <3>5. ASSUME Kind[p] = "doc" PROVE RootAlone(n, p)
      <4>1. RootAlone(k, p) /\ ~Tagged(p)
        BY <3>1, <3>5 DEF Proper, Tagged
      <4>2. Kind[c] \notin {"text", "doc"} /\ (Tagged(c) => \A i \in DOMAIN k[p] : ~Tagged(k[p][i]))
        BY <4>1
      <4>3. \A d \in Range(r) : Kind[d] \notin {"text", "doc"}
        BY <1>5, <4>1, <4>2 DEF RootAlone
      <4>4. ASSUME NEW i \in DOMAIN r, NEW j \in DOMAIN r, Tagged(r[i]), Tagged(r[j]) PROVE i = j
        <5>1. CASE i \in DOMAIN k[p] /\ j \in DOMAIN k[p]
          BY <1>2, <4>1, <4>4, <5>1 DEF RootAlone
        <5>2. CASE i \notin DOMAIN k[p]
          <6>1. Tagged(c) /\ j \notin DOMAIN k[p]
            BY <1>2, <1>4, <4>2, <4>4, <5>2
          <6> QED
            BY <1>4, <5>2, <6>1
        <5>3. CASE j \notin DOMAIN k[p]
          <6>1. Tagged(c) /\ i \notin DOMAIN k[p]
            BY <1>2, <1>4, <4>2, <4>4, <5>3
          <6> QED
            BY <1>4, <5>3, <6>1
        <5> QED
          BY <5>1, <5>2, <5>3
      <4> QED
        BY <2>2, <3>1, <4>3, <4>4 DEF RootAlone
    <3>6. Kind[p] \in {"doc", "tagged"}
      BY DEF Tagged
    <3> QED
      BY <2>2, <3>1, <3>3, <3>4, <3>5, <3>6 DEF Proper
  <2> QED
    BY <2>1, <2>2
<1>10. ASSUME NEW a \in Parents, NEW b \in Parents, NEW x \in Range(n[a]), x \in Range(n[b])
       PROVE  a = b
  <2>1. a \in Elements /\ b \in Elements
    BY DEF Parents
  <2>2. CASE x = c
    BY <1>6, <1>10, <2>1, <2>2
  <2>3. CASE x # c
    <3>1. x \in Range(k[a]) /\ x \in Range(k[b])
      BY <1>6, <1>10, <2>1, <2>3
    <3> QED
      BY <3>1 DEF Tree
  <2> QED
    BY <2>2, <2>3
<1>11. ASSUME NEW x \in Range(n[TempElem]), ~Tagged(x), NEW q \in Parents, x \in Range(n[q])
       PROVE  FALSE
  <2>1. q \in Elements /\ q # TempElem /\ TempElem \in Elements
    BY ElementsAssumption DEF Parents
  <2>2. CASE x = c
    BY <1>6, <1>11, <2>1, <2>2
  <2>3. CASE x # c
    <3>1. x \in Range(k[TempElem]) /\ x \in Range(k[q])
      BY <1>6, <1>11, <2>1, <2>3
    <3> QED
      BY <1>11, <3>1 DEF Tree
  <2> QED
    BY <2>2, <2>3
<1>12. Tree(n)
  BY <1>3, <1>7, <1>9, <1>10, <1>11 DEF Tree
<1> QED
  BY <1>12 DEF n, r

\* A document made for a part.
LEMMA TreeShared ==
  ASSUME NEW k, Tree(k), NEW e \in Elements, Tagged(e)
  PROVE  Tree(Changed(k, TempElem, <<e>>))
<1> DEFINE r == <<e>>
           n == Changed(k, TempElem, r)
<1>1. k \in Families /\ NoCircle(k) /\ (\A x \in Elements : Proper(k, x)) /\ TempElem \in Elements
  BY ElementsAssumption DEF Tree
<1>2. r \in Forms /\ Len(r) = 1 /\ Range(r) = {e} /\ r[1] = e
  BY ShortAre
<1>3. DOMAIN r = {1}
  <2>1. DOMAIN r = 1..1
    BY <1>2, LenProperties DEF Forms
  <2> QED
    BY <2>1
<1> HIDE DEF r
<1>4. n \in Families /\ \A x \in Elements : n[x] = IF x = TempElem THEN r ELSE k[x]
  BY <1>1, <1>2, ChangedIs
<1> HIDE DEF n
<1>5. \A p \in Elements : TempElem \notin Range(k[p])
  BY <1>1, ElementsAssumption DEF Proper
<1>6. e # TempElem
  BY ElementsAssumption DEF Tagged
<1>7. NoCircle(n)
  <2>1. SUFFICES ASSUME NEW S \in SUBSET Elements, S # {}
                 PROVE  \E x \in S : Range(n[x]) \cap S = {}
    BY DEF NoCircle
  <2>2. CASE S = {TempElem}
    BY <1>2, <1>4, <1>6, <2>2
  <2>3. CASE S # {TempElem}
    <3>1. S \ {TempElem} \in SUBSET Elements /\ S \ {TempElem} # {}
      BY <2>1, <2>3
    <3>2. PICK x \in S \ {TempElem} : Range(k[x]) \cap (S \ {TempElem}) = {}
      BY <1>1, <3>1 DEF NoCircle
    <3>3. Range(n[x]) = Range(k[x]) /\ TempElem \notin Range(k[x])
      BY <1>4, <1>5, <3>2
    <3> QED
      BY <3>2, <3>3
  <2> QED
    BY <2>2, <2>3
<1>8. ASSUME NEW x \in Elements PROVE Proper(n, x)
  <2>1. CASE x # TempElem
    <3>1. n[x] = k[x] /\ Proper(k, x)
      BY <1>1, <1>4, <2>1
    <3> QED
      BY <3>1 DEF Proper, RootAlone
  <2>2. CASE x = TempElem
    <3>1. n[x] = r
      BY <1>4, <2>2
    <3>2. IsInjective(r)
      BY <1>3 DEF IsInjective
    <3>3. Kind[e] # "doc" /\ Kind[e] # "text"
      BY DEF Tagged
    <3>4. RootAlone(n, x)
      BY <1>2, <1>3, <3>1, <3>3 DEF RootAlone
    <3> QED
      BY <1>2, <2>2, <3>1, <3>2, <3>3, <3>4, ElementsAssumption DEF Proper
  <2> QED
    BY <2>1, <2>2
<1>9. \A q \in Parents : q \in Elements /\ n[q] = k[q]
  BY <1>4 DEF Parents
<1>10. \A a, b \in Parents : Range(n[a]) \cap Range(n[b]) # {} => a = b
  BY <1>9 DEF Tree
<1>11. \A c \in Range(n[TempElem]) : Tagged(c)
  BY <1>1, <1>2, <1>4
<1>12. Tree(n)
  BY <1>4, <1>7, <1>8, <1>10, <1>11 DEF Tree
<1> QED
  BY <1>12 DEF n, r


------------------------------------------------------------------------------
(* The invariant of documents.                                               *)

\* What is not about the last call.
Documents ==
  /\ Tree(kids) /\ docElem \in {DocElem, TempElem} /\ found \in Forms
  /\ attribs \in [Elements -> Seq(Names)] /\ edits \in Nat
  /\ crashed => XmlRoot(kids, docElem) = Null
DocumentIInv == Documents /\ QueriesAnswer /\ SizeUnlessUnselected

\* The trees to begin with.
LEMMA ForestsAreTrees ==
  ASSUME NEW k, IsForest(k)
  PROVE  Tree(k)
<1>1. k \in Families
  BY DEF IsForest, Families, Forms
<1>2. NoCircle(k)
  BY DEF IsForest, NoCircle
<1>3. \A p, q \in Elements : \A i \in DOMAIN k[p], j \in DOMAIN k[q] :
        k[p][i] = k[q][j] => p = q /\ i = j
  BY DEF IsForest
<1>4. ASSUME NEW p \in Elements PROVE Proper(k, p)
  <2>1. IsInjective(k[p])
    BY <1>3 DEF IsInjective
  <2>2. /\ Kind[p] = "doc" => RootAlone(k, p)
        /\ Kind[p] \notin {"doc", "tagged"} => k[p] = <<>>
        /\ \A c \in Range(k[p]) : Kind[c] # "doc"
    BY DEF IsForest
  <2> QED
    BY <2>1, <2>2 DEF Proper
<1>5. ASSUME NEW p \in Parents, NEW q \in Parents, Range(k[p]) \cap Range(k[q]) # {}
      PROVE  p = q
  <2>1. p \in Elements /\ q \in Elements
    BY DEF Parents
  <2>2. PICK i \in DOMAIN k[p], j \in DOMAIN k[q] : k[p][i] = k[q][j]
    BY <1>5 DEF Range
  <2> QED
    BY <1>3, <2>1, <2>2
<1>6. Range(k[TempElem]) = {}
  <2>1. k[TempElem] = <<>>
    BY DEF IsForest
  <2> QED
    BY <2>1, ShortAre
<1> QED
  BY <1>1, <1>2, <1>4, <1>5, <1>6 DEF Tree

\* xmlRoot is an element, or a null pointer.
LEMMA XmlRootIs ==
  ASSUME NEW k \in Families, NEW d \in Elements, XmlRoot(k, d) # Null
  PROVE  XmlRoot(k, d) \in Elements
<1> DEFINE I == {i \in 1..Len(k[d]) : Tagged(k[d][i])}
           n == SelectInSeq(k[d], Tagged)
<1>1. Len(k[d]) \in Nat /\ DOMAIN k[d] = 1..Len(k[d]) /\ \A i \in DOMAIN k[d] : k[d][i] \in Elements
  BY KidsAre
<1>2. n = IF I # {} THEN Min(I) ELSE 0
  BY DEF SelectInSeq
<1>3. I \in SUBSET Nat /\ I \subseteq DOMAIN k[d]
  BY <1>1
<1>4. XmlRoot(k, d) = IF n = 0 THEN Null ELSE k[d][n]
  BY DEF XmlRoot
<1> HIDE DEF n, I
<1>5. I # {} /\ n = Min(I)
  BY <1>2, <1>4
<1>6. n \in I
  BY <1>3, <1>5, LeastOf
<1> QED
  BY <1>1, <1>3, <1>4, <1>6

\* A DocElement has no tag.
LEMMA DocHasNoTag ==
  ASSUME docElem \in {DocElem, TempElem}
  PROVE  docElem \in Elements /\ TagOf[docElem] = ""
BY ElementsAssumption

\* What find gives for the document that is asked.
LEMMA FindIs ==
  ASSUME Documents, NEW tag, NEW got \in Forms
  PROVE  /\ tag = "" => Find(tag, docElem, got, FALSE) = got \o <<docElem>>
         /\ tag # "" => Find(tag, docElem, got, FALSE) = got \o Hits(kids, tag)[docElem]
         /\ Find(tag, docElem, got, TRUE) = got \o Hits(kids, tag)[docElem]
BY DocHasNoTag DEF Documents, Find

\* What the first call of find gives.
LEMMA FindAtFirst ==
  ASSUME Documents, NEW tag
  PROVE  /\ tag = "" => Find(tag, docElem, <<>>, FALSE) = <<docElem>>
         /\ tag # "" => Find(tag, docElem, <<>>, FALSE) = Hits(kids, tag)[docElem]
         /\ Hits(kids, tag)[docElem] \in Forms /\ Find(tag, docElem, <<>>, FALSE) \in Forms
<1>1. docElem \in Elements /\ Tree(kids)
  BY DocHasNoTag DEF Documents
<1>2. Hits(kids, tag)[docElem] \in Forms
  BY <1>1, QueriesFind DEF Found
<1>3. <<docElem>> \in Forms /\ <<>> \in Forms
  BY <1>1, ShortAre
<1>4. \A s \in Forms : <<>> \o s = s
  BY DEF Forms
<1>5. /\ tag = "" => Find(tag, docElem, <<>>, FALSE) = <<docElem>>
      /\ tag # "" => Find(tag, docElem, <<>>, FALSE) = Hits(kids, tag)[docElem]
  BY <1>2, <1>3, <1>4, FindIs
<1> QED
  BY <1>2, <1>3, <1>5

\* A query changes found_ only.
LEMMA CallKeeps ==
  ASSUME Documents, NEW op, NEW tag, NEW result \in Forms, NEW answer, Call(op, tag, result, answer)
  PROVE  Documents'
<1>1. Tree(kids)'
  BY DEF Documents, Call, Tree, Proper, RootAlone, NoCircle
<1>2. XmlRoot(kids, docElem)' = XmlRoot(kids, docElem)
  BY DEF Call
<1> QED
  BY <1>1, <1>2 DEF Documents, Call

\* element finds what has the tag, in document order.
LEMMA ElementKeeps ==
  ASSUME Documents, NEW tag, Element(tag)
  PROVE  DocumentIInv'
<1> DEFINE r == Find(tag, docElem, <<>>, FALSE)
<1>1. docElem \in Elements /\ Tree(kids)
  BY DocHasNoTag DEF Documents
<1>2. /\ kids' = kids /\ docElem' = docElem /\ found' = r
      /\ last' = [op |-> "element", tag |-> tag, first |-> First(found), answer |-> 0]
  BY DEF Element, Call
<1>3. last'.op = "element" /\ last'.tag = tag
  BY <1>2
<1>4. r \in Forms /\ (tag = "" => r = <<docElem>>) /\ (tag # "" => r = Hits(kids, tag)[docElem])
  BY FindAtFirst
<1>5. Lists(kids, Hits(kids, tag)[docElem], Matching(Subtree(kids, docElem), tag), docElem)
  BY <1>1, QueriesFind
<1>6. Documents'
  BY <1>4, CallKeeps DEF Element
<1> HIDE DEF r
<1>7. IF tag = "" THEN r = <<docElem>> ELSE Lists(kids, r, Matching(Subtree(kids, docElem), tag), docElem)
  BY <1>4, <1>5
<1>8. QueriesMatch'
  BY <1>2, <1>3, <1>7 DEF QueriesMatch
<1>9. DescendentsMatch' /\ SizeUnlessUnselected'
  BY <1>3 DEF DescendentsMatch, SizeUnlessUnselected
<1> QED
  BY <1>6, <1>8, <1>9 DEF DocumentIInv, QueriesAnswer

\* elements gives the children of the first of these.
LEMMA ElementsOfKeeps ==
  ASSUME Documents, NEW tag, ElementsOf(tag)
  PROVE  DocumentIInv'
<1> DEFINE h == Find(tag, docElem, <<>>, FALSE)
           r == IF h = <<>> THEN <<>> ELSE kids[h[1]]
           S == Subtree(kids, docElem)
           M == Matching(S, tag)
<1>1. docElem \in Elements /\ Tree(kids) /\ kids \in Families
  BY DocHasNoTag DEF Documents, Tree
<1>2. /\ kids' = kids /\ docElem' = docElem /\ found' = r
      /\ last' = [op |-> "elements", tag |-> tag, first |-> First(found), answer |-> 0]
  BY DEF ElementsOf, Call
<1>3. last'.op = "elements" /\ last'.tag = tag
  BY <1>2
<1>4. h \in Forms /\ (tag = "" => h = <<docElem>>) /\ (tag # "" => h = Hits(kids, tag)[docElem])
  BY FindAtFirst
<1>5. Found(kids, tag, docElem, Hits(kids, tag)[docElem], S)
  BY <1>1, QueriesFind
<1>6. docElem \in S /\ S \in SUBSET Elements
  BY <1>1, SubtreeParts DEF Tree
<1>7. Call("elements", tag, r, 0)
  BY DEF ElementsOf
<1>8. /\ h = <<>> => M = {}
      /\ h # <<>> => h[1] \in M /\ \A f \in M \ {h[1]} : Precedes(kids, docElem, h[1], f)
  <2>1. CASE tag = ""
    <3>1. M = S
      BY <2>1 DEF Matching
    <3>2. h = <<docElem>> /\ h # <<>> /\ h[1] = docElem
      <4>1. h = <<docElem>>
        BY <1>4, <2>1
      <4> HIDE DEF h
      <4> QED
        BY <4>1
    <3>3. \A f \in S \ {docElem} : Precedes(kids, docElem, docElem, f)
      BY DEF Precedes
    <3> QED
      BY <1>6, <3>1, <3>2, <3>3
  <2>2. CASE tag # ""
    <3>1. h \in Forms /\ Range(h) = M /\ Ordered(h, Order(kids, docElem))
      BY <1>4, <1>5, <2>2 DEF Found
    <3> HIDE DEF h, M
    <3>2. h = <<>> => M = {}
      BY <3>1, ShortAre
    <3>3. h # <<>> => h[1] \in M /\ \A f \in M \ {h[1]} : Precedes(kids, docElem, h[1], f)
      BY <3>1, FirstOfAll
    <3> QED
      BY <3>2, <3>3
  <2> QED
    BY <2>1, <2>2
<1>9. M \in SUBSET Elements
  BY <1>6 DEF Matching
<1>10. r \in Forms
  <2> HIDE DEF h, M
  <2> QED
    BY <1>1, <1>8, <1>9, KidsAre, ShortAre
<1>11. Documents'
  <2> HIDE DEF r
  <2> QED
    BY <1>7, <1>10, CallKeeps
<1>12. IF M = {} THEN r = <<>>
       ELSE \E e \in M : r = kids[e] /\ \A f \in M \ {e} : Precedes(kids, docElem, e, f)
  <2> HIDE DEF h, M
  <2> QED
    BY <1>8
<1>13. QueriesMatch'
  <2> HIDE DEF r
  <2> QED
    BY <1>2, <1>3, <1>12 DEF QueriesMatch
<1>14. DescendentsMatch' /\ SizeUnlessUnselected'
  BY <1>3 DEF DescendentsMatch, SizeUnlessUnselected
<1> QED
  BY <1>11, <1>13, <1>14 DEF DocumentIInv, QueriesAnswer

\* descendents asks from the first found, or from the root.
LEMMA DescendentsKeeps ==
  ASSUME DocumentIInv, NEW tag, Descendents(tag)
  PROVE  DocumentIInv'
<1> DEFINE top == IF found # <<>> THEN found[1] ELSE XmlRoot(kids, docElem)
           r == HitsBelow(kids, tag, top)
<1>1. /\ docElem \in Elements /\ Tree(kids) /\ kids \in Families /\ found \in Forms /\ Documents
      /\ Null \notin Elements
  BY DocHasNoTag, ElementsAssumption DEF DocumentIInv, Documents, Tree
<1>2. found # <<>> => found[1] \in Elements /\ found[1] # Null
  <2>1. \A s \in Seq(Elements) : s # <<>> => s[1] \in Elements
    BY EmptySeq, LenProperties, ElementOfSeq
  <2> QED
    BY <1>1, <2>1 DEF Forms
<1>3. CASE top # Null
  <2>1. top \in Elements
    BY <1>1, <1>2, <1>3, XmlRootIs
  <2>2. Call("descendents", tag, r, 0)
    BY <1>3 DEF Descendents
  <2>3. /\ kids' = kids /\ docElem' = docElem /\ found' = r
        /\ last' = [op |-> "descendents", tag |-> tag, first |-> First(found), answer |-> 0]
    BY <2>2 DEF Call
  <2>4. last'.op = "descendents" /\ last'.tag = tag /\ last'.first = First(found)
    BY <2>3
  <2>5. top = IF First(found) # Null THEN First(found) ELSE XmlRoot(kids, docElem)
    BY <1>2 DEF First
  <2> HIDE DEF top
  <2>6. r \in Forms /\ Lists(kids, r, Matching(Subtree(kids, top) \ {top}, tag), top)
    BY <1>1, <2>1, QueriesFind
  <2> HIDE DEF r
  <2>7. Documents'
    BY <1>1, <2>2, <2>6, CallKeeps
  <2>8. DescendentsMatch'
    BY <2>3, <2>4, <2>5, <2>6 DEF DescendentsMatch
  <2>9. QueriesMatch' /\ SizeUnlessUnselected'
    BY <2>4 DEF QueriesMatch, SizeUnlessUnselected
  <2> QED
    BY <2>7, <2>8, <2>9 DEF DocumentIInv, QueriesAnswer
<1>4. CASE top = Null
  <2>1. UNCHANGED <<kids, attribs, docElem, found, last, edits>> /\ XmlRoot(kids, docElem) = Null
    BY <1>2, <1>4 DEF Descendents
  <2>2. XmlRoot(kids, docElem)' = Null
    BY <2>1
  <2>3. Tree(kids)'
    BY <1>1, <2>1 DEF Tree, Proper, RootAlone, NoCircle
  <2>4. Documents'
    BY <1>1, <2>1, <2>2, <2>3 DEF Documents
  <2>5. QueriesAnswer' /\ SizeUnlessUnselected'
    BY <2>1 DEF DocumentIInv, QueriesAnswer, QueriesMatch, DescendentsMatch, SizeUnlessUnselected
  <2> QED
    BY <2>4, <2>5 DEF DocumentIInv
<1> QED
  BY <1>3, <1>4

\* select leaves nothing.
LEMMA SelectKeeps ==
  ASSUME Documents, Select
  PROVE  DocumentIInv'
<1>1. Documents'
  BY CallKeeps, ShortAre DEF Select
<1>2. last'.op = "select"
  BY DEF Select, Call
<1> QED
  BY <1>1, <1>2 DEF DocumentIInv, QueriesAnswer, QueriesMatch, DescendentsMatch, SizeUnlessUnselected

\* size counts what was found before it too.
LEMMA SizeKeeps ==
  ASSUME Documents, Size
  PROVE  DocumentIInv'
<1> DEFINE h == Hits(kids, "")[docElem]
           S == Subtree(kids, docElem)
           a == Len(Find("", docElem, found, TRUE)) - 1
<1>1. docElem \in Elements /\ Tree(kids) /\ found \in Forms
  BY DocHasNoTag DEF Documents
<1>2. Matching(S, "") = S
  BY DEF Matching
<1>3. Found(kids, "", docElem, h, S) /\ Lists(kids, h, Matching(S, ""), docElem)
  BY <1>1, QueriesFind
<1>4. h \in Forms /\ Len(h) = Cardinality(S)
  BY <1>2, <1>3 DEF Found, Lists
<1>5. Find("", docElem, found, TRUE) = found \o h
  BY <1>1, FindIs
<1>6. Len(found) \in Nat /\ Len(h) \in Nat /\ Len(found \o h) = Len(found) + Len(h)
  BY <1>1, <1>4, ConcatProperties, LenProperties DEF Forms
<1>7. Len(found) = 0 <=> found = <<>>
  BY <1>1, EmptySeq DEF Forms
<1>8. First(found) = Null <=> found = <<>>
  <2>1. \A s \in Seq(Elements) : s # <<>> => s[1] \in Elements
    BY EmptySeq, LenProperties, ElementOfSeq
  <2> QED
    BY <1>1, <2>1, ElementsAssumption DEF Forms, First
<1>9. a = Len(found) + Len(h) - 1
  <2>1. a = Len(found \o h) - 1
    BY <1>5
  <2> HIDE DEF a, h
  <2> QED
    BY <1>6, <2>1
<1>10. Call("size", "", <<>>, a)
  BY DEF Size
<1> HIDE DEF a
<1>11. /\ kids' = kids /\ docElem' = docElem
       /\ last' = [op |-> "size", tag |-> "", first |-> First(found), answer |-> a]
  BY <1>10 DEF Call
<1>12. last'.op = "size" /\ last'.first = First(found) /\ last'.answer = a
  BY <1>11
<1>13. Documents'
  BY <1>10, CallKeeps, ShortAre
<1>14. a = Len(h) - 1 <=> Len(found) = 0
  <2> HIDE DEF h
  <2> QED
    BY <1>6, <1>9
<1>15. a = Cardinality(S) - 1 <=> First(found) = Null
  BY <1>4, <1>7, <1>8, <1>14
<1>16. SizeUnlessUnselected'
  BY <1>11, <1>12, <1>15 DEF SizeUnlessUnselected
<1>17. QueriesMatch' /\ DescendentsMatch'
  BY <1>12 DEF QueriesMatch, DescendentsMatch
<1> QED
  BY <1>13, <1>16, <1>17 DEF DocumentIInv, QueriesAnswer

------------------------------------------------------------------------------
(* Edits.                                                                    *)

\* An edit is no query.
LEMMA EditKeeps ==
  ASSUME Documents, NEW op, op \notin {"element", "elements", "descendents", "size"},
         NEW done, Edit(op, done), Tree(kids)', attribs' \in [Elements -> Seq(Names)]
  PROVE  DocumentIInv'
<1>1. /\ last'.op = op /\ ~crashed' /\ edits' \in Nat
      /\ docElem' = docElem /\ found' = found
  BY DEF Documents, Edit, NoCall
<1>2. Documents'
  BY <1>1 DEF Documents
<1> QED
  BY <1>1, <1>2 DEF DocumentIInv, QueriesAnswer, QueriesMatch, DescendentsMatch, SizeUnlessUnselected

\* What an edit returns says what it changed.
Answered ==
  LET kid == Differ(kids, kids')
      att == Differ(attribs, attribs')
  IN IF last'.answer = 0 THEN kid = {} /\ att = {}
     ELSE \/ att = {} /\ \E p \in kid : kid = {p} /\ (LongerByOne(kids[p], kids'[p]) \/ LongerByOne(kids'[p], kids[p]))
          \/ kid = {} /\ \E e \in att : att = {e} /\ (LongerByOne(attribs[e], attribs'[e]) \/ LongerByOne(attribs'[e], attribs[e]))

\* Nothing changed, and the answer is false.
LEMMA NothingDone ==
  ASSUME NEW op, Edit(op, FALSE), kids' = kids, attribs' = attribs
  PROVE  Answered
<1>1. last'.answer = 0
  BY DEF Edit, NoCall
<1>2. Differ(kids, kids') = {} /\ Differ(attribs, attribs') = {}
  BY DEF Differ
<1> QED
  BY <1>1, <1>2 DEF Answered

\* One child more or less, and the answer is true.
LEMMA ChildDone ==
  ASSUME kids \in Families, NEW op, Edit(op, TRUE), attribs' = attribs, NEW p \in Elements, NEW r \in Forms,
         kids' = Changed(kids, p, r), r # kids[p], LongerByOne(kids[p], r) \/ LongerByOne(r, kids[p])
  PROVE  Answered
<1>1. last'.answer = 1
  BY DEF Edit, NoCall
<1>2. \A e \in Elements : kids'[e] = IF e = p THEN r ELSE kids[e]
  BY ChangedIs
<1>3. Differ(kids, kids') = {p} /\ Differ(attribs, attribs') = {}
  BY <1>2 DEF Differ
<1> QED
  BY <1>1, <1>2, <1>3 DEF Answered

\* One attribute more or less, and the answer is true.
LEMMA AttribDone ==
  ASSUME attribs \in [Elements -> Seq(Names)], NEW op, Edit(op, TRUE), kids' = kids,
         NEW e \in Elements, NEW r \in Seq(Names), attribs' = [attribs EXCEPT ![e] = r],
         r # attribs[e], LongerByOne(attribs[e], r) \/ LongerByOne(r, attribs[e])
  PROVE  Answered /\ attribs' \in [Elements -> Seq(Names)]
<1>1. last'.answer = 1
  BY DEF Edit, NoCall
<1>2. \A x \in Elements : attribs'[x] = IF x = e THEN r ELSE attribs[x]
  OBVIOUS
<1>3. Differ(attribs, attribs') = {e} /\ Differ(kids, kids') = {}
  BY <1>2 DEF Differ
<1>4. attribs' \in [Elements -> Seq(Names)]
  OBVIOUS
<1>5. attribs'[e] = r /\ e \in Differ(attribs, attribs')
  BY <1>2, <1>3
<1>6. LongerByOne(attribs[e], attribs'[e]) \/ LongerByOne(attribs'[e], attribs[e])
  BY <1>5
<1>7. last'.answer # 0
  BY <1>1
<1>8. Answered
  BY <1>3, <1>5, <1>6, <1>7, Zenon DEF Answered
<1> QED
  BY <1>4, <1>8

\* addChild leaves a tree, with a root alone.
LEMMA AddChildKeeps ==
  ASSUME Documents, NEW p \in Elements, NEW c \in Elements, AddChild(p, c)
  PROVE  DocumentIInv' /\ Answered
<1> DEFINE r == Append(kids[p], c)
<1>1. Tree(kids) /\ kids \in Families /\ kids[p] \in Seq(Elements) /\ kids[p] \in Forms
  BY KidsAre DEF Documents, Tree, Forms
<1>2. attribs' = attribs /\ attribs \in [Elements -> Seq(Names)]
  BY DEF AddChild, Documents
<1>3. CASE Accepts(p, c)
  <2>1. kids' = Changed(kids, p, r) /\ Edit("addChild", TRUE)
    BY <1>3 DEF AddChild, Changed, Edit
  <2>2. /\ \A e \in Elements : c \notin Range(kids[e])
        /\ p \notin Subtree(kids, c)
        /\ Kind[c] = "doc" => Kind[p] = "doc"
    BY DEF AddChild
  <2>3. \/ Tagged(p)
        \/ /\ Kind[p] = "doc" /\ Kind[c] \notin {"text", "doc"}
           /\ Tagged(c) => ~(\E i \in DOMAIN kids[p] : Tagged(kids[p][i]))
    BY <1>3 DEF Accepts, HasXmlRoot
  <2>4. Tree(Changed(kids, p, r))
    BY <1>1, <2>2, <2>3, TreeWith
  <2>5. r \in Forms /\ LongerByOne(kids[p], r) /\ r # kids[p]
    BY <1>1, AppendLonger, AppendProperties DEF Forms
  <2> HIDE DEF r
  <2>6. Answered
    BY <1>1, <1>2, <2>1, <2>5, ChildDone
  <2>7. Tree(kids)'
    BY <2>1, <2>4 DEF Tree, Proper, RootAlone, NoCircle
  <2>8. DocumentIInv'
    BY <1>2, <2>1, <2>7, EditKeeps
  <2> QED
    BY <2>6, <2>8
<1>4. CASE ~Accepts(p, c)
  <2>1. kids' = kids /\ Edit("addChild", FALSE)
    BY <1>4 DEF AddChild, Edit
  <2>2. Tree(kids)'
    BY <1>1, <2>1 DEF Tree, Proper, RootAlone, NoCircle
  <2>3. DocumentIInv'
    BY <1>2, <2>1, <2>2, EditKeeps
  <2> QED
    BY <1>2, <2>1, <2>3, NothingDone
<1> QED
  BY <1>3, <1>4

\* removeChild takes out one child.
LEMMA RemoveChildKeeps ==
  ASSUME Documents, NEW p \in Elements, NEW c \in Elements, RemoveChild(p, c)
  PROVE  DocumentIInv' /\ Answered
<1> DEFINE r == RemoveFirst(kids[p], c)
<1>1. Tree(kids) /\ kids \in Families /\ kids[p] \in Seq(Elements) /\ kids[p] \in Forms
  BY KidsAre DEF Documents, Tree, Forms
<1>2. attribs' = attribs /\ attribs \in [Elements -> Seq(Names)]
  BY DEF RemoveChild, Documents
<1>3. kids' = Changed(kids, p, r)
  BY DEF RemoveChild, Changed
<1>4. CASE c \in Range(kids[p])
  <2>1. Edit("removeChild", TRUE)
    BY <1>4 DEF RemoveChild, Edit
  <2>2. r \in Seq(Elements) /\ r # kids[p] /\ LongerByOne(r, kids[p])
    BY <1>1, <1>4, RemoveShorter
  <2>3. PICK i \in 1..Len(kids[p]) : r = RemoveAt(kids[p], i)
    BY <1>1, <1>4, RemoveFirstIs
  <2>4. Without(kids[p], i, RemoveAt(kids[p], i))
    BY <1>1, RemoveAtIs
  <2>5. Without(kids[p], i, r) /\ r \in Forms
    BY <2>2, <2>3, <2>4 DEF Forms
  <2> HIDE DEF r
  <2>6. Tree(Changed(kids, p, r))
    BY <1>1, <2>5, TreeWithout
  <2>7. Answered
    BY <1>1, <1>2, <1>3, <2>1, <2>2, <2>5, ChildDone
  <2>8. Tree(kids)'
    BY <1>3, <2>6 DEF Tree, Proper, RootAlone, NoCircle
  <2>9. DocumentIInv'
    BY <1>2, <2>1, <2>8, EditKeeps
  <2> QED
    BY <2>7, <2>9
<1>5. CASE c \notin Range(kids[p])
  <2>1. Edit("removeChild", FALSE)
    BY <1>5 DEF RemoveChild, Edit
  <2>2. r = kids[p]
    BY <1>1, <1>5, RemoveFirstIs
  <2>3. kids' = kids
    BY <1>1, <1>3, <2>2 DEF Changed, Families
  <2>4. Tree(kids)'
    BY <1>1, <2>3 DEF Tree, Proper, RootAlone, NoCircle
  <2>5. DocumentIInv'
    BY <1>2, <2>1, <2>4, EditKeeps
  <2> QED
    BY <1>2, <2>1, <2>3, <2>5, NothingDone
<1> QED
  BY <1>4, <1>5

\* addAttrib appends one attribute, to a class that has them.
LEMMA AddAttribKeeps ==
  ASSUME Documents, NEW e \in Elements, NEW name \in Names, AddAttrib(e, name)
  PROVE  DocumentIInv' /\ Answered
<1> DEFINE r == Append(attribs[e], name)
<1>1. Tree(kids) /\ attribs \in [Elements -> Seq(Names)] /\ attribs[e] \in Seq(Names) /\ kids' = kids
  BY DEF Documents, AddAttrib
<1>2. Tree(kids)'
  BY <1>1 DEF Tree, Proper, RootAlone, NoCircle
<1>3. CASE HasAttributes(e)
  <2>1. attribs' = [attribs EXCEPT ![e] = r] /\ Edit("addAttrib", TRUE)
    BY <1>3 DEF AddAttrib, Edit
  <2>2. r \in Seq(Names) /\ LongerByOne(attribs[e], r) /\ r # attribs[e]
    BY <1>1, AppendLonger, AppendProperties
  <2> HIDE DEF r
  <2>3. Answered /\ attribs' \in [Elements -> Seq(Names)]
    BY <1>1, <2>1, <2>2, AttribDone
  <2>4. DocumentIInv'
    BY <1>2, <2>1, <2>3, EditKeeps
  <2> QED
    BY <2>3, <2>4
<1>4. CASE ~HasAttributes(e)
  <2>1. attribs' = attribs /\ Edit("addAttrib", FALSE)
    BY <1>4 DEF AddAttrib, Edit
  <2>2. DocumentIInv'
    BY <1>1, <1>2, <2>1, EditKeeps
  <2> QED
    BY <1>1, <2>1, <2>2, NothingDone
<1> QED
  BY <1>3, <1>4

\* removeAttrib takes out one attribute.
LEMMA RemoveAttribKeeps ==
  ASSUME Documents, NEW e \in Elements, NEW name \in Names, RemoveAttrib(e, name)
  PROVE  DocumentIInv' /\ Answered
<1> DEFINE r == RemoveFirst(attribs[e], name)
<1>1. Tree(kids) /\ attribs \in [Elements -> Seq(Names)] /\ attribs[e] \in Seq(Names) /\ kids' = kids
  BY DEF Documents, RemoveAttrib
<1>2. Tree(kids)'
  BY <1>1 DEF Tree, Proper, RootAlone, NoCircle
<1>3. attribs' = [attribs EXCEPT ![e] = r]
  BY DEF RemoveAttrib
<1>4. CASE name \in Range(attribs[e])
  <2>1. Edit("removeAttrib", TRUE)
    BY <1>4 DEF RemoveAttrib, Edit
  <2>2. r \in Seq(Names) /\ r # attribs[e] /\ LongerByOne(r, attribs[e])
    BY <1>1, <1>4, RemoveShorter
  <2> HIDE DEF r
  <2>3. Answered /\ attribs' \in [Elements -> Seq(Names)]
    BY <1>1, <1>3, <2>1, <2>2, AttribDone
  <2>4. DocumentIInv'
    BY <1>2, <2>1, <2>3, EditKeeps
  <2> QED
    BY <2>3, <2>4
<1>5. CASE name \notin Range(attribs[e])
  <2>1. Edit("removeAttrib", FALSE)
    BY <1>5 DEF RemoveAttrib, Edit
  <2>2. r = attribs[e]
    BY <1>1, <1>5, RemoveFirstIs
  <2> HIDE DEF r
  <2>3. attribs' = attribs
    BY <1>1, <1>3, <2>2
  <2>4. DocumentIInv'
    BY <1>1, <1>2, <2>1, <2>3, EditKeeps
  <2> QED
    BY <1>1, <2>1, <2>3, <2>4, NothingDone
<1> QED
  BY <1>4, <1>5

\* A document for a part shares the part, whether its found_ is new or old.
LEMMA PartKeeps ==
  ASSUME Documents, NEW e \in Elements, MakeTemp(e) \/ MoveAssign(e)
  PROVE  DocumentIInv' /\ edits' = edits
<1>1. Tree(kids) /\ found \in Forms /\ <<>> \in Forms
  BY ShortAre DEF Documents
<1>2. /\ Tagged(e) /\ ~crashed' /\ last'.op = "none"
      /\ docElem' = TempElem /\ attribs' = attribs /\ edits' = edits
      /\ found' = found \/ found' = <<>>
      /\ kids' = Changed(kids, TempElem, <<e>>)
  <2>1. kids' = Changed(kids, TempElem, <<e>>)
    BY Zenon DEF MakeTemp, MoveAssign, Changed
  <2>2. last' = NoCall
    BY Zenon DEF MakeTemp, MoveAssign
  <2>3. last'.op = "none"
    BY <2>2 DEF NoCall
  <2>4. /\ Tagged(e) /\ ~crashed
        /\ docElem' = TempElem /\ attribs' = attribs /\ edits' = edits /\ crashed' = crashed
        /\ found' = found \/ found' = <<>>
    BY Zenon DEF MakeTemp, MoveAssign
  <2> QED
    BY <2>1, <2>3, <2>4
<1>3. Tree(Changed(kids, TempElem, <<e>>))
  BY <1>1, <1>2, TreeShared
<1>4. Tree(kids)'
  BY <1>2, <1>3 DEF Tree, Proper, RootAlone, NoCircle
<1>5. found' \in Forms /\ attribs' \in [Elements -> Seq(Names)] /\ edits' \in Nat
  BY <1>1, <1>2 DEF Documents
<1>6. Documents'
  BY <1>2, <1>4, <1>5 DEF Documents
<1> QED
  BY <1>2, <1>6 DEF DocumentIInv, QueriesAnswer, QueriesMatch, DescendentsMatch, SizeUnlessUnselected

\* A query is no edit.
LEMMA QueriesEditNothing ==
  ASSUME NEW tag, Element(tag) \/ ElementsOf(tag) \/ Descendents(tag) \/ Select \/ Size
  PROVE  edits' = edits
BY DEF Element, ElementsOf, Descendents, Select, Size, Call

\* Each step keeps the invariant, and each edit answers what it did.
LEMMA DocumentStep ==
  ASSUME DocumentIInv, [DocumentNext]_documentVars
  PROVE  DocumentIInv' /\ (edits' # edits => Answered)
<1>0. Documents
  BY DEF DocumentIInv
<1>1. ASSUME NEW p \in Elements, NEW c \in Elements, AddChild(p, c)
      PROVE  DocumentIInv' /\ (edits' # edits => Answered)
  BY <1>0, <1>1, AddChildKeeps
<1>2. ASSUME NEW p \in Elements, NEW c \in Elements, RemoveChild(p, c)
      PROVE  DocumentIInv' /\ (edits' # edits => Answered)
  BY <1>0, <1>2, RemoveChildKeeps
<1>3. ASSUME NEW e \in Elements, NEW name \in Names, AddAttrib(e, name)
      PROVE  DocumentIInv' /\ (edits' # edits => Answered)
  BY <1>0, <1>3, AddAttribKeeps
<1>4. ASSUME NEW e \in Elements, NEW name \in Names, RemoveAttrib(e, name)
      PROVE  DocumentIInv' /\ (edits' # edits => Answered)
  BY <1>0, <1>4, RemoveAttribKeeps
<1>5. ASSUME NEW e \in Elements, MakeTemp(e) \/ MoveAssign(e)
      PROVE  DocumentIInv' /\ (edits' # edits => Answered)
  BY <1>0, <1>5, PartKeeps
<1>6. ASSUME NEW tag, Element(tag) \/ ElementsOf(tag) \/ Descendents(tag)
      PROVE  DocumentIInv' /\ (edits' # edits => Answered)
  BY <1>0, <1>6, ElementKeeps, ElementsOfKeeps, DescendentsKeeps, QueriesEditNothing
<1>7. CASE Select \/ Size
  BY <1>0, <1>7, SelectKeeps, SizeKeeps, QueriesEditNothing
<1>8. CASE UNCHANGED documentVars
  <2>1. UNCHANGED <<kids, attribs, docElem, found, last, edits, crashed>>
    BY <1>8 DEF documentVars
  <2>2. Tree(kids)'
    BY <1>0, <2>1 DEF Documents, Tree, Proper, RootAlone, NoCircle
  <2>3. XmlRoot(kids, docElem)' = XmlRoot(kids, docElem)
    BY <2>1
  <2>4. Documents'
    BY <1>0, <2>1, <2>2, <2>3 DEF Documents
  <2> QED
    BY <2>1, <2>4 DEF DocumentIInv, QueriesAnswer, QueriesMatch, DescendentsMatch, SizeUnlessUnselected
<1> QED
  BY <1>1, <1>2, <1>3, <1>4, <1>5, <1>6, <1>7, <1>8 DEF DocumentNext

\* Documents begin well.
LEMMA DocumentBegins ==
  DocumentInit => DocumentIInv
<1> SUFFICES ASSUME DocumentInit PROVE DocumentIInv
  OBVIOUS
<1>1. Tree(kids)
  BY TreesAssumption, ForestsAreTrees DEF DocumentInit
<1>2. Documents
  BY <1>1, ElementsAssumption, ShortAre DEF DocumentInit, Documents
<1>3. last.op = "none"
  BY DEF DocumentInit, NoCall
<1> QED
  BY <1>2, <1>3 DEF DocumentIInv, QueriesAnswer, QueriesMatch, DescendentsMatch, SizeUnlessUnselected

\* The invariant of documents holds always: children are a tree that only a document
\* made for a part shares, and the last call answered what was asked.
THEOREM DocumentInvariance == DocumentSpec => []DocumentIInv
<1>1. DocumentIInv /\ [DocumentNext]_documentVars => DocumentIInv'
  BY DocumentStep
<1> QED
  BY <1>1, DocumentBegins, PTL DEF DocumentSpec

\* addChild and makeDocElement never give a document a second root, a text or another
\* document, and a null pointer is only met where a document has no root.
THEOREM DocumentsHaveOneRoot == DocumentSpec => []OneRoot
<1>1. DocumentIInv => OneRoot
  BY DEF DocumentIInv, Documents, OneRoot, Tree, Proper
<1> QED
  BY <1>1, DocumentInvariance, PTL

\* element, elements and descendents find what a reader of the document would list,
\* in document order, whatever found_ held and whichever document was asked before.
THEOREM QueriesAlwaysAnswer == DocumentSpec => []QueriesAnswer
<1>1. DocumentIInv => QueriesAnswer
  BY DEF DocumentIInv
<1> QED
  BY <1>1, DocumentInvariance, PTL

\* size counts the elements of a document exactly if nothing was left in found_.
THEOREM SizeCountsUnselected == DocumentSpec => []SizeUnlessUnselected
<1>1. DocumentIInv => SizeUnlessUnselected
  BY DEF DocumentIInv
<1> QED
  BY <1>1, DocumentInvariance, PTL

\* addChild, removeChild, addAttrib and removeAttrib return true exactly if they
\* changed one element by one child or attribute.
THEOREM EditsAlwaysAnswer == DocumentSpec => EditsAnswer
<1>1. DocumentIInv /\ [DocumentNext]_documentVars => [edits' # edits => Answered]_documentVars
  BY DocumentStep
<1>2. DocumentSpec => [][edits' # edits => Answered]_documentVars
  BY <1>1, DocumentInvariance, PTL DEF DocumentSpec
<1> QED
  BY <1>2 DEF EditsAnswer, Answered

------------------------------------------------------------------------------
(* Parsing.  Loops first.                                                    *)

\* f is the loop that steps with g inside P and ends with h outside.
Loop(f, D, P, g, h) == f = [x \in D |-> IF x \in P THEN f[g[x]] ELSE h[x]]

\* A loop with a step g inside P and an end h outside is a function, whether it
\* ends or not: two places on one way have the same ends.
LEMMA Loops ==
  ASSUME NEW D, NEW P \in SUBSET D, NEW g, \A x \in P : g[x] \in D, NEW h
  PROVE  \E f : Loop(f, D, P, g, h)
<1> DEFINE Holds(S, x) == x \in S /\ \A z \in S \cap P : g[z] \in S
           Way(x) == {y \in D : \A S \in SUBSET D : Holds(S, x) => y \in S}
           End(x) == Way(x) \ P
           f == [x \in D |-> h[CHOOSE y \in End(x) : TRUE]]
<1>1. ASSUME NEW x \in D, x \notin P PROVE End(x) = {x}
  <2>1. {x} \in SUBSET D /\ Holds({x}, x)
    BY <1>1
  <2>2. Way(x) \subseteq {x}
    BY <2>1
  <2>3. x \in Way(x)
    BY <1>1
  <2> QED
    BY <1>1, <2>2, <2>3
<1>2. ASSUME NEW x \in P PROVE End(x) = End(g[x])
  <2>1. x \in D /\ g[x] \in D
    OBVIOUS
  <2>2. Way(g[x]) \subseteq Way(x)
    <3>1. ASSUME NEW S \in SUBSET D, Holds(S, x) PROVE Holds(S, g[x])
      BY <3>1
    <3> HIDE DEF Holds
    <3> QED
      BY <3>1
  <2>3. Way(x) \subseteq {x} \cup Way(g[x])
    <3> DEFINE W == {x} \cup Way(g[x])
    <3>1. W \in SUBSET D
      BY <2>1
    <3>2. g[x] \in Way(g[x])
      BY <2>1
    <3>3. ASSUME NEW z \in Way(g[x]) \cap P PROVE g[z] \in Way(g[x])
      <4>1. g[z] \in D
        OBVIOUS
      <4>2. ASSUME NEW S \in SUBSET D, Holds(S, g[x]) PROVE g[z] \in S
        <5>1. z \in S
          BY <4>2
        <5> QED
          BY <4>2, <5>1
      <4> HIDE DEF Holds
      <4> QED
        BY <4>1, <4>2
    <3>4. Holds(W, x)
      <4> HIDE DEF Way
      <4> QED
        BY <3>2, <3>3
    <3> HIDE DEF Holds, W
    <3>5. Way(x) \subseteq W
      BY <3>1, <3>4
    <3> QED
      BY <3>5 DEF W
  <2> HIDE DEF Way
  <2> QED
    BY <2>2, <2>3
<1>3. ASSUME NEW x \in D PROVE f[x] = IF x \in P THEN f[g[x]] ELSE h[x]
  <2> HIDE DEF Way, End
  <2>1. CASE x \in P
    <3>1. g[x] \in D /\ End(x) = End(g[x])
      BY <1>2, <2>1
    <3> QED
      BY <2>1, <3>1
  <2>2. CASE x \notin P
    <3>1. End(x) = {x}
      BY <1>1, <2>2
    <3>2. f[x] = h[CHOOSE y \in End(x) : TRUE]
      OBVIOUS
    <3>3. (CHOOSE y \in {x} : TRUE) = x
      OBVIOUS
    <3>4. f[x] = h[x]
      BY <3>1, <3>2, <3>3
    <3> HIDE DEF f
    <3> QED
      BY <2>2, <3>4
  <2> QED
    BY <2>1, <2>2
<1>4. f = [x \in D |-> f[x]]
  OBVIOUS
<1>5. [x \in D |-> f[x]] = [x \in D |-> IF x \in P THEN f[g[x]] ELSE h[x]]
  <2> HIDE DEF f
  <2> QED
    BY <1>3
<1> HIDE DEF f
<1>6. Loop(f, D, P, g, h)
  BY <1>4, <1>5 DEF Loop
<1> QED
  BY <1>6

\* All are in Q if one is as soon as all smaller ones are.
ByLess(D, size, Q) ==
  /\ \A x \in D : size[x] \in Nat
  /\ \A x \in D : (\A y \in D : size[y] < size[x] => y \in Q) => x \in Q

\* Induction over what a loop has left.
LEMMA AllByLess ==
  ASSUME NEW D, NEW size, NEW Q \in SUBSET D, ByLess(D, size, Q)
  PROVE  Q = D
<1>0. /\ \A x \in D : size[x] \in Nat
      /\ \A x \in D : (\A y \in D : size[y] < size[x] => y \in Q) => x \in Q
  BY DEF ByLess
<1> DEFINE S == {n \in Nat : \A x \in D : size[x] < n => x \in Q}
<1>1. S \in SUBSET Nat
  OBVIOUS
<1>2. 0 \in S
  BY <1>0
<1>3. ASSUME NEW n \in S PROVE n + 1 \in S
  <2>1. SUFFICES ASSUME NEW x \in D, size[x] < n + 1 PROVE x \in Q
    OBVIOUS
  <2>2. ASSUME NEW y \in D, size[y] < size[x] PROVE y \in Q
    <3>1. size[y] \in Nat /\ size[x] \in Nat /\ n \in Nat
      BY <1>0
    <3>2. size[y] < n
      BY <2>1, <2>2, <3>1
    <3> QED
      BY <3>2
  <2> QED
    BY <1>0, <2>2
<1> HIDE DEF S
<1>4. S = Nat
  BY <1>1, <1>2, <1>3, AllNumbers
<1>5. ASSUME NEW x \in D PROVE x \in Q
  <2>1. size[x] + 1 \in S /\ size[x] \in Nat
    BY <1>0, <1>4
  <2> QED
    BY <2>1 DEF S
<1> QED
  BY <1>5

------------------------------------------------------------------------------
(* The tokenizer.                                                            *)

\* A text without its first or its last symbol.
LEMMA EndsOf ==
  ASSUME NEW S, NEW s \in Seq(S), s # <<>>
  PROVE  /\ Len(s) \in Nat /\ Len(s) > 0 /\ s[1] \in S
         /\ Head(s) = s[1] /\ Tail(s) \in Seq(S) /\ Len(Tail(s)) = Len(s) - 1
         /\ Last(s) = s[Len(s)] /\ s[Len(s)] \in S
         /\ Front(s) \in Seq(S) /\ Len(Front(s)) = Len(s) - 1
<1>1. Len(s) \in Nat /\ Len(s) > 0
  BY EmptySeq
<1>2. s[1] \in S /\ s[Len(s)] \in S
  BY <1>1, ElementOfSeq
<1>3. Head(s) = s[1] /\ Tail(s) \in Seq(S) /\ Len(Tail(s)) = Len(s) - 1
  BY HeadTailProperties
<1>4. Front(s) \in Seq(S) /\ Len(Front(s)) = Len(s) - 1
  <2> DEFINE n == Len(s) - 1
  <2>1. n \in Nat
    <3>1. \A m \in Nat : m > 0 => m - 1 \in Nat
      OBVIOUS
    <3> QED
      BY <1>1, <3>1
  <2>2. \A i \in 1..n : s[i] \in S
    BY <1>1, ElementOfSeq
  <2> HIDE DEF n
  <2>3. SubSeq(s, 1, n) \in Seq(S) /\ Len(SubSeq(s, 1, n)) = IF 1 <= n THEN n - 1 + 1 ELSE 0
    BY <2>1, <2>2, SubSeqProperties
  <2>4. SubSeq(s, 1, n) \in Seq(S) /\ Len(SubSeq(s, 1, n)) = n
    <3>1. (IF 1 <= n THEN n - 1 + 1 ELSE 0) = n
      BY <2>1
    <3> QED
      BY <2>3, <3>1
  <2> QED
    BY <2>4 DEF n, Front
<1> QED
  BY <1>1, <1>2, <1>3, <1>4 DEF Last

\* What is left of a loop over the characters.
Unread(t) == 2 * (Len(t.in) + Len(t.putbacks)) + (IF t.next = Eof THEN 0 ELSE 1)

\* What getChar asserts holds, and one character is put back at most.
Orderly(t) == t.asserted /\ Len(t.putbacks) <= 1 /\ t.next \in {Peek(t), Nul}
Clear(t) == Orderly(t) /\ t.putbacks = <<>>

\* The marks are symbols.
LEMMA MarksAre ==
  /\ Eof \in Symbols /\ Nul \in Symbols
  /\ \A c \in Blanks \cup SingleCharToks \cup Marks : c \in Symbols
BY DEF Symbols, Marks

\* What a tokenizer has.
LEMMA TokerHas ==
  ASSUME NEW t \in Tokers
  PROVE  /\ t.in \in Texts /\ t.putbacks \in Texts /\ t.prevprev \in Symbols /\ t.prev \in Symbols
         /\ t.curr \in Symbols /\ t.next \in Symbols /\ t.asserted \in BOOLEAN
         /\ t.error \in {"", MissingEnd}
         /\ Len(t.in) \in Nat /\ Len(t.putbacks) \in Nat /\ Unread(t) \in Nat
<1>1. /\ t.in \in Texts /\ t.putbacks \in Texts /\ t.prevprev \in Symbols /\ t.prev \in Symbols
      /\ t.curr \in Symbols /\ t.next \in Symbols /\ t.asserted \in BOOLEAN
      /\ t.error \in {"", MissingEnd}
  BY DEF Tokers
<1>2. Len(t.in) \in Nat /\ Len(t.putbacks) \in Nat
  BY <1>1, LenProperties DEF Texts
<1>3. Unread(t) \in Nat
  <2> DEFINE n == Len(t.in)
             m == Len(t.putbacks)
             f == IF t.next = Eof THEN 0 ELSE 1
  <2>1. n \in Nat /\ m \in Nat /\ f \in Nat
    BY <1>2
  <2>2. Unread(t) = 2 * (n + m) + f
    BY DEF Unread
  <2> HIDE DEF n, m, f
  <2> QED
    BY <2>1, <2>2
<1> QED
  BY <1>1, <1>2, <1>3

\* The next character is a symbol.
LEMMA PeekIs ==
  ASSUME NEW t \in Tokers
  PROVE  /\ Peek(t) \in Symbols
         /\ t.in = <<>> /\ t.putbacks = <<>> => Peek(t) = Eof
         /\ t.putbacks # <<>> /\ Len(t.putbacks) <= 1 => Peek(t) = Head(t.putbacks)
<1>1. t.in \in Seq(Symbols) /\ t.putbacks \in Seq(Symbols)
  BY TokerHas DEF Texts
<1>2. CASE t.putbacks # <<>>
  <2> DEFINE s == t.putbacks
  <2>1. s \in Seq(Symbols) /\ s # <<>>
    BY <1>1, <1>2
  <2>2. Len(s) \in Nat /\ Len(s) > 0 /\ Head(s) = s[1] /\ Last(s) = s[Len(s)] /\ s[Len(s)] \in Symbols
    BY <2>1, EndsOf
  <2>3. Peek(t) = Last(s)
    BY <1>2 DEF Peek
  <2> HIDE DEF s
  <2>4. Len(s) <= 1 => Len(s) = 1
    <3>1. \A n \in Nat : n > 0 /\ n <= 1 => n = 1
      OBVIOUS
    <3> QED
      BY <2>2, <3>1
  <2>5. Peek(t) \in Symbols /\ (Len(s) <= 1 => Peek(t) = Head(s))
    BY <2>2, <2>3, <2>4
  <2> QED
    BY <1>2, <2>5 DEF s
<1>3. CASE t.putbacks = <<>>
  <2>1. t.in # <<>> => Head(t.in) \in Symbols
    <3>1. SUFFICES ASSUME t.in # <<>> PROVE Head(t.in) \in Symbols
      OBVIOUS
    <3> DEFINE s == t.in
    <3>2. s \in Seq(Symbols) /\ s # <<>>
      BY <1>1, <3>1
    <3>3. Head(s) = s[1] /\ s[1] \in Symbols
      BY <3>2, EndsOf
    <3> QED
      BY <3>3
  <2> QED
    BY <1>3, <2>1, MarksAre DEF Peek
<1> QED
  BY <1>2, <1>3

\* get takes a character, if there is one.
LEMMA GetFromIs ==
  ASSUME NEW t \in Tokers
  PROVE  LET u == GetFrom(t)
         IN /\ u \in Tokers
            /\ u.prevprev = t.prevprev /\ u.prev = t.prev /\ u.next = t.next
            /\ u.asserted = t.asserted /\ u.error = t.error
            /\ Len(t.putbacks) <= 1 => u.putbacks = <<>> /\ u.curr = Peek(t)
            /\ IF t.in = <<>> /\ t.putbacks = <<>>
               THEN u.in = <<>> /\ u.putbacks = <<>>
               ELSE Len(u.in) + Len(u.putbacks) = Len(t.in) + Len(t.putbacks) - 1
<1> DEFINE u == GetFrom(t)
<1>1. /\ t.in \in Seq(Symbols) /\ t.putbacks \in Seq(Symbols) /\ t.prevprev \in Symbols /\ t.prev \in Symbols
      /\ t.curr \in Symbols /\ t.next \in Symbols /\ t.asserted \in BOOLEAN
      /\ t.error \in {"", MissingEnd} /\ Len(t.in) \in Nat /\ Len(t.putbacks) \in Nat
  BY TokerHas DEF Texts
<1>2. t = [in |-> t.in, putbacks |-> t.putbacks, prevprev |-> t.prevprev, prev |-> t.prev, curr |-> t.curr,
           next |-> t.next, asserted |-> t.asserted, error |-> t.error]
  BY DEF Tokers
<1>3. CASE t.putbacks # <<>>
  <2> DEFINE p == t.putbacks
             h == Head(p)
             r == Front(p)
  <2>1. p \in Seq(Symbols) /\ p # <<>>
    BY <1>1, <1>3
  <2>2. h = p[1] /\ p[1] \in Symbols /\ r \in Seq(Symbols) /\ Len(r) = Len(p) - 1
    BY <2>1, EndsOf
  <2>3. u = [t EXCEPT !.curr = h, !.putbacks = r]
    BY <1>3 DEF GetFrom
  <2>4. Len(p) <= 1 => Peek(t) = h
    BY <1>3, PeekIs
  <2> HIDE DEF h, r, u
  <2>5. u = [in |-> t.in, putbacks |-> r, prevprev |-> t.prevprev, prev |-> t.prev, curr |-> h,
             next |-> t.next, asserted |-> t.asserted, error |-> t.error]
    BY <1>2, <2>3
  <2>6. h \in Symbols /\ r \in Texts
    BY <2>2 DEF Texts
  <2>7. u \in Tokers
    BY <1>1, <2>5, <2>6 DEF Tokers, Texts
  <2>8. Len(p) <= 1 => r = <<>>
    <3>1. Len(p) \in Nat /\ Len(r) \in Nat
      BY <1>1, <2>2, LenProperties
    <3>2. \A a, b \in Nat : a = b - 1 /\ b <= 1 => a = 0
      OBVIOUS
    <3>3. Len(p) <= 1 => Len(r) = 0
      BY <2>2, <3>1, <3>2
    <3> QED
      BY <2>2, <3>3, EmptySeq
  <2>9. Len(u.in) + Len(u.putbacks) = Len(t.in) + Len(t.putbacks) - 1
    <3>1. \A a, b \in Nat : a + (b - 1) = a + b - 1
      OBVIOUS
    <3>2. u.in = t.in /\ u.putbacks = r
      BY <2>5
    <3> QED
      BY <1>1, <2>2, <3>1, <3>2
  <2> HIDE DEF p
  <2>10. Len(t.putbacks) <= 1 => u.putbacks = <<>> /\ u.curr = Peek(t)
    BY <2>4, <2>5, <2>8 DEF p
  <2>11. /\ u.prevprev = t.prevprev /\ u.prev = t.prev /\ u.next = t.next
         /\ u.asserted = t.asserted /\ u.error = t.error
    BY <2>5
  <2> QED
    BY <1>3, <2>7, <2>9, <2>10, <2>11, Zenon DEF u
<1>4. CASE t.putbacks = <<>>
  <2> DEFINE c == Peek(t)
             r == IF t.in = <<>> THEN <<>> ELSE Tail(t.in)
  <2>1. c \in Symbols
    BY PeekIs
  <2>2. u = [t EXCEPT !.curr = c, !.in = r]
    BY <1>4 DEF GetFrom
  <2>3. t.in # <<>> => Tail(t.in) \in Seq(Symbols) /\ Len(Tail(t.in)) = Len(t.in) - 1
    BY <1>1, EndsOf
  <2>4. r \in Seq(Symbols) /\ (t.in # <<>> => Len(r) = Len(t.in) - 1) /\ (t.in = <<>> => r = <<>>)
    BY <2>3
  <2> HIDE DEF c, r, u
  <2>5. u = [in |-> r, putbacks |-> t.putbacks, prevprev |-> t.prevprev, prev |-> t.prev, curr |-> c,
             next |-> t.next, asserted |-> t.asserted, error |-> t.error]
    BY <1>2, <2>2
  <2>6. u \in Tokers
    BY <1>1, <2>1, <2>4, <2>5 DEF Tokers, Texts
  <2>7. u.in = r /\ u.putbacks = <<>> /\ u.curr = c
    BY <1>4, <2>5
  <2>8. t.in # <<>> => Len(u.in) + Len(u.putbacks) = Len(t.in) + Len(t.putbacks) - 1
    <3>1. \A a \in Nat : (a - 1) + 0 = a + 0 - 1
      OBVIOUS
    <3>2. Len(t.putbacks) = 0 /\ Len(u.putbacks) = 0
      BY <1>4, <2>7
    <3> QED
      BY <1>1, <2>4, <2>7, <3>1, <3>2
  <2> QED
    BY <1>4, <2>4, <2>5, <2>6, <2>7, <2>8 DEF u, c
<1> QED
  BY <1>3, <1>4

\* getChar takes one, and leaves nothing put back.
LEMMA GetCharIs ==
  ASSUME NEW t \in Tokers
  PROVE  /\ GetChar(t) \in Tokers /\ GetChar(t).error = t.error
         /\ Unread(GetChar(t)) <= Unread(t)
         /\ t.next # Eof => Unread(GetChar(t)) < Unread(t)
         /\ Orderly(t) => Clear(GetChar(t))
         /\ IF t.in = <<>> /\ t.putbacks = <<>> THEN GetChar(t).curr = Eof
            ELSE Len(GetChar(t).in) + Len(GetChar(t).putbacks) = Len(t.in) + Len(t.putbacks) - 1
<1> DEFINE u == GetFrom(t)
           v == GetChar(t)
           a == t.asserted /\ t.next \in {u.curr, Nul}
<1>1. /\ u \in Tokers
      /\ u.prevprev = t.prevprev /\ u.prev = t.prev /\ u.next = t.next
      /\ u.asserted = t.asserted /\ u.error = t.error
      /\ Len(t.putbacks) <= 1 => u.putbacks = <<>> /\ u.curr = Peek(t)
      /\ IF t.in = <<>> /\ t.putbacks = <<>>
         THEN u.in = <<>> /\ u.putbacks = <<>>
         ELSE Len(u.in) + Len(u.putbacks) = Len(t.in) + Len(t.putbacks) - 1
  BY GetFromIs
<1>2. v = [u EXCEPT !.prevprev = t.prev, !.prev = t.curr, !.next = Peek(u), !.asserted = a]
  BY <1>1 DEF GetChar
<1> HIDE DEF u, v
<1>3. /\ u.in \in Texts /\ u.putbacks \in Texts /\ u.curr \in Symbols /\ u.error \in {"", MissingEnd}
      /\ Len(u.in) \in Nat /\ Len(u.putbacks) \in Nat
  BY <1>1, TokerHas
<1>4. t.prev \in Symbols /\ t.curr \in Symbols /\ Len(t.in) \in Nat /\ Len(t.putbacks) \in Nat
      /\ t.asserted \in BOOLEAN /\ t.in \in Texts /\ t.putbacks \in Texts
  BY TokerHas
<1>5. Peek(u) \in Symbols /\ (u.in = <<>> /\ u.putbacks = <<>> => Peek(u) = Eof)
  BY <1>1, PeekIs
<1>6. a \in BOOLEAN
  BY <1>4
<1> HIDE DEF a
<1>7. v = [in |-> u.in, putbacks |-> u.putbacks, prevprev |-> t.prev, prev |-> t.curr, curr |-> u.curr,
           next |-> Peek(u), asserted |-> a, error |-> u.error]
  BY <1>1, <1>2 DEF Tokers
<1>8. v \in Tokers
  BY <1>3, <1>4, <1>5, <1>6, <1>7 DEF Tokers
<1>9. v.in = u.in /\ v.putbacks = u.putbacks /\ v.curr = u.curr /\ v.next = Peek(u) /\ v.asserted = a /\ v.error = t.error
  BY <1>1, <1>7
<1>10. Unread(v) <= Unread(t) /\ (t.next # Eof => Unread(v) < Unread(t))
  <2> DEFINE m == Len(u.in) + Len(u.putbacks)
             n == Len(t.in) + Len(t.putbacks)
             f == IF Peek(u) = Eof THEN 0 ELSE 1
             g == IF t.next = Eof THEN 0 ELSE 1
  <2>1. Unread(v) = 2 * m + f /\ Unread(t) = 2 * n + g
    BY <1>9 DEF Unread
  <2>2. m \in Nat /\ n \in Nat /\ f \in {0, 1} /\ g \in {0, 1} /\ (t.next # Eof => g = 1)
    <3>1. \A b, c \in Nat : b + c \in Nat
      OBVIOUS
    <3>2. m \in Nat /\ n \in Nat
      BY <1>3, <1>4, <3>1
    <3> QED
      BY <3>2
  <2>3. m = n - 1 \/ (m = 0 /\ n = 0 /\ f = 0)
    <3>1. CASE t.in = <<>> /\ t.putbacks = <<>>
      <4>1. u.in = <<>> /\ u.putbacks = <<>>
        BY <1>1, <3>1
      <4>2. f = 0
        BY <1>5, <4>1
      <4>3. Len(t.in) = 0 /\ Len(t.putbacks) = 0 /\ Len(u.in) = 0 /\ Len(u.putbacks) = 0
        BY <3>1, <4>1
      <4> QED
        BY <4>2, <4>3
    <3>2. CASE ~(t.in = <<>> /\ t.putbacks = <<>>)
      <4>1. Len(u.in) + Len(u.putbacks) = Len(t.in) + Len(t.putbacks) - 1
        BY <1>1, <3>2
      <4> DEFINE b == Len(u.in)
                 c == Len(u.putbacks)
                 d == Len(t.in)
                 e == Len(t.putbacks)
      <4>2. b \in Nat /\ c \in Nat /\ d \in Nat /\ e \in Nat
        BY <1>3, <1>4
      <4>3. b + c = d + e - 1 /\ m = b + c /\ n = d + e
        BY <4>1
      <4> HIDE DEF b, c, d, e, m, n
      <4>4. m = n - 1
        BY <4>2, <4>3
      <4> QED
        BY <4>4
    <3> QED
      BY <3>1, <3>2
  <2> HIDE DEF m, n, f, g
  <2>4. 2 * m + f <= 2 * n + g /\ (g = 1 => 2 * m + f < 2 * n + g)
    BY <2>2, <2>3
  <2> QED
    BY <2>1, <2>2, <2>4
<1>11. Orderly(t) => Clear(v)
  <2> SUFFICES ASSUME Orderly(t) PROVE Clear(v)
    OBVIOUS
  <2>1. t.asserted /\ Len(t.putbacks) <= 1 /\ t.next \in {Peek(t), Nul}
    BY DEF Orderly
  <2>2. v.putbacks = <<>> /\ u.curr = Peek(t)
    BY <1>1, <1>9, <2>1
  <2>3. a
    BY <2>1, <2>2 DEF a
  <2>4. Peek(v) = Peek(u)
    BY <1>9 DEF Peek
  <2>5. Len(v.putbacks) <= 1
    <3>1. Len(v.putbacks) = 0
      BY <2>2
    <3> QED
      BY <3>1
  <2> QED
    BY <1>9, <2>2, <2>3, <2>4, <2>5 DEF Clear, Orderly
<1>12. IF t.in = <<>> /\ t.putbacks = <<>> THEN v.curr = Eof
       ELSE Len(v.in) + Len(v.putbacks) = Len(t.in) + Len(t.putbacks) - 1
  <2>1. CASE t.in = <<>> /\ t.putbacks = <<>>
    <3>1. Len(t.putbacks) <= 1 /\ Peek(t) = Eof
      <4>1. Len(t.putbacks) = 0
        BY <2>1
      <4> QED
        BY <2>1, <4>1, PeekIs
    <3>2. v.curr = Peek(t)
      BY <1>1, <1>9, <3>1
    <3> QED
      BY <2>1, <3>1, <3>2
  <2>2. CASE ~(t.in = <<>> /\ t.putbacks = <<>>)
    BY <1>1, <1>9, <2>2
  <2> QED
    BY <2>1, <2>2
<1> QED
  BY <1>8, <1>9, <1>10, <1>11, <1>12, Zenon DEF v

\* A character put back where nothing is.
LEMMA PutbackIs ==
  ASSUME NEW t \in Tokers, NEW c \in Symbols
  PROVE  /\ Putback(t, c) \in Tokers /\ Putback(t, c).error = t.error
         /\ Clear(t) => Orderly(Putback(t, c))
         /\ Unread(Putback(t, c)) <= 2 * (Len(t.in) + Len(t.putbacks)) + 3
<1> DEFINE v == Putback(t, c)
           p == Append(t.putbacks, c)
<1>1. /\ t.in \in Texts /\ t.putbacks \in Seq(Symbols) /\ t.prevprev \in Symbols /\ t.prev \in Symbols
      /\ t.curr \in Symbols /\ t.next \in Symbols /\ t.asserted \in BOOLEAN
      /\ t.error \in {"", MissingEnd} /\ Len(t.in) \in Nat /\ Len(t.putbacks) \in Nat
  BY TokerHas DEF Texts
<1>2. p \in Seq(Symbols) /\ Len(p) = Len(t.putbacks) + 1 /\ p[Len(t.putbacks) + 1] = c
  <2> DEFINE s == t.putbacks
  <2>1. s \in Seq(Symbols)
    BY <1>1
  <2> HIDE DEF s
  <2>2. Append(s, c) \in Seq(Symbols) /\ Len(Append(s, c)) = Len(s) + 1 /\ Append(s, c)[Len(s) + 1] = c
    BY <2>1, AppendProperties
  <2> QED
    BY <2>2 DEF s
<1>3. v = [t EXCEPT !.putbacks = p, !.next = c, !.curr = t.prev, !.prev = t.prevprev]
  BY DEF Putback
<1> HIDE DEF p, v
<1>4. v = [in |-> t.in, putbacks |-> p, prevprev |-> t.prevprev, prev |-> t.prevprev, curr |-> t.prev,
           next |-> c, asserted |-> t.asserted, error |-> t.error]
  BY <1>3 DEF Tokers
<1>5. v \in Tokers
  BY <1>1, <1>2, <1>4 DEF Tokers, Texts
<1>6. v.in = t.in /\ v.putbacks = p /\ v.next = c /\ v.asserted = t.asserted /\ v.error = t.error
  BY <1>4
<1>7. p # <<>>
  <2>1. \A n \in Nat : n + 1 # 0
    OBVIOUS
  <2>2. Len(p) # 0
    BY <1>1, <1>2, <2>1
  <2> QED
    BY <2>2
<1>8. Clear(t) => Orderly(v)
  <2> SUFFICES ASSUME Clear(t) PROVE Orderly(v)
    OBVIOUS
  <2>1. t.asserted /\ t.putbacks = <<>>
    BY DEF Clear, Orderly
  <2>2. Len(p) = 1 /\ p[1] = c
    <3>1. Len(t.putbacks) = 0
      BY <2>1
    <3> QED
      BY <1>2, <3>1
  <2>3. Peek(v) = c
    BY <1>6, <1>7, <2>2 DEF Peek, Last
  <2>4. Len(p) <= 1
    BY <2>2
  <2> QED
    BY <1>6, <2>1, <2>3, <2>4 DEF Orderly
<1>9. Unread(v) <= 2 * (Len(t.in) + Len(t.putbacks)) + 3
  <2> DEFINE n == Len(t.in)
             m == Len(t.putbacks)
             f == IF c = Eof THEN 0 ELSE 1
  <2>1. Unread(v) = 2 * (n + (m + 1)) + f
    BY <1>2, <1>6 DEF Unread
  <2>2. n \in Nat /\ m \in Nat /\ f \in {0, 1}
    BY <1>1
  <2> HIDE DEF n, m, f
  <2>3. 2 * (n + (m + 1)) + f <= 2 * (n + m) + 3
    BY <2>2
  <2> QED
    BY <2>1, <2>3 DEF n, m
<1> QED
  BY <1>5, <1>6, <1>8, <1>9 DEF v

------------------------------------------------------------------------------
(* The loops of the tokenizer.                                               *)

\* What a loop leaves of a tokenizer: nothing more to read than there was.
Reads(t, u) ==
  /\ u \in Tokers /\ u.error = t.error
  /\ Unread(u) <= Unread(t)
  /\ Orderly(t) => Orderly(u)
  /\ Clear(t) => Clear(u)

\* One loop, then another.
LEMMA ReadsTwice ==
  ASSUME NEW t \in Tokers, NEW u, NEW v, Reads(t, u), Reads(u, v)
  PROVE  Reads(t, v) /\ (Unread(u) < Unread(t) => Unread(v) < Unread(t))
<1>1. u \in Tokers /\ v \in Tokers
  BY DEF Reads
<1>2. Unread(t) \in Nat /\ Unread(u) \in Nat /\ Unread(v) \in Nat
  BY <1>1, TokerHas
<1>3. Unread(u) <= Unread(t) /\ Unread(v) <= Unread(u)
  BY DEF Reads
<1>4. \A k, m, n \in Nat : m <= n /\ k <= m => k <= n /\ (m < n => k < n)
  OBVIOUS
<1>5. Unread(v) <= Unread(t) /\ (Unread(u) < Unread(t) => Unread(v) < Unread(t))
  BY <1>2, <1>3, <1>4
<1> QED
  BY <1>1, <1>5 DEF Reads

\* Reading nothing.
LEMMA ReadsNone ==
  ASSUME NEW t \in Tokers
  PROVE  Reads(t, t)
<1>1. Unread(t) \in Nat
  BY TokerHas
<1>2. Unread(t) <= Unread(t)
  BY <1>1
<1> QED
  BY <1>2 DEF Reads

\* Reading one character.
LEMMA ReadsOne ==
  ASSUME NEW t \in Tokers
  PROVE  /\ Reads(t, GetChar(t)) /\ GetChar(t) \in Tokers /\ GetChar(t).curr \in Symbols
         /\ t.next # Eof => Unread(GetChar(t)) < Unread(t)
         /\ Orderly(t) => Clear(GetChar(t))
<1>1. /\ GetChar(t) \in Tokers /\ GetChar(t).error = t.error
      /\ Unread(GetChar(t)) <= Unread(t)
      /\ t.next # Eof => Unread(GetChar(t)) < Unread(t)
      /\ Orderly(t) => Clear(GetChar(t))
  BY GetCharIs
<1>2. GetChar(t).curr \in Symbols
  BY <1>1, TokerHas
<1> QED
  BY <1>1, <1>2 DEF Reads, Clear

\* A loop that reads characters is a function, ...
LEMMA LoopExists ==
  ASSUME NEW P \in SUBSET Tokers
  PROVE  \E f : f = [u \in Tokers |-> IF u \in P THEN f[GetChar(u)] ELSE u]
<1> DEFINE g == [u \in Tokers |-> GetChar(u)]
           h == [u \in Tokers |-> u]
<1>1. \A u \in Tokers : g[u] = GetChar(u) /\ h[u] = u
  OBVIOUS
<1>2. \A u \in P : g[u] \in Tokers
  BY <1>1, GetCharIs
<1> HIDE DEF g, h
<1>3. PICK f : Loop(f, Tokers, P, g, h)
  BY <1>2, Loops
<1>4. [u \in Tokers |-> IF u \in P THEN f[g[u]] ELSE h[u]]
        = [u \in Tokers |-> IF u \in P THEN f[GetChar(u)] ELSE u]
  BY <1>1
<1>5. f = [u \in Tokers |-> IF u \in P THEN f[GetChar(u)] ELSE u]
  BY <1>3, <1>4 DEF Loop
<1> QED
  BY <1>5

\* ... and it stops outside P, as long as there is something to read inside.
LEMMA LoopReads ==
  ASSUME NEW P \in SUBSET Tokers, \A u \in P : u.next # Eof,
         NEW f, f = [u \in Tokers |-> IF u \in P THEN f[GetChar(u)] ELSE u],
         NEW t \in Tokers
  PROVE  Reads(t, f[t]) /\ f[t] \notin P /\ (f[t] = t \/ Unread(f[t]) < Unread(t))
<1> DEFINE Good(u) == Reads(u, f[u]) /\ f[u] \notin P /\ (f[u] = u \/ Unread(f[u]) < Unread(u))
           Q == {u \in Tokers : Good(u)}
           size == [u \in Tokers |-> Unread(u)]
<1>1. \A u \in Tokers : size[u] = Unread(u) /\ size[u] \in Nat
  BY TokerHas
<1>2. ASSUME NEW u \in Tokers, \A v \in Tokers : size[v] < size[u] => v \in Q PROVE u \in Q
  <2>1. CASE u \notin P
    <3>1. f[u] = u
      BY <2>1
    <3> QED
      BY <2>1, <3>1, ReadsNone
  <2>2. CASE u \in P
    <3> DEFINE v == GetChar(u)
    <3>1. Reads(u, v) /\ v \in Tokers /\ Unread(v) < Unread(u)
      BY <2>2, ReadsOne
    <3>2. f[u] = f[v]
      BY <2>2
    <3> HIDE DEF v
    <3>3. size[v] < size[u]
      BY <1>1, <3>1
    <3>4. Good(v)
      BY <1>2, <3>1, <3>3
    <3> HIDE DEF size
    <3>5. Reads(v, f[v])
      BY <3>4
    <3>6. Reads(u, f[v]) /\ Unread(f[v]) < Unread(u)
      BY <3>1, <3>5, ReadsTwice
    <3> QED
      BY <3>2, <3>4, <3>6
  <2> QED
    BY <2>1, <2>2
<1>3. Q \in SUBSET Tokers
  OBVIOUS
<1> HIDE DEF size, Q
<1>4. ByLess(Tokers, size, Q)
  BY <1>1, <1>2 DEF ByLess
<1>5. Q = Tokers
  BY <1>3, <1>4, AllByLess
<1> QED
  BY <1>5 DEF Q

\* stripWhiteSpace.
LEMMA StripIs ==
  ASSUME NEW t \in Tokers
  PROVE  LET s == StripWhiteSpace(t)
         IN Reads(t, s) /\ (s = t \/ Unread(s) < Unread(t))
<1> DEFINE P == {u \in Tokers : u.next = " "}
           f == CHOOSE strip : strip = [u \in Tokers |-> IF u.next = " " THEN strip[GetChar(u)] ELSE u]
<1>1. StripWhiteSpace(t) = f[t]
  BY DEF StripWhiteSpace
<1>2. \A e : [u \in Tokers |-> IF u \in P THEN e[GetChar(u)] ELSE u]
               = [u \in Tokers |-> IF u.next = " " THEN e[GetChar(u)] ELSE u]
  OBVIOUS
<1>3. P \in SUBSET Tokers /\ \A u \in P : u.next # Eof
  BY DEF Eof
<1> HIDE DEF P
<1>4. \E e : e = [u \in Tokers |-> IF u \in P THEN e[GetChar(u)] ELSE u]
  BY <1>3, LoopExists
<1>5. \E e : e = [u \in Tokers |-> IF u.next = " " THEN e[GetChar(u)] ELSE u]
  <2>1. PICK e : e = [u \in Tokers |-> IF u \in P THEN e[GetChar(u)] ELSE u]
    BY <1>4
  <2>2. e = [u \in Tokers |-> IF u.next = " " THEN e[GetChar(u)] ELSE u]
    BY <1>2, <2>1
  <2> QED
    BY <2>2
<1>6. f = [u \in Tokers |-> IF u.next = " " THEN f[GetChar(u)] ELSE u]
  BY <1>5
<1> HIDE DEF f
<1>7. f = [u \in Tokers |-> IF u \in P THEN f[GetChar(u)] ELSE u]
  BY <1>2, <1>6
<1>8. Reads(t, f[t]) /\ (f[t] = t \/ Unread(f[t]) < Unread(t))
  BY <1>3, <1>7, LoopReads
<1> QED
  BY <1>1, <1>8

\* eatCComment and eatCppComment.
LEMMA EatCommentIs ==
  ASSUME NEW t \in Tokers, NEW cpp
  PROVE  Reads(t, EatComment(t, cpp))
<1> DEFINE P == {u \in Tokers : ~(IsEndComment(u, cpp) \/ u.next = Eof)}
           f == CHOOSE eat : eat = [u \in Tokers |-> IF IsEndComment(u, cpp) \/ u.next = Eof
                                                     THEN u ELSE eat[GetChar(u)]]
<1>1. EatComment(t, cpp) = IF cpp THEN f[t] ELSE GetChar(f[t])
  BY DEF EatComment
<1>2. \A e : [u \in Tokers |-> IF u \in P THEN e[GetChar(u)] ELSE u]
               = [u \in Tokers |-> IF IsEndComment(u, cpp) \/ u.next = Eof THEN u ELSE e[GetChar(u)]]
  OBVIOUS
<1>3. P \in SUBSET Tokers /\ \A u \in P : u.next # Eof
  OBVIOUS
<1> HIDE DEF P
<1>4. \E e : e = [u \in Tokers |-> IF u \in P THEN e[GetChar(u)] ELSE u]
  BY <1>3, LoopExists
<1>5. \E e : e = [u \in Tokers |-> IF IsEndComment(u, cpp) \/ u.next = Eof THEN u ELSE e[GetChar(u)]]
  <2>1. PICK e : e = [u \in Tokers |-> IF u \in P THEN e[GetChar(u)] ELSE u]
    BY <1>4
  <2>2. e = [u \in Tokers |-> IF IsEndComment(u, cpp) \/ u.next = Eof THEN u ELSE e[GetChar(u)]]
    BY <1>2, <2>1
  <2> QED
    BY <2>2
<1>6. f = [u \in Tokers |-> IF IsEndComment(u, cpp) \/ u.next = Eof THEN u ELSE f[GetChar(u)]]
  BY <1>5
<1> HIDE DEF f
<1>7. f = [u \in Tokers |-> IF u \in P THEN f[GetChar(u)] ELSE u]
  BY <1>2, <1>6
<1>8. Reads(t, f[t])
  BY <1>3, <1>7, LoopReads
<1>9. f[t] \in Tokers
  BY <1>8 DEF Reads
<1>10. Reads(f[t], GetChar(f[t]))
  BY <1>9, ReadsOne
<1>11. Reads(t, GetChar(f[t]))
  BY <1>8, <1>10, ReadsTwice
<1> QED
  BY <1>1, <1>8, <1>11

\* eatQuote: at least the quote is in the token.
LEMMA EatQuoteIs ==
  ASSUME NEW t \in Tokers, NEW quote \in Symbols
  PROVE  LET r == EatQuote(t, quote)
         IN /\ r.t \in Tokers /\ r.tok \in Texts
            /\ Unread(r.t) <= Unread(t)
            /\ Orderly(t) => Orderly(r.t)
            /\ r.tok # <<>> /\ r.tok[1] = t.curr
<1> DEFINE D == Tokers \X Texts
           P == {x \in D : ~(IsEndQuote(x[1], quote) \/ x[1].next = Eof)}
           g == [x \in D |-> <<GetChar(x[1]), Append(x[2], GetChar(x[1]).curr)>>]
           h == [x \in D |-> x]
           f == CHOOSE eat : eat = [x \in Tokers \X Texts |->
                  IF IsEndQuote(x[1], quote) \/ x[1].next = Eof THEN x
                  ELSE eat[<<GetChar(x[1]), Append(x[2], GetChar(x[1]).curr)>>]]
           x0 == <<t, <<t.curr>>>>
           y == f[x0]
           u == GetChar(y[1])
           r == EatQuote(t, quote)
<1>1. r = IF IsEndQuote(y[1], quote) THEN [t |-> u, tok |-> Append(y[2], u.curr)]
          ELSE [t |-> [y[1] EXCEPT !.error = MissingEnd], tok |-> y[2]]
  BY DEF EatQuote
<1>2. \A x \in D : x[1] \in Tokers /\ x[2] \in Texts /\ x = <<x[1], x[2]>>
  OBVIOUS
<1>3. ASSUME NEW x \in D
      PROVE  /\ g[x] = <<GetChar(x[1]), Append(x[2], GetChar(x[1]).curr)>>
             /\ g[x] \in D /\ h[x] = x
             /\ Len(x[2]) \in Nat /\ Len(g[x][2]) = Len(x[2]) + 1
             /\ \A i \in 1..Len(x[2]) : g[x][2][i] = x[2][i]
  <2> DEFINE s == x[2]
             c == GetChar(x[1]).curr
  <2>1. g[x] = <<GetChar(x[1]), Append(s, c)>> /\ h[x] = x
    OBVIOUS
  <2>2. x[1] \in Tokers /\ s \in Seq(Symbols)
    BY <1>2 DEF Texts
  <2>3. c \in Symbols /\ GetChar(x[1]) \in Tokers
    BY <2>2, ReadsOne
  <2> HIDE DEF s, c, g, h
  <2>4. Append(s, c) \in Seq(Symbols) /\ Len(Append(s, c)) = Len(s) + 1 /\ \A i \in 1..Len(s) : Append(s, c)[i] = s[i]
    BY <2>2, <2>3, AppendProperties
  <2>5. g[x][2] = Append(s, c)
    BY <2>1
  <2>6. g[x] \in D
    <3>1. \A a \in Tokers, b \in Texts : <<a, b>> \in D
      OBVIOUS
    <3>2. Append(s, c) \in Texts
      BY <2>4 DEF Texts
    <3> HIDE DEF D
    <3> QED
      BY <2>1, <2>3, <3>1, <3>2
  <2>7. Len(s) \in Nat
    BY <2>2, LenProperties
  <2> HIDE DEF D
  <2> QED
    BY <2>1, <2>4, <2>5, <2>6, <2>7 DEF s, c
<1>4. \A e : [x \in D |-> IF x \in P THEN e[g[x]] ELSE h[x]]
               = [x \in Tokers \X Texts |->
                    IF IsEndQuote(x[1], quote) \/ x[1].next = Eof THEN x
                    ELSE e[<<GetChar(x[1]), Append(x[2], GetChar(x[1]).curr)>>]]
  <2> HIDE DEF g, h
  <2> QED
    BY <1>3
<1>5. P \in SUBSET D /\ \A x \in P : x[1].next # Eof
  OBVIOUS
<1>6. \A x \in P : g[x] \in D
  BY <1>3, <1>5
<1> HIDE DEF P, g, h
<1>7. PICK e : Loop(e, D, P, g, h)
  <2> HIDE DEF D
  <2> QED
    BY <1>5, <1>6, Loops
<1>8. e = [x \in Tokers \X Texts |->
             IF IsEndQuote(x[1], quote) \/ x[1].next = Eof THEN x
             ELSE e[<<GetChar(x[1]), Append(x[2], GetChar(x[1]).curr)>>]]
  BY <1>4, <1>7 DEF Loop
<1>9. f = [x \in Tokers \X Texts |->
             IF IsEndQuote(x[1], quote) \/ x[1].next = Eof THEN x
             ELSE f[<<GetChar(x[1]), Append(x[2], GetChar(x[1]).curr)>>]]
  BY <1>8
<1> HIDE DEF f
<1>10. f = [x \in D |-> IF x \in P THEN f[g[x]] ELSE h[x]]
  BY <1>4, <1>9
<1> DEFINE Good(x) == /\ f[x] \in D /\ f[x] \notin P /\ Reads(x[1], f[x][1])
                      /\ Len(f[x][2]) >= Len(x[2])
                      /\ \A i \in 1..Len(x[2]) : f[x][2][i] = x[2][i]
           Q == {x \in D : Good(x)}
           size == [x \in D |-> Unread(x[1])]
<1>11. \A x \in D : size[x] = Unread(x[1]) /\ size[x] \in Nat
  BY <1>2, TokerHas
<1>12. ASSUME NEW x \in D, \A z \in D : size[z] < size[x] => z \in Q PROVE x \in Q
  <2>1. CASE x \notin P
    <3>1. f[x] = x
      BY <1>3, <1>10, <2>1
    <3>2. Reads(x[1], x[1]) /\ Len(x[2]) >= Len(x[2])
      <4>1. x[1] \in Tokers /\ Len(x[2]) \in Nat
        BY <1>2, <1>3
      <4> QED
        BY <4>1, ReadsNone
    <3> QED
      BY <2>1, <3>1, <3>2
  <2>2. CASE x \in P
    <3> DEFINE z == g[x]
    <3>1. f[x] = f[z]
      BY <1>10, <2>2
    <3>2. z \in D /\ z[1] = GetChar(x[1]) /\ Len(x[2]) \in Nat /\ Len(z[2]) = Len(x[2]) + 1
          /\ \A i \in 1..Len(x[2]) : z[2][i] = x[2][i]
      BY <1>3
    <3> HIDE DEF z, D
    <3>3. x[1] \in Tokers /\ x[1].next # Eof /\ z[1] \in Tokers
      BY <1>2, <1>5, <2>2, <3>2
    <3>4. Reads(x[1], z[1]) /\ Unread(z[1]) < Unread(x[1])
      BY <3>2, <3>3, ReadsOne
    <3>5. size[z] < size[x]
      BY <1>11, <3>2, <3>4
    <3>6. Good(z)
      BY <1>12, <3>2, <3>5
    <3> HIDE DEF size
    <3>7. Reads(z[1], f[z][1]) /\ Len(f[z][2]) >= Len(z[2]) /\ f[z] \in D /\ f[z] \notin P
          /\ \A i \in 1..Len(z[2]) : f[z][2][i] = z[2][i]
      BY <3>6
    <3>8. Reads(x[1], f[z][1])
      BY <3>3, <3>4, <3>7, ReadsTwice
    <3>9. Len(f[z][2]) >= Len(x[2]) /\ \A i \in 1..Len(x[2]) : i \in 1..Len(z[2])
      <4>1. Len(f[z][2]) \in Nat
        BY <1>3, <3>7
      <4>2. \A k, m, n \in Nat : n = m + 1 /\ k >= n => k >= m /\ \A i \in 1..m : i \in 1..n
        OBVIOUS
      <4>3. Len(z[2]) \in Nat
        BY <1>3, <3>2
      <4> QED
        BY <3>2, <3>7, <4>1, <4>2, <4>3
    <3> QED
      BY <3>1, <3>2, <3>7, <3>8, <3>9
  <2> QED
    BY <2>1, <2>2
<1>13. Q \in SUBSET D
  OBVIOUS
<1> HIDE DEF size, Q
<1>14. Q = D
  <2> HIDE DEF D, Good
  <2>1. ByLess(D, size, Q)
    BY <1>11, <1>12 DEF ByLess
  <2> QED
    BY <1>13, <2>1, AllByLess
<1>15. t.curr \in Symbols /\ <<t.curr>> \in Seq(Symbols) /\ Len(<<t.curr>>) = 1 /\ <<t.curr>>[1] = t.curr
  <2>1. \A c \in Symbols : <<c>> \in Seq(Symbols) /\ Len(<<c>>) = 1 /\ <<c>>[1] = c
    OBVIOUS
  <2>2. t.curr \in Symbols
    BY TokerHas
  <2> QED
    BY <2>1, <2>2
<1>16. x0 \in D /\ x0[1] = t /\ x0[2] = <<t.curr>>
  BY <1>15 DEF Texts
<1> HIDE DEF x0
<1>17. y \in D /\ Reads(t, y[1]) /\ Len(y[2]) >= 1 /\ y[2][1] = t.curr /\ y \notin P
  <2>1. Good(x0)
    BY <1>14, <1>16 DEF Q
  <2>2. Len(x0[2]) = 1 /\ x0[2][1] = t.curr
    BY <1>15, <1>16
  <2> HIDE DEF D
  <2> QED
    BY <1>16, <2>1, <2>2
<1>18. y[1] \in Tokers /\ y[2] \in Seq(Symbols) /\ Len(y[2]) \in Nat
  BY <1>2, <1>3, <1>17 DEF Texts
<1> HIDE DEF y, u, r, D
<1>19. CASE IsEndQuote(y[1], quote)
  <2> DEFINE s == y[2]
             c == u.curr
  <2>1. Reads(y[1], u) /\ u \in Tokers /\ c \in Symbols
    BY <1>18, ReadsOne DEF u
  <2>2. Reads(t, u)
    BY <1>17, <1>18, <2>1, ReadsTwice
  <2>3. s \in Seq(Symbols) /\ Len(s) \in Nat /\ Len(s) >= 1 /\ s[1] = t.curr
    BY <1>17, <1>18
  <2> HIDE DEF s, c
  <2>4. Append(s, c) \in Seq(Symbols) /\ Len(Append(s, c)) = Len(s) + 1 /\ \A i \in 1..Len(s) : Append(s, c)[i] = s[i]
    BY <2>1, <2>3, AppendProperties
  <2>5. 1 \in 1..Len(s) /\ Len(s) + 1 # 0
    BY <2>3
  <2>6. Append(s, c) # <<>> /\ Append(s, c)[1] = t.curr
    BY <2>3, <2>4, <2>5
  <2>7. r = [t |-> u, tok |-> Append(s, c)]
    BY <1>1, <1>19 DEF s, c
  <2>8. r.t = u /\ r.tok = Append(s, c)
    BY <2>7
  <2> QED
    BY <2>1, <2>2, <2>4, <2>6, <2>8 DEF Reads, Texts, r
<1>20. CASE ~IsEndQuote(y[1], quote)
  <2> DEFINE v == [y[1] EXCEPT !.error = MissingEnd]
  <2>1. r = [t |-> v, tok |-> y[2]]
    BY <1>1, <1>20
  <2>2. v \in Tokers /\ v.in = y[1].in /\ v.putbacks = y[1].putbacks /\ v.next = y[1].next /\ v.asserted = y[1].asserted
    BY <1>18 DEF Tokers
  <2> HIDE DEF v
  <2>3. Unread(v) = Unread(y[1]) /\ Peek(v) = Peek(y[1])
    BY <2>2 DEF Unread, Peek
  <2>4. Orderly(y[1]) => Orderly(v)
    BY <2>2, <2>3 DEF Orderly
  <2>5. Unread(y[1]) <= Unread(t) /\ (Orderly(t) => Orderly(y[1]))
    BY <1>17 DEF Reads
  <2>6. y[2] # <<>>
    <3>1. Len(y[2]) # 0
      BY <1>17, <1>18
    <3> QED
      BY <3>1
  <2>7. r.t = v /\ r.tok = y[2]
    BY <2>1
  <2> QED
    BY <1>17, <1>18, <2>2, <2>3, <2>4, <2>5, <2>6, <2>7 DEF Texts, r
<1> QED
  BY <1>19, <1>20

------------------------------------------------------------------------------
(* Tokens.                                                                   *)

TokStates == Tokers \X Texts
Longer(x) == IF GetChar(x[1]).curr \in Blanks THEN x[2] ELSE Append(x[2], GetChar(x[1]).curr)

\* Where the loop of getTok goes on, where to, and what it returns elsewhere.
GoesOn(x) ==
  LET u == GetChar(x[1])
  IN  /\ x[1].next # Eof
      /\ IF IsBeginComment(u) \/ IsBeginQuote(u) THEN x[2] = <<>> /\ IsBeginComment(u)
         ELSE ~(IsTokEnd(u) /\ Longer(x) # <<>>)
GoesTo(x) ==
  LET u == GetChar(x[1])
  IN  IF IsBeginComment(u) THEN <<EatComment(u, u.next = "/"), <<>>>> ELSE <<u, Longer(x)>>
Returns(x) ==
  LET u == GetChar(x[1])
  IN  IF x[1].next = Eof THEN [t |-> x[1], tok |-> x[2]]
      ELSE IF IsBeginComment(u) \/ IsBeginQuote(u)
      THEN IF x[2] # <<>> THEN [t |-> Putback(u, u.curr), tok |-> x[2]] ELSE EatQuote(u, u.curr)
      ELSE [t |-> u, tok |-> Longer(x)]

\* One round of getTok.
LEMMA RoundOfTok ==
  ASSUME NEW x \in TokStates
  PROVE  LET u == GetChar(x[1])
         IN /\ x[1] \in Tokers /\ x[2] \in Texts /\ <<x[1], x[2]>> = x
            /\ u \in Tokers /\ u.curr \in Symbols
            /\ Reads(x[1], u) /\ (x[1].next # Eof => Unread(u) < Unread(x[1]))
            /\ Orderly(x[1]) => Clear(u)
            /\ Longer(x) \in Texts
<1>1. x[1] \in Tokers /\ x[2] \in Texts /\ <<x[1], x[2]>> = x
  BY DEF TokStates
<1> DEFINE u == GetChar(x[1])
<1>2. /\ u \in Tokers /\ u.curr \in Symbols
      /\ Reads(x[1], u) /\ (x[1].next # Eof => Unread(u) < Unread(x[1]))
      /\ Orderly(x[1]) => Clear(u)
  BY <1>1, ReadsOne
<1>3. Longer(x) \in Texts
  <2> DEFINE s == x[2]
             c == u.curr
  <2>1. s \in Seq(Symbols) /\ c \in Symbols
    BY <1>1, <1>2 DEF Texts
  <2>2. Longer(x) = IF c \in Blanks THEN s ELSE Append(s, c)
    BY DEF Longer
  <2> HIDE DEF s, c
  <2>3. Append(s, c) \in Seq(Symbols)
    BY <2>1, AppendProperties
  <2> QED
    BY <2>1, <2>2, <2>3 DEF Texts
<1> HIDE DEF u
<1>4. /\ x[1] \in Tokers /\ x[2] \in Texts /\ <<x[1], x[2]>> = x
      /\ u \in Tokers /\ u.curr \in Symbols
      /\ Reads(x[1], u) /\ (x[1].next # Eof => Unread(u) < Unread(x[1]))
      /\ Orderly(x[1]) => Clear(u)
      /\ Longer(x) \in Texts
  BY <1>1, <1>2, <1>3
<1> QED
  BY <1>4 DEF u

\* Where it goes on there is less to read, and no tag begins in the token.
LEMMA TokGoesTo ==
  ASSUME NEW x \in TokStates, GoesOn(x)
  PROVE  LET z == GoesTo(x)
         IN /\ z \in TokStates /\ z[1] \in Tokers /\ z[2] \in Texts
            /\ Reads(x[1], z[1]) /\ Unread(z[1]) < Unread(x[1])
            /\ x[2] # <<"<">> => z[2] # <<"<">>
<1> DEFINE u == GetChar(x[1])
           v == EatComment(u, u.next = "/")
           z == GoesTo(x)
<1>1. /\ x[1] \in Tokers /\ x[2] \in Texts /\ u \in Tokers /\ u.curr \in Symbols
      /\ Reads(x[1], u) /\ Longer(x) \in Texts
      /\ x[1].next # Eof => Unread(u) < Unread(x[1])
  BY RoundOfTok
<1>2. x[1].next # Eof /\ (IsBeginComment(u) \/ ~(IsTokEnd(u) /\ Longer(x) # <<>>))
  BY DEF GoesOn
<1>3. z = IF IsBeginComment(u) THEN <<v, <<>>>> ELSE <<u, Longer(x)>>
  BY DEF GoesTo
<1>4. Reads(u, v)
  BY <1>1, EatCommentIs
<1>5. v \in Tokers /\ Reads(x[1], v) /\ Unread(v) < Unread(x[1])
  BY <1>1, <1>2, <1>4, ReadsTwice DEF Reads
<1>6. ASSUME x[2] # <<"<">>, Longer(x) = <<"<">> PROVE IsBeginComment(u)
  <2> DEFINE s == x[2]
             c == u.curr
  <2>1. s \in Seq(Symbols) /\ c \in Symbols
    BY <1>1 DEF Texts
  <2>2. Longer(x) = IF c \in Blanks THEN s ELSE Append(s, c)
    BY DEF Longer
  <2>3. Longer(x) = Append(s, c)
    BY <1>6, <2>2
  <2> HIDE DEF s, c
  <2>4. Len(s) \in Nat /\ Len(Append(s, c)) = Len(s) + 1 /\ Append(s, c)[Len(s) + 1] = c
    BY <2>1, AppendProperties, LenProperties
  <2>5. Append(s, c) = <<"<">> /\ Len(<<"<">>) = 1 /\ <<"<">>[1] = "<"
    BY <1>6, <2>3
  <2>6. \A n \in Nat : n + 1 = 1 => n = 0
    OBVIOUS
  <2>7. Len(s) + 1 = 1 /\ Len(s) = 0
    BY <2>4, <2>5, <2>6
  <2>8. c = "<"
    <3>1. Append(s, c)[1] = c
      BY <2>4, <2>7
    <3> QED
      BY <2>5, <3>1
  <2>9. IsTokEnd(u) /\ Longer(x) # <<>>
    <3>1. u.curr \in SingleCharToks
      BY <2>8 DEF c, SingleCharToks
    <3>2. Longer(x) # <<>>
      BY <1>6
    <3> QED
      BY <3>1, <3>2 DEF IsTokEnd
  <2> QED
    BY <1>2, <2>9
<1> HIDE DEF u, v, z
<1>7. CASE IsBeginComment(u)
  <2>1. z = <<v, <<>>>> /\ z[1] = v /\ z[2] = <<>>
    BY <1>3, <1>7
  <2>2. <<>> \in Texts /\ <<>> # <<"<">>
    BY DEF Texts
  <2>3. z \in TokStates
    BY <1>5, <2>1, <2>2 DEF TokStates
  <2> QED
    BY <1>5, <2>1, <2>2, <2>3 DEF z
<1>8. CASE ~IsBeginComment(u)
  <2>1. z = <<u, Longer(x)>> /\ z[1] = u /\ z[2] = Longer(x)
    BY <1>3, <1>8
  <2>2. z \in TokStates
    BY <1>1, <2>1 DEF TokStates
  <2>3. x[2] # <<"<">> => Longer(x) # <<"<">>
    BY <1>6, <1>8
  <2> QED
    BY <1>1, <1>2, <2>1, <2>2, <2>3 DEF z
<1> QED
  BY <1>7, <1>8

\* A token, or what is left of it at the end: nothing is put back behind a "<".
Token(t, tok, r) ==
  /\ r.t \in Tokers /\ r.tok \in Texts
  /\ Unread(r.t) <= Unread(t)
  /\ tok = <<>> /\ t.next # Eof => Unread(r.t) < Unread(t)
  /\ Orderly(t) => Orderly(r.t)
  /\ Orderly(t) /\ tok # <<"<">> => (r.tok = <<"<">> => Clear(r.t))

\* A character that goes back after it was read.
LEMMA BackAgain ==
  ASSUME NEW t \in Tokers, t.next # Eof, NEW c \in Symbols, c = GetChar(t).curr, c # Eof
  PROVE  LET v == Putback(GetChar(t), c)
         IN v \in Tokers /\ Unread(v) <= Unread(t) /\ (Orderly(t) => Orderly(v))
<1> DEFINE u == GetChar(t)
           v == Putback(u, c)
           n == Len(t.in) + Len(t.putbacks)
           m == Len(u.in) + Len(u.putbacks)
<1>1. u \in Tokers /\ (Orderly(t) => Clear(u))
      /\ IF t.in = <<>> /\ t.putbacks = <<>> THEN u.curr = Eof
         ELSE Len(u.in) + Len(u.putbacks) = Len(t.in) + Len(t.putbacks) - 1
  BY GetCharIs
<1>2. v \in Tokers /\ (Clear(u) => Orderly(v)) /\ Unread(v) <= 2 * (Len(u.in) + Len(u.putbacks)) + 3
  BY <1>1, PutbackIs
<1>3. Len(u.in) + Len(u.putbacks) = Len(t.in) + Len(t.putbacks) - 1
  BY <1>1
<1>4. Len(t.in) \in Nat /\ Len(t.putbacks) \in Nat /\ Len(u.in) \in Nat /\ Len(u.putbacks) \in Nat /\ Unread(v) \in Nat
  BY <1>1, <1>2, TokerHas
<1>5. Unread(t) = 2 * (Len(t.in) + Len(t.putbacks)) + 1
  BY DEF Unread
<1> HIDE DEF u, v
<1>6. Unread(v) <= Unread(t)
  <2> DEFINE a == Len(u.in)
             b == Len(u.putbacks)
             d == Len(t.in)
             e == Len(t.putbacks)
             k == Unread(v)
  <2>1. a \in Nat /\ b \in Nat /\ d \in Nat /\ e \in Nat /\ k \in Nat
    BY <1>4
  <2>2. a + b = d + e - 1 /\ k <= 2 * (a + b) + 3 /\ Unread(t) = 2 * (d + e) + 1
    BY <1>2, <1>3, <1>5
  <2> HIDE DEF a, b, d, e, k
  <2>3. k <= 2 * (d + e) + 1
    BY <2>1, <2>2
  <2> QED
    BY <2>2, <2>3 DEF k
<1>7. v \in Tokers /\ Unread(v) <= Unread(t) /\ (Orderly(t) => Orderly(v))
  BY <1>1, <1>2, <1>6
<1> QED
  BY <1>7 DEF u, v

\* Where the loop of getTok does not go on it has a token.
LEMMA TokReturns ==
  ASSUME NEW x \in TokStates, ~GoesOn(x)
  PROVE  Token(x[1], x[2], Returns(x))
<1> DEFINE t == x[1]
           tok == x[2]
           u == GetChar(t)
           r == Returns(x)
           q == EatQuote(u, u.curr)
<1>1. /\ t \in Tokers /\ tok \in Texts /\ u \in Tokers /\ u.curr \in Symbols
      /\ Reads(t, u) /\ Longer(x) \in Texts
      /\ t.next # Eof => Unread(u) < Unread(t)
      /\ Orderly(t) => Clear(u)
  BY RoundOfTok
<1>2. r = IF t.next = Eof THEN [t |-> t, tok |-> tok]
          ELSE IF IsBeginComment(u) \/ IsBeginQuote(u)
          THEN IF tok # <<>> THEN [t |-> Putback(u, u.curr), tok |-> tok] ELSE q
          ELSE [t |-> u, tok |-> Longer(x)]
  BY DEF Returns
<1>3. t.next = Eof \/ (IF IsBeginComment(u) \/ IsBeginQuote(u) THEN tok # <<>> \/ ~IsBeginComment(u) ELSE TRUE)
  BY DEF GoesOn
<1>4. Unread(t) \in Nat /\ Unread(u) \in Nat /\ \A m, n \in Nat : m < n => m <= n
  <2>1. Unread(t) \in Nat /\ Unread(u) \in Nat
    BY <1>1, TokerHas
  <2>2. \A m, n \in Nat : m < n => m <= n
    OBVIOUS
  <2> QED
    BY <2>1, <2>2
<1>5. IsBeginComment(u) \/ IsBeginQuote(u) => u.curr \in {"/", "'", "\""}
  BY DEF IsBeginComment, IsBeginQuote
<1>6. IsBeginQuote(u) => u.curr \in {"'", "\""}
  BY DEF IsBeginQuote
<1>7. CASE t.next = Eof
  <2>1. r.t = t /\ r.tok = tok
    BY <1>2, <1>7
  <2> HIDE DEF r, t, tok
  <2>2. Unread(t) <= Unread(t)
    BY <1>4
  <2>3. Token(t, tok, r)
    BY <1>1, <1>7, <2>1, <2>2 DEF Token
  <2> QED
    BY <2>3 DEF r, t, tok
<1>8. CASE t.next # Eof /\ (IsBeginComment(u) \/ IsBeginQuote(u)) /\ tok # <<>>
  <2> DEFINE v == Putback(u, u.curr)
  <2>1. r.t = v /\ r.tok = tok
    BY <1>2, <1>8
  <2>2. u.curr # Eof
    BY <1>5, <1>8 DEF Eof
  <2>3. v \in Tokers /\ Unread(v) <= Unread(t) /\ (Orderly(t) => Orderly(v))
    BY <1>1, <1>8, <2>2, BackAgain
  <2> HIDE DEF r, t, tok, u, v
  <2>4. Token(t, tok, r)
    BY <1>1, <1>8, <2>1, <2>3 DEF Token
  <2> QED
    BY <2>4 DEF r, t, tok
<1>9. CASE t.next # Eof /\ (IsBeginComment(u) \/ IsBeginQuote(u)) /\ tok = <<>>
  <2>1. r = q
    BY <1>2, <1>9
  <2>2. u.curr \in {"'", "\""}
    BY <1>3, <1>6, <1>9
  <2>3. /\ q.t \in Tokers /\ q.tok \in Texts
        /\ Unread(q.t) <= Unread(u)
        /\ Orderly(u) => Orderly(q.t)
        /\ q.tok # <<>> /\ q.tok[1] = u.curr
    BY <1>1, EatQuoteIs
  <2>4. q.tok # <<"<">>
    <3>1. <<"<">>[1] = "<"
      OBVIOUS
    <3>2. q.tok[1] # "<"
      BY <2>2, <2>3
    <3> QED
      BY <3>1, <3>2
  <2>5. Unread(q.t) < Unread(t) /\ Unread(q.t) <= Unread(t)
    <3>1. Unread(q.t) \in Nat /\ Unread(u) < Unread(t) /\ Unread(q.t) <= Unread(u)
      BY <1>1, <1>9, <2>3, TokerHas
    <3>2. \A k, m, n \in Nat : k <= m /\ m < n => k < n /\ k <= n
      OBVIOUS
    <3> QED
      BY <1>4, <3>1, <3>2
  <2> HIDE DEF r, t, tok, u, q
  <2>6. Orderly(t) => Orderly(q.t)
    BY <1>1, <2>3 DEF Clear
  <2>7. Token(t, tok, r)
    BY <2>1, <2>3, <2>4, <2>5, <2>6 DEF Token
  <2> QED
    BY <2>7 DEF r, t, tok
<1>10. CASE t.next # Eof /\ ~(IsBeginComment(u) \/ IsBeginQuote(u))
  <2>1. r.t = u /\ r.tok = Longer(x)
    BY <1>2, <1>10
  <2> HIDE DEF r, t, tok, u
  <2>2. Unread(u) < Unread(t) /\ Unread(u) <= Unread(t)
    BY <1>1, <1>4, <1>10
  <2>3. Token(t, tok, r)
    BY <1>1, <2>1, <2>2 DEF Token, Clear
  <2> QED
    BY <2>3 DEF r, t, tok
<1> QED
  BY <1>7, <1>8, <1>9, <1>10

\* The loop of getTok, as a step and an end.
TokBody(f, x) ==
  LET tok == x[2]
      u == GetChar(x[1])
      longer == IF u.curr \in Blanks THEN tok ELSE Append(tok, u.curr)
  IN  IF x[1].next = Eof THEN [t |-> x[1], tok |-> tok]
      ELSE IF IsBeginComment(u) \/ IsBeginQuote(u)
      THEN IF tok # <<>> THEN [t |-> Putback(u, u.curr), tok |-> tok]
           ELSE IF IsBeginComment(u) THEN f[<<EatComment(u, u.next = "/"), <<>>>>]
           ELSE EatQuote(u, u.curr)
      ELSE IF IsTokEnd(u) /\ longer # <<>> THEN [t |-> u, tok |-> longer] ELSE f[<<u, longer>>]

LEMMA TokBodyIs ==
  ASSUME NEW f, NEW x
  PROVE  TokBody(f, x) = IF GoesOn(x) THEN f[GoesTo(x)] ELSE Returns(x)
<1> DEFINE u == GetChar(x[1])
           l == Longer(x)
<1>1. l = IF u.curr \in Blanks THEN x[2] ELSE Append(x[2], u.curr)
  BY DEF Longer
<1>2. TokBody(f, x) =
        IF x[1].next = Eof THEN [t |-> x[1], tok |-> x[2]]
        ELSE IF IsBeginComment(u) \/ IsBeginQuote(u)
        THEN IF x[2] # <<>> THEN [t |-> Putback(u, u.curr), tok |-> x[2]]
             ELSE IF IsBeginComment(u) THEN f[<<EatComment(u, u.next = "/"), <<>>>>]
             ELSE EatQuote(u, u.curr)
        ELSE IF IsTokEnd(u) /\ l # <<>> THEN [t |-> u, tok |-> l] ELSE f[<<u, l>>]
  BY DEF TokBody, Longer
<1>3. GoesOn(x) <=> /\ x[1].next # Eof
                    /\ IF IsBeginComment(u) \/ IsBeginQuote(u) THEN x[2] = <<>> /\ IsBeginComment(u)
                       ELSE ~(IsTokEnd(u) /\ l # <<>>)
  BY DEF GoesOn
<1>4. GoesTo(x) = IF IsBeginComment(u) THEN <<EatComment(u, u.next = "/"), <<>>>> ELSE <<u, l>>
  BY DEF GoesTo
<1>5. Returns(x) =
        IF x[1].next = Eof THEN [t |-> x[1], tok |-> x[2]]
        ELSE IF IsBeginComment(u) \/ IsBeginQuote(u)
        THEN IF x[2] # <<>> THEN [t |-> Putback(u, u.curr), tok |-> x[2]] ELSE EatQuote(u, u.curr)
        ELSE [t |-> u, tok |-> l]
  BY DEF Returns
<1> HIDE DEF u, l
<1> QED
  BY <1>2, <1>3, <1>4, <1>5

LEMMA TokFromIs ==
  ASSUME NEW x \in TokStates
  PROVE  TokFrom[x] = IF GoesOn(x) THEN TokFrom[GoesTo(x)] ELSE Returns(x)
<1> DEFINE P == {y \in TokStates : GoesOn(y)}
           g == [y \in TokStates |-> GoesTo(y)]
           h == [y \in TokStates |-> Returns(y)]
<1>1. P \in SUBSET TokStates /\ \A y \in P : g[y] \in TokStates
  BY TokGoesTo
<1>2. \A e : [y \in TokStates |-> IF y \in P THEN e[g[y]] ELSE h[y]] = [y \in TokStates |-> TokBody(e, y)]
  <2> TAKE e
  <2>1. \A y \in TokStates : (IF y \in P THEN e[g[y]] ELSE h[y]) = TokBody(e, y)
    BY TokBodyIs
  <2> HIDE DEF P, g, h
  <2> QED
    BY <2>1
<1> HIDE DEF P, g, h
<1>3. PICK e : Loop(e, TokStates, P, g, h)
  BY <1>1, Loops
<1>4. e = [y \in TokStates |-> TokBody(e, y)]
  BY <1>2, <1>3 DEF Loop
<1>5. TokFrom = CHOOSE f : f = [y \in TokStates |-> TokBody(f, y)]
  BY DEF TokFrom, TokBody, TokStates
<1>6. TokFrom = [y \in TokStates |-> TokBody(TokFrom, y)]
  BY <1>4, <1>5
<1>7. TokFrom[x] = TokBody(TokFrom, x)
  BY <1>6
<1> QED
  BY <1>7, TokBodyIs

\* Every token.
LEMMA TokFromHas ==
  ASSUME NEW x \in TokStates
  PROVE  Token(x[1], x[2], TokFrom[x])
<1> DEFINE Q == {y \in TokStates : Token(y[1], y[2], TokFrom[y])}
           size == [y \in TokStates |-> Unread(y[1])]
<1>1. \A y \in TokStates : size[y] = Unread(y[1]) /\ size[y] \in Nat
  BY RoundOfTok, TokerHas
<1>2. ASSUME NEW y \in TokStates, \A z \in TokStates : size[z] < size[y] => z \in Q
      PROVE  y \in Q
  <2>1. CASE ~GoesOn(y)
    <3>1. TokFrom[y] = Returns(y)
      BY <2>1, TokFromIs
    <3> QED
      BY <2>1, <3>1, TokReturns
  <2>2. CASE GoesOn(y)
    <3> DEFINE z == GoesTo(y)
               r == TokFrom[z]
    <3>1. TokFrom[y] = r
      BY <2>2, TokFromIs
    <3>2. /\ z \in TokStates /\ z[1] \in Tokers /\ z[2] \in Texts
          /\ Reads(y[1], z[1]) /\ Unread(z[1]) < Unread(y[1])
          /\ y[2] # <<"<">> => z[2] # <<"<">>
      BY <2>2, TokGoesTo
    <3> HIDE DEF z
    <3>3. size[z] < size[y]
      BY <1>1, <3>2
    <3>4. Token(z[1], z[2], r)
      BY <1>2, <3>2, <3>3
    <3>5. y[1] \in Tokers
      BY RoundOfTok
    <3> HIDE DEF r, Q, size
    <3>6. r.t \in Tokers /\ r.tok \in Texts /\ Unread(r.t) <= Unread(z[1])
      BY <3>4 DEF Token
    <3>7. Unread(r.t) < Unread(y[1]) /\ Unread(r.t) <= Unread(y[1])
      <4>1. Unread(r.t) \in Nat /\ Unread(z[1]) \in Nat /\ Unread(y[1]) \in Nat
        BY <3>2, <3>5, <3>6, TokerHas
      <4>2. \A k, m, n \in Nat : k <= m /\ m < n => k < n /\ k <= n
        OBVIOUS
      <4> QED
        BY <3>2, <3>6, <4>1, <4>2
    <3>8. Orderly(y[1]) => Orderly(r.t) /\ (y[2] # <<"<">> => (r.tok = <<"<">> => Clear(r.t)))
      <4>1. Orderly(y[1]) => Orderly(z[1])
        BY <3>2 DEF Reads
      <4> QED
        BY <3>2, <3>4, <4>1 DEF Token
    <3>9. Token(y[1], y[2], r)
      BY <3>6, <3>7, <3>8 DEF Token
    <3> QED
      BY <3>1, <3>9 DEF Q
  <2> QED
    BY <2>1, <2>2
<1>3. Q \in SUBSET TokStates
  OBVIOUS
<1> HIDE DEF size, Q
<1>4. ByLess(TokStates, size, Q)
  BY <1>1, <1>2 DEF ByLess
<1>5. Q = TokStates
  BY <1>3, <1>4, AllByLess
<1> QED
  BY <1>5 DEF Q

\* getTok.
LEMMA GetTokIs ==
  ASSUME NEW t \in Tokers
  PROVE  LET r == GetTok(t)
         IN /\ r.t \in Tokers /\ r.tok \in Texts
            /\ t.next # Eof => Unread(r.t) < Unread(t)
            /\ Orderly(t) => Orderly(r.t) /\ (r.tok = <<"<">> => Clear(r.t))
<1> DEFINE s == StripWhiteSpace(t)
           u == GetChar(s)
           x == <<s, <<>>>>
           r == GetTok(t)
<1>1. r = IF s.next \in SingleCharToks THEN [t |-> u, tok |-> <<u.curr>>] ELSE TokFrom[x]
  BY DEF GetTok
<1>2. Reads(t, s) /\ (s = t \/ Unread(s) < Unread(t))
  BY StripIs
<1> HIDE DEF s
<1>3. s \in Tokers /\ (Orderly(t) => Orderly(s)) /\ Unread(s) <= Unread(t)
  BY <1>2 DEF Reads
<1>4. Unread(s) \in Nat /\ Unread(t) \in Nat
  BY <1>3, TokerHas
<1>5. CASE s.next \in SingleCharToks
  <2>1. u \in Tokers /\ u.curr \in Symbols /\ (s.next # Eof => Unread(u) < Unread(s)) /\ (Orderly(s) => Clear(u))
    BY <1>3, ReadsOne
  <2>2. s.next # Eof
    BY <1>5 DEF SingleCharToks, Eof
  <2>3. r = [t |-> u, tok |-> <<u.curr>>]
    BY <1>1, <1>5
  <2> DEFINE c == u.curr
  <2>4. \A d \in Symbols : <<d>> \in Texts
    BY DEF Texts
  <2> HIDE DEF u, r, c
  <2>5. r.t = u /\ r.tok = <<u.curr>>
    BY <2>3
  <2>6. r.tok \in Texts
    BY <2>1, <2>4, <2>5
  <2>7. Unread(u) < Unread(t)
    <3>1. Unread(u) \in Nat /\ Unread(u) < Unread(s)
      BY <2>1, <2>2, TokerHas
    <3>2. \A k, m, n \in Nat : k < m /\ m <= n => k < n
      OBVIOUS
    <3> QED
      BY <1>3, <1>4, <3>1, <3>2
  <2>8. Orderly(t) => Clear(u) /\ Orderly(u)
    BY <1>3, <2>1 DEF Clear
  <2> QED
    BY <2>1, <2>5, <2>6, <2>7, <2>8 DEF r
<1>6. CASE s.next \notin SingleCharToks
  <2>1. x \in TokStates /\ x[1] = s /\ x[2] = <<>>
    <3>1. <<>> \in Texts
      BY DEF Texts
    <3> QED
      BY <1>3, <3>1 DEF TokStates
  <2>2. Token(x[1], x[2], TokFrom[x])
    BY <2>1, TokFromHas
  <2>3. r = TokFrom[x]
    BY <1>1, <1>6
  <2> HIDE DEF x, r, u
  <2>4. Token(s, <<>>, r)
    BY <2>1, <2>2, <2>3
  <2>5. <<>> # <<"<">>
    OBVIOUS
  <2>6. /\ r.t \in Tokers /\ r.tok \in Texts /\ Unread(r.t) <= Unread(s)
        /\ s.next # Eof => Unread(r.t) < Unread(s)
        /\ Orderly(s) => Orderly(r.t) /\ (r.tok = <<"<">> => Clear(r.t))
    BY <2>4, <2>5 DEF Token
  <2>7. t.next # Eof => Unread(r.t) < Unread(t)
    <3>1. Unread(r.t) \in Nat
      BY <2>6, TokerHas
    <3>2. \A k, m, n \in Nat : k <= m /\ m <= n /\ (k < m \/ m < n) => k < n
      OBVIOUS
    <3>3. t.next # Eof => Unread(r.t) < Unread(s) \/ Unread(s) < Unread(t)
      BY <1>2, <2>6
    <3> QED
      BY <1>3, <1>4, <2>6, <3>1, <3>2, <3>3
  <2> QED
    BY <1>3, <2>6, <2>7 DEF r
<1> QED
  BY <1>5, <1>6

PartStates == Tokers \X Seq(Texts)
More(x) == IF GetTok(x[1]).tok = <<"\n">> THEN x[2] ELSE Append(x[2], GetTok(x[1]).tok)

\* Where the loop of XmlParts::get goes on.
Reading(x) ==
  LET r == GetTok(x[1])
  IN  /\ x[1].next # Eof /\ r.t.error = ""
      /\ ~(x[2] # <<>> /\ r.tok = <<"<">>) /\ r.tok # <<">">>
PartsOf(x) ==
  LET r == GetTok(x[1])
  IN  IF x[1].next = Eof THEN [t |-> x[1], toks |-> x[2]]
      ELSE IF r.t.error # "" THEN [t |-> r.t, toks |-> x[2]]
      ELSE IF x[2] # <<>> /\ r.tok = <<"<">> THEN [t |-> Putback(r.t, "<"), toks |-> x[2]]
      ELSE [t |-> r.t, toks |-> More(x)]

\* One round of XmlParts::get.
LEMMA RoundOfParts ==
  ASSUME NEW x \in PartStates
  PROVE  LET r == GetTok(x[1])
         IN /\ x[1] \in Tokers /\ x[2] \in Seq(Texts)
            /\ <<r.t, More(x)>> \in PartStates /\ r.t \in Tokers
            /\ x[1].next # Eof => Unread(r.t) < Unread(x[1])
            /\ Orderly(x[1]) => Orderly(r.t) /\ (r.tok = <<"<">> => Clear(r.t))
<1> DEFINE r == GetTok(x[1])
<1>1. x[1] \in Tokers /\ x[2] \in Seq(Texts)
  BY DEF PartStates
<1>2. /\ r.t \in Tokers /\ r.tok \in Texts
      /\ x[1].next # Eof => Unread(r.t) < Unread(x[1])
      /\ Orderly(x[1]) => Orderly(r.t) /\ (r.tok = <<"<">> => Clear(r.t))
  BY <1>1, GetTokIs
<1>3. More(x) \in Seq(Texts)
  <2> DEFINE s == x[2]
             e == r.tok
  <2>1. s \in Seq(Texts) /\ e \in Texts
    BY <1>1, <1>2
  <2>2. More(x) = IF e = <<"\n">> THEN s ELSE Append(s, e)
    BY DEF More
  <2> HIDE DEF s, e
  <2>3. Append(s, e) \in Seq(Texts)
    BY <2>1, AppendProperties
  <2> QED
    BY <2>1, <2>2, <2>3
<1>4. \A a \in Tokers, b \in Seq(Texts) : <<a, b>> \in PartStates
  BY DEF PartStates
<1> HIDE DEF r
<1>5. <<r.t, More(x)>> \in PartStates
  BY <1>2, <1>3, <1>4
<1>6. /\ x[1] \in Tokers /\ x[2] \in Seq(Texts)
      /\ <<r.t, More(x)>> \in PartStates /\ r.t \in Tokers
      /\ x[1].next # Eof => Unread(r.t) < Unread(x[1])
      /\ Orderly(x[1]) => Orderly(r.t) /\ (r.tok = <<"<">> => Clear(r.t))
  BY <1>1, <1>2, <1>5
<1> QED
  BY <1>6 DEF r

PartsBody(f, x) ==
  LET r == GetTok(x[1])
      more == IF r.tok = <<"\n">> THEN x[2] ELSE Append(x[2], r.tok)
  IN  IF x[1].next = Eof THEN [t |-> x[1], toks |-> x[2]]
      ELSE IF r.t.error # "" THEN [t |-> r.t, toks |-> x[2]]
      ELSE IF x[2] # <<>> /\ r.tok = <<"<">> THEN [t |-> Putback(r.t, "<"), toks |-> x[2]]
      ELSE IF r.tok = <<">">> THEN [t |-> r.t, toks |-> more]
      ELSE f[<<r.t, more>>]

LEMMA PartsFromIs ==
  ASSUME NEW x \in PartStates
  PROVE  PartsFrom[x] = IF Reading(x) THEN PartsFrom[<<GetTok(x[1]).t, More(x)>>] ELSE PartsOf(x)
<1> DEFINE P == {y \in PartStates : Reading(y)}
           g == [y \in PartStates |-> <<GetTok(y[1]).t, More(y)>>]
           h == [y \in PartStates |-> PartsOf(y)]
<1>1. P \in SUBSET PartStates /\ \A y \in P : g[y] \in PartStates
  BY RoundOfParts
<1>2. ASSUME NEW f, NEW y
      PROVE  PartsBody(f, y) = IF Reading(y) THEN f[<<GetTok(y[1]).t, More(y)>>] ELSE PartsOf(y)
  <2> DEFINE r == GetTok(y[1])
             more == More(y)
  <2>1. PartsBody(f, y) =
          IF y[1].next = Eof THEN [t |-> y[1], toks |-> y[2]]
          ELSE IF r.t.error # "" THEN [t |-> r.t, toks |-> y[2]]
          ELSE IF y[2] # <<>> /\ r.tok = <<"<">> THEN [t |-> Putback(r.t, "<"), toks |-> y[2]]
          ELSE IF r.tok = <<">">> THEN [t |-> r.t, toks |-> more]
          ELSE f[<<r.t, more>>]
    BY DEF PartsBody, More
  <2>2. Reading(y) <=> /\ y[1].next # Eof /\ r.t.error = ""
                       /\ ~(y[2] # <<>> /\ r.tok = <<"<">>) /\ r.tok # <<">">>
    BY DEF Reading
  <2>3. PartsOf(y) =
          IF y[1].next = Eof THEN [t |-> y[1], toks |-> y[2]]
          ELSE IF r.t.error # "" THEN [t |-> r.t, toks |-> y[2]]
          ELSE IF y[2] # <<>> /\ r.tok = <<"<">> THEN [t |-> Putback(r.t, "<"), toks |-> y[2]]
          ELSE [t |-> r.t, toks |-> more]
    BY DEF PartsOf
  <2>4. PartsBody(f, y) = IF Reading(y) THEN f[<<r.t, more>>] ELSE PartsOf(y)
    <3> HIDE DEF r, more
    <3> QED
      BY <2>1, <2>2, <2>3
  <2> QED
    BY <2>4
<1>3. \A e : [y \in PartStates |-> IF y \in P THEN e[g[y]] ELSE h[y]] = [y \in PartStates |-> PartsBody(e, y)]
  <2> TAKE e
  <2>1. \A y \in PartStates : (IF y \in P THEN e[g[y]] ELSE h[y]) = PartsBody(e, y)
    BY <1>2
  <2> HIDE DEF P, g, h
  <2> QED
    BY <2>1
<1> HIDE DEF P, g, h
<1>4. PICK e : Loop(e, PartStates, P, g, h)
  BY <1>1, Loops
<1>5. e = [y \in PartStates |-> PartsBody(e, y)]
  BY <1>3, <1>4 DEF Loop
<1>6. PartsFrom = CHOOSE f : f = [y \in PartStates |-> PartsBody(f, y)]
  BY DEF PartsFrom, PartsBody, PartStates
<1>7. PartsFrom = [y \in PartStates |-> PartsBody(PartsFrom, y)]
  BY <1>5, <1>6
<1>8. PartsFrom[x] = PartsBody(PartsFrom, x)
  BY <1>7
<1> QED
  BY <1>2, <1>8

\* XmlParts::get keeps the putback buffer in order.
LEMMA PartsFromHas ==
  ASSUME NEW x \in PartStates
  PROVE  /\ PartsFrom[x].t \in Tokers
         /\ Orderly(x[1]) => Orderly(PartsFrom[x].t)
<1> DEFINE Good(y) == PartsFrom[y].t \in Tokers /\ (Orderly(y[1]) => Orderly(PartsFrom[y].t))
           Q == {y \in PartStates : Good(y)}
           size == [y \in PartStates |-> Unread(y[1])]
<1>1. \A y \in PartStates : size[y] = Unread(y[1]) /\ size[y] \in Nat
  BY RoundOfParts, TokerHas
<1>2. ASSUME NEW y \in PartStates, \A z \in PartStates : size[z] < size[y] => z \in Q
      PROVE  y \in Q
  <2> DEFINE r == GetTok(y[1])
  <2>1. /\ y[1] \in Tokers
        /\ <<r.t, More(y)>> \in PartStates /\ r.t \in Tokers
        /\ y[1].next # Eof => Unread(r.t) < Unread(y[1])
        /\ Orderly(y[1]) => Orderly(r.t) /\ (r.tok = <<"<">> => Clear(r.t))
    BY RoundOfParts
  <2>2. CASE ~Reading(y)
    <3> DEFINE v == Putback(r.t, "<")
    <3>1. PartsFrom[y] = PartsOf(y)
      BY <2>2, PartsFromIs
    <3>2. PartsOf(y).t \in {y[1], r.t} \/ (PartsOf(y).t = v /\ r.tok = <<"<">>)
      BY DEF PartsOf
    <3>3. "<" \in Symbols
      BY MarksAre DEF SingleCharToks
    <3>4. v \in Tokers /\ (Clear(r.t) => Orderly(v))
      BY <2>1, <3>3, PutbackIs
    <3> HIDE DEF v, r
    <3>5. Good(y)
      BY <2>1, <3>1, <3>2, <3>4
    <3> QED
      BY <3>5
  <2>3. CASE Reading(y)
    <3> DEFINE z == <<r.t, More(y)>>
    <3>1. PartsFrom[y] = PartsFrom[z]
      BY <2>3, PartsFromIs
    <3>2. y[1].next # Eof
      BY <2>3 DEF Reading
    <3>3. z \in PartStates /\ z[1] = r.t
      BY <2>1
    <3> HIDE DEF z, r
    <3>4. size[z] < size[y]
      BY <1>1, <2>1, <3>2, <3>3
    <3>5. Good(z)
      BY <1>2, <3>3, <3>4
    <3>6. Good(y)
      BY <2>1, <3>1, <3>3, <3>5
    <3> QED
      BY <3>6
  <2> QED
    BY <2>2, <2>3
<1>3. Q \in SUBSET PartStates
  OBVIOUS
<1> HIDE DEF size, Q
<1>4. ByLess(PartStates, size, Q)
  BY <1>1, <1>2 DEF ByLess
<1>5. Q = PartStates
  BY <1>3, <1>4, AllByLess
<1> QED
  BY <1>5 DEF Q

------------------------------------------------------------------------------
(* Before the tokens.                                                        *)

\* One character of compress.
LEMMA CompressCharIs ==
  ASSUME NEW src \in Texts, NEW m \in Machines, NEW i \in 1..Len(src)
  PROVE  CompressChar(src, m, i) \in Machines
<1> DEFINE c == src[i]
           a == Append(m.dst, c)
           r == CompressChar(src, m, i)
<1>1. m.state \in {"outSide", "inTag", "inText"} /\ m.dst \in Seq(Symbols) /\ c \in Symbols
  BY ElementOfSeq DEF Machines, Texts
<1>2. a \in Seq(Symbols)
  <2> DEFINE s == m.dst
  <2>1. s \in Seq(Symbols)
    BY <1>1
  <2> HIDE DEF s, c
  <2>2. Append(s, c) \in Seq(Symbols)
    BY <1>1, <2>1, AppendProperties
  <2> QED
    BY <2>2 DEF s
<1>3. r \in {m, [state |-> "inTag", dst |-> a], [state |-> "inText", dst |-> a]}
  <2> HIDE DEF a, c
  <2>1. CASE m.state = "outSide"
    <3>1. r = IF c \in Blanks THEN m ELSE [state |-> "inTag", dst |-> a]
      BY <2>1 DEF CompressChar, a, c
    <3> QED
      BY <3>1
  <2>2. CASE m.state = "inTag"
    <3>1. r = [state |-> IF c = ">" /\ i < Len(src) /\ src[i + 1] # "<" THEN "inText" ELSE "inTag", dst |-> a]
      BY <2>2 DEF CompressChar, a, c
    <3> QED
      BY <3>1
  <2>3. CASE m.state = "inText"
    <3>1. r = IF c = "<" THEN [state |-> "inTag", dst |-> a]
              ELSE IF Last(m.dst) = ">" /\ c \in Blanks THEN m ELSE [state |-> "inText", dst |-> a]
      BY <2>3 DEF CompressChar, a, c
    <3> QED
      BY <3>1
  <2> QED
    BY <1>1, <2>1, <2>2, <2>3
<1>4. \A s \in {"inTag", "inText"} : [state |-> s, dst |-> a] \in Machines
  BY <1>2 DEF Machines, Texts
<1> HIDE DEF a, r
<1>5. r \in Machines
  BY <1>3, <1>4
<1> QED
  BY <1>5 DEF r

\* compress.
LEMMA CompressIs ==
  ASSUME NEW src \in Texts
  PROVE  Compress(src) \in Texts
<1> DEFINE D == (1..(Len(src) + 1)) \X Machines
           P == {x \in D : ~(x[1] > Len(src))}
           g == [x \in D |-> <<x[1] + 1, CompressChar(src, x[2], x[1])>>]
           h == [x \in D |-> x[2]]
           f == CHOOSE from : from = [x \in (1..(Len(src) + 1)) \X Machines |->
                  IF x[1] > Len(src) THEN x[2] ELSE from[<<x[1] + 1, CompressChar(src, x[2], x[1])>>]]
           x0 == <<1, [state |-> "outSide", dst |-> <<>>]>>
<1>1. Len(src) \in Nat
  BY LenProperties DEF Texts
<1>2. Compress(src) = f[x0].dst
  BY DEF Compress
<1>3. \A x \in D : x[1] \in 1..(Len(src) + 1) /\ x[2] \in Machines
  OBVIOUS
<1>4. ASSUME NEW x \in P PROVE g[x] \in D /\ g[x][1] = x[1] + 1
  <2>1. x \in D /\ ~(x[1] > Len(src))
    OBVIOUS
  <2>2. x[1] \in 1..Len(src) /\ x[1] + 1 \in 1..(Len(src) + 1)
    <3>1. \A i \in 1..(Len(src) + 1) : ~(i > Len(src)) => i \in 1..Len(src) /\ i + 1 \in 1..(Len(src) + 1)
      BY <1>1
    <3> QED
      BY <1>3, <2>1, <3>1
  <2>3. CompressChar(src, x[2], x[1]) \in Machines
    BY <1>3, <2>1, <2>2, CompressCharIs
  <2>4. g[x] = <<x[1] + 1, CompressChar(src, x[2], x[1])>>
    BY <2>1
  <2>5. \A a \in 1..(Len(src) + 1), b \in Machines : <<a, b>> \in D
    OBVIOUS
  <2> HIDE DEF g, D, P
  <2> QED
    BY <2>2, <2>3, <2>4, <2>5
<1>5. \A e : [x \in D |-> IF x \in P THEN e[g[x]] ELSE h[x]]
               = [x \in (1..(Len(src) + 1)) \X Machines |->
                    IF x[1] > Len(src) THEN x[2] ELSE e[<<x[1] + 1, CompressChar(src, x[2], x[1])>>]]
  OBVIOUS
<1>6. P \in SUBSET D
  OBVIOUS
<1>7. \A x \in D : x \notin P => h[x] \in Machines
  OBVIOUS
<1> HIDE DEF P, g, h
<1>8. PICK e : Loop(e, D, P, g, h)
  <2> HIDE DEF D
  <2> QED
    BY <1>4, <1>6, Loops
<1>9. e = [x \in (1..(Len(src) + 1)) \X Machines |->
             IF x[1] > Len(src) THEN x[2] ELSE e[<<x[1] + 1, CompressChar(src, x[2], x[1])>>]]
  BY <1>5, <1>8 DEF Loop
<1>10. f = [x \in (1..(Len(src) + 1)) \X Machines |->
              IF x[1] > Len(src) THEN x[2] ELSE f[<<x[1] + 1, CompressChar(src, x[2], x[1])>>]]
  BY <1>9
<1> HIDE DEF f
<1>11. f = [x \in D |-> IF x \in P THEN f[g[x]] ELSE h[x]]
  BY <1>5, <1>10
<1> DEFINE Q == {x \in D : f[x] \in Machines}
           size == [x \in D |-> Len(src) + 1 - x[1]]
<1>12. \A x \in D : size[x] = Len(src) + 1 - x[1] /\ size[x] \in Nat
  <2>1. \A i \in 1..(Len(src) + 1) : Len(src) + 1 - i \in Nat
    BY <1>1
  <2> QED
    BY <1>3, <2>1
<1>13. ASSUME NEW x \in D, \A z \in D : size[z] < size[x] => z \in Q PROVE x \in Q
  <2>1. CASE x \notin P
    BY <1>7, <1>11, <2>1
  <2>2. CASE x \in P
    <3>1. f[x] = f[g[x]] /\ g[x] \in D /\ g[x][1] = x[1] + 1
      BY <1>4, <1>11, <2>2
    <3>2. size[g[x]] < size[x]
      <4>1. \A i, j \in 1..(Len(src) + 1) : j = i + 1 => Len(src) + 1 - j < Len(src) + 1 - i
        BY <1>1
      <4> HIDE DEF size
      <4> QED
        BY <1>3, <1>12, <3>1, <4>1
    <3> QED
      BY <1>13, <3>1, <3>2
  <2> QED
    BY <2>1, <2>2
<1>14. Q \in SUBSET D
  OBVIOUS
<1> HIDE DEF size, Q
<1>15. Q = D
  <2> HIDE DEF D
  <2>1. ByLess(D, size, Q)
    BY <1>12, <1>13 DEF ByLess
  <2> QED
    BY <1>14, <2>1, AllByLess
<1>16. x0 \in D
  <2>1. [state |-> "outSide", dst |-> <<>>] \in Machines
    BY DEF Machines, Texts
  <2>2. 1 \in 1..(Len(src) + 1)
    BY <1>1
  <2> QED
    BY <2>1, <2>2
<1>17. f[x0] \in Machines
  BY <1>15, <1>16 DEF Q
<1> QED
  BY <1>2, <1>17 DEF Machines

\* What a list of texts is flattened to.
LEMMA FlatIs ==
  ASSUME NEW S, NEW a \in Seq(Seq(S))
  PROVE  FlattenSeq(a) \in Seq(S)
<1>1. Len(a) \in Nat /\ \A i \in 1..Len(a) : a[i] \in Seq(S)
  BY LenProperties, ElementOfSeq
<1>2. CASE a = <<>>
  BY <1>2 DEF FlattenSeq
<1>3. CASE a # <<>>
  <2>1. PICK g : /\ g[1] = a[1]
                 /\ \A n \in 2..Len(a) : g[n] = g[n - 1] \o a[n]
                 /\ FlattenSeq(a) = g[Len(a)]
    BY <1>3, FlatSteps, Zenon
  <2>2. Len(a) >= 1
    BY <1>3, EmptySeq
  <2> DEFINE N == {n \in Nat : n + 1 <= Len(a) => g[n + 1] \in Seq(S)}
  <2>3. 0 \in N
    <3>1. 1 \in 1..Len(a) /\ a[1] \in Seq(S)
      BY <1>1, <2>2
    <3> QED
      BY <2>1, <3>1
  <2>4. ASSUME NEW n \in N PROVE n + 1 \in N
    <3>0. n \in Nat /\ n + 1 \in Nat
      OBVIOUS
    <3>1. SUFFICES ASSUME (n + 1) + 1 <= Len(a) PROVE g[(n + 1) + 1] \in Seq(S)
      BY <3>0
    <3> DEFINE m == n + 1
    <3>2. m \in Nat /\ m + 1 \in 2..Len(a) /\ m + 1 \in 1..Len(a) /\ (m + 1) - 1 = m /\ m <= Len(a)
      BY <1>1, <3>0, <3>1
    <3>3. g[m] \in Seq(S)
      BY <3>2
    <3>4. g[m + 1] = g[m] \o a[m + 1] /\ a[m + 1] \in Seq(S)
      BY <1>1, <2>1, <3>2
    <3> HIDE DEF m
    <3>5. g[m] \o a[m + 1] \in Seq(S)
      BY <3>3, <3>4, ConcatProperties
    <3> QED
      BY <3>4, <3>5 DEF m
  <2>5. N \in SUBSET Nat
    OBVIOUS
  <2> HIDE DEF N
  <2>6. N = Nat
    BY <2>3, <2>4, <2>5, AllNumbers
  <2>7. Len(a) - 1 \in N /\ (Len(a) - 1) + 1 = Len(a) /\ (Len(a) - 1) + 1 <= Len(a)
    BY <1>1, <2>2, <2>6
  <2> QED
    BY <2>1, <2>7 DEF N
<1> QED
  BY <1>2, <1>3

\* enquoteText.
LEMMA EnquoteTextIs ==
  ASSUME NEW src \in Texts
  PROVE  EnquoteText(src) \in Texts
<1> DEFINE n == Len(src) - 1
           a == [i \in 1..n |-> Enquoted(src, i + 1)]
<1>1. Len(src) \in Nat /\ \A i \in 1..Len(src) : src[i] \in Symbols
  BY LenProperties, ElementOfSeq DEF Texts
<1>2. At(src, 1) \in Symbols
  <2>1. 1 <= Len(src) => 1 \in 1..Len(src)
    BY <1>1
  <2> QED
    BY <1>1, <2>1, MarksAre DEF At
<1>3. ASSUME NEW i \in 1..n PROVE Enquoted(src, i + 1) \in Seq(Symbols)
  <2>1. src[i + 1] \in Symbols
    <3>1. i + 1 \in 1..Len(src)
      BY <1>1
    <3> QED
      BY <1>1, <3>1
  <2>2. "\"" \in Symbols
    BY MarksAre DEF Marks
  <2> DEFINE c == src[i + 1]
             b == (IF src[i + 1] = ">" /\ At(src, (i + 1) + 1) # "<" /\ i + 1 < Len(src) THEN <<"\"">> ELSE <<>>)
             d == (IF At(src, (i + 1) + 1) = "<" /\ src[i + 1] # ">" THEN <<"\"">> ELSE <<>>)
  <2>3. Enquoted(src, i + 1) = <<c>> \o b \o d
    BY DEF Enquoted
  <2>4. \A s \in Symbols : <<s>> \in Seq(Symbols) /\ <<>> \in Seq(Symbols)
    OBVIOUS
  <2>5. <<c>> \in Seq(Symbols) /\ b \in Seq(Symbols) /\ d \in Seq(Symbols)
    BY <2>1, <2>2, <2>4
  <2> HIDE DEF b, c, d
  <2>6. <<c>> \o b \in Seq(Symbols)
    BY <2>5, ConcatProperties
  <2>7. (<<c>> \o b) \o d \in Seq(Symbols)
    BY <2>5, <2>6, ConcatProperties
  <2> QED
    BY <2>3, <2>7
<1>4. a \in Seq(Seq(Symbols))
  <2>1. CASE n \in Nat
    BY <1>3, <2>1
  <2>2. CASE n \notin Nat
    <3>1. Len(src) = 0
      BY <1>1, <2>2
    <3>2. n = -1 /\ 1..n = {}
      BY <3>1
    <3>3. a = <<>>
      BY <3>2
    <3>4. <<>> \in Seq(Seq(Symbols))
      OBVIOUS
    <3> HIDE DEF a
    <3> QED
      BY <3>3, <3>4
  <2> QED
    BY <2>1, <2>2
<1>5. EnquoteText(src) = <<At(src, 1)>> \o FlattenSeq(a)
  BY DEF EnquoteText
<1> HIDE DEF a, n
<1>6. FlattenSeq(a) \in Seq(Symbols)
  BY <1>4, FlatIs
<1>7. <<At(src, 1)>> \in Seq(Symbols)
  <2>1. \A s \in Symbols : <<s>> \in Seq(Symbols)
    OBVIOUS
  <2> QED
    BY <1>2, <2>1
<1> QED
  BY <1>5, <1>6, <1>7, ConcatProperties DEF Texts

------------------------------------------------------------------------------
(* Elements.                                                                 *)

DocumentIs(es) ==
  /\ \A i \in DOMAIN es : IF es[i].d = 1 THEN es[i].kind # "text" ELSE es[i].d > 1 /\ InTag(es, i)
  /\ \A i, j \in DOMAIN es :
       es[i].d = 1 /\ es[j].d = 1 /\ es[i].kind = "tag" /\ es[j].kind = "tag" => i = j

\* Element j is an open tag at depth n - 1: all that follows is below it.
OpenAt(es, n, j) == /\ es[j].kind = "tag" /\ es[j].d = n - 1
                    /\ \A k \in j..Len(es) : k # j => es[k].d >= n

\* A member of the stack that is part of the document is an open tag.
Nested(es, st) ==
  /\ \E S : es \in Seq(S)
  /\ st \in Seq(BOOLEAN)
  /\ DocumentIs(es)
  /\ \A n \in 2..Len(st) : st[n] => \E j \in DOMAIN es : OpenAt(es, n, j)

\* Adding to the top of the stack, and pushing the added tag.
LEMMA NestedAdds ==
  ASSUME NEW es, NEW st, Nested(es, st), st # <<>>, Last(st),
         NEW kind, Len(st) > 1 \/ DocAccepts(es, kind),
         NEW e, e.d = Len(st), e.kind = kind
  PROVE  /\ Nested(Append(es, e), st)
         /\ kind = "tag" => Nested(Append(es, e), Append(st, TRUE))
<1> DEFINE fs == Append(es, e)
           m == Len(st)
           l == Len(es)
<1>1. PICK S : es \in Seq(S)
  BY DEF Nested
<1>2. l \in Nat /\ DOMAIN es = 1..l
  BY <1>1, LenProperties
<1>3. fs \in Seq(S \cup {e}) /\ Len(fs) = l + 1 /\ fs[l + 1] = e
      /\ \A i \in 1..l : fs[i] = es[i]
  <2>1. es \in Seq(S \cup {e})
    BY <1>1
  <2>2. e \in S \cup {e}
    OBVIOUS
  <2> QED
    BY <2>1, <2>2, AppendProperties
<1>4. DOMAIN fs = 1..(l + 1)
  BY <1>3, LenProperties
<1>5. st \in Seq(BOOLEAN) /\ m \in Nat /\ m >= 1 /\ st[m]
  <2>1. st \in Seq(BOOLEAN)
    BY DEF Nested
  <2>2. m \in Nat /\ m > 0 /\ Last(st) = st[m]
    BY <2>1, EndsOf
  <2>3. st[m]
    BY <2>2, Zenon
  <2>4. \A n \in Nat : n > 0 => n >= 1
    OBVIOUS
  <2> QED
    BY <2>1, <2>2, <2>3, <2>4, Zenon
<1>6. DocumentIs(es) /\ \A n \in 2..m : st[n] => \E j \in DOMAIN es : OpenAt(es, n, j)
  BY DEF Nested
<1> HIDE DEF fs, m, l
<1>7. \A i \in 1..l : i \in 1..(l + 1) /\ l + 1 \in 1..(l + 1) /\ i # l + 1 /\ i < l + 1
  BY <1>2
<1>8. \A i \in 1..(l + 1) : i \in 1..l \/ i = l + 1
  BY <1>2
<1>9. ASSUME NEW n \in 2..m, st[n] PROVE \E j \in DOMAIN es : OpenAt(es, n, j) /\ OpenAt(fs, n, j)
  <2>1. PICK j \in DOMAIN es : OpenAt(es, n, j)
    BY <1>6, <1>9
  <2>2. fs[j].kind = "tag" /\ fs[j].d = n - 1
    BY <1>2, <1>3, <2>1 DEF OpenAt
  <2>3. ASSUME NEW k \in j..(l + 1), k # j PROVE fs[k].d >= n
    <3>1. CASE k = l + 1
      <4>1. fs[k].d = m /\ m >= n
        BY <1>3, <1>5, <3>1 DEF m
      <4> QED
        BY <4>1
    <3>2. CASE k # l + 1
      <4>1. k \in j..l /\ k \in 1..l
        BY <1>2, <2>3, <3>2
      <4>2. es[k].d >= n /\ fs[k] = es[k]
        BY <1>3, <2>1, <2>3, <4>1 DEF OpenAt, l
      <4> QED
        BY <4>2
    <3> QED
      BY <3>1, <3>2
  <2>4. OpenAt(fs, n, j)
    BY <1>3, <2>2, <2>3 DEF OpenAt
  <2> QED
    BY <2>1, <2>4
<1>10. ASSUME NEW i \in 1..l, InTag(es, i) PROVE InTag(fs, i)
  <2>1. PICK j \in 1..(i - 1) : /\ es[j].kind = "tag" /\ es[j].d = es[i].d - 1
                                /\ \A k \in j..i : k # j => es[k].d >= es[i].d
    BY <1>10 DEF InTag
  <2>2. j \in 1..l /\ \A k \in j..i : k \in 1..l
    BY <1>2
  <2>3. fs[j] = es[j] /\ fs[i] = es[i] /\ \A k \in j..i : fs[k] = es[k]
    BY <1>3, <2>2
  <2> QED
    BY <2>1, <2>3, Zenon DEF InTag
<1>11. ASSUME m > 1 PROVE InTag(fs, l + 1)
  <2>1. m \in 2..m
    BY <1>5, <1>11
  <2>2. PICK j \in DOMAIN es : OpenAt(fs, m, j)
    BY <1>5, <1>9, <2>1
  <2>3. j \in 1..((l + 1) - 1)
    BY <1>2
  <2>4. fs[l + 1].d = m
    BY <1>3 DEF m
  <2>5. fs[j].kind = "tag" /\ fs[j].d = fs[l + 1].d - 1 /\ \A k \in j..(l + 1) : k # j => fs[k].d >= fs[l + 1].d
    BY <1>3, <2>2, <2>4 DEF OpenAt
  <2> QED
    BY <2>3, <2>5 DEF InTag
<1>12. ASSUME NEW i \in 1..(l + 1)
       PROVE  IF fs[i].d = 1 THEN fs[i].kind # "text" ELSE fs[i].d > 1 /\ InTag(fs, i)
  <2>1. CASE i \in 1..l
    <3>1. fs[i] = es[i]
      BY <1>3, <2>1
    <3>2. IF es[i].d = 1 THEN es[i].kind # "text" ELSE es[i].d > 1 /\ InTag(es, i)
      BY <1>2, <1>6, <2>1 DEF DocumentIs
    <3> QED
      BY <1>10, <2>1, <3>1, <3>2
  <2>2. CASE i = l + 1
    <3>1. fs[i].d = m /\ fs[i].kind = kind
      BY <1>3, <2>2 DEF m
    <3>2. CASE m > 1
      BY <1>5, <1>11, <2>2, <3>1, <3>2
    <3>3. CASE ~(m > 1)
      <4>1. m = 1
        BY <1>5, <3>3
      <4>2. kind # "text"
        BY <3>3 DEF DocAccepts, m
      <4> QED
        BY <3>1, <4>1, <4>2
    <3> QED
      BY <3>2, <3>3
  <2> QED
    BY <1>8, <2>1, <2>2
<1>13. ASSUME NEW i \in 1..(l + 1), NEW j \in 1..(l + 1),
              fs[i].d = 1, fs[j].d = 1, fs[i].kind = "tag", fs[j].kind = "tag"
       PROVE  i = j
  <2>1. ASSUME NEW k \in 1..l, fs[k].d = 1, fs[k].kind = "tag", fs[l + 1].d = 1, fs[l + 1].kind = "tag"
        PROVE  FALSE
    <3>1. m = 1 /\ kind = "tag"
      BY <1>3, <2>1 DEF m
    <3>2. DocAccepts(es, kind)
      <4>1. ~(m > 1)
        BY <3>1
      <4> QED
        BY <4>1 DEF m
    <3>3. ~(es[k].d = 1 /\ es[k].kind = "tag")
      BY <1>2, <3>1, <3>2 DEF DocAccepts
    <3> QED
      BY <1>3, <2>1, <3>3
  <2>2. CASE i \in 1..l /\ j \in 1..l
    <3>1. fs[i] = es[i] /\ fs[j] = es[j] /\ i \in DOMAIN es /\ j \in DOMAIN es
      BY <1>2, <1>3, <2>2
    <3> QED
      BY <1>6, <1>13, <3>1 DEF DocumentIs
  <2>3. CASE i \in 1..l /\ j = l + 1
    BY <1>13, <2>1, <2>3
  <2>4. CASE i = l + 1 /\ j \in 1..l
    BY <1>13, <2>1, <2>4
  <2>5. CASE i = l + 1 /\ j = l + 1
    BY <2>5
  <2> QED
    BY <1>8, <2>2, <2>3, <2>4, <2>5
<1>14. DocumentIs(fs)
  BY <1>4, <1>12, <1>13 DEF DocumentIs
<1>15. \A n \in 2..m : st[n] => \E j \in DOMAIN fs : OpenAt(fs, n, j)
  BY <1>2, <1>4, <1>7, <1>9
<1>16. Nested(fs, st)
  BY <1>3, <1>5, <1>14, <1>15 DEF Nested, m
<1>17. ASSUME kind = "tag" PROVE Nested(fs, Append(st, TRUE))
  <2> DEFINE su == Append(st, TRUE)
  <2>1. su \in Seq(BOOLEAN) /\ Len(su) = m + 1 /\ su[m + 1] = TRUE /\ \A n \in 1..m : su[n] = st[n]
    BY <1>5, AppendProperties DEF m
  <2> HIDE DEF su
  <2>2. ASSUME NEW n \in 2..(m + 1), su[n] PROVE \E j \in DOMAIN fs : OpenAt(fs, n, j)
    <3>1. CASE n = m + 1
      <4>1. fs[l + 1].kind = "tag" /\ fs[l + 1].d = m
        BY <1>3, <1>17 DEF m
      <4>2. n - 1 = m
        BY <1>5, <3>1
      <4>3. \A k \in (l + 1)..(l + 1) : k = l + 1
        BY <1>2
      <4>4. OpenAt(fs, n, l + 1)
        BY <1>3, <4>1, <4>2, <4>3 DEF OpenAt
      <4>5. l + 1 \in DOMAIN fs
        BY <1>2, <1>4
      <4> QED
        BY <4>4, <4>5
    <3>2. CASE n # m + 1
      <4>1. n \in 2..m /\ n \in 1..m
        BY <1>5, <3>2
      <4>2. st[n]
        BY <2>1, <2>2, <4>1
      <4> QED
        BY <1>15, <4>1, <4>2
    <3> QED
      BY <3>1, <3>2
  <2>3. Nested(fs, su)
    BY <1>3, <1>14, <2>1, <2>2 DEF Nested
  <2> QED
    BY <2>3 DEF su
<1> QED
  BY <1>16, <1>17 DEF fs

\* Pushing a tag that was refused, and popping.
LEMMA NestedMoves ==
  ASSUME NEW es, NEW st, Nested(es, st), st # <<>>
  PROVE  Nested(es, Append(st, FALSE)) /\ Nested(es, Front(st))
<1> DEFINE m == Len(st)
           su == Append(st, FALSE)
           sv == Front(st)
<1>1. st \in Seq(BOOLEAN) /\ (\E S : es \in Seq(S)) /\ DocumentIs(es)
      /\ \A n \in 2..m : st[n] => \E j \in DOMAIN es : OpenAt(es, n, j)
  BY DEF Nested
<1>2. m \in Nat /\ m > 0 /\ sv \in Seq(BOOLEAN) /\ Len(sv) = m - 1
  BY <1>1, EndsOf
<1>3. su \in Seq(BOOLEAN) /\ Len(su) = m + 1 /\ su[m + 1] = FALSE /\ \A n \in 1..m : su[n] = st[n]
  BY <1>1, AppendProperties
<1>4. \A n \in 1..(m - 1) : sv[n] = st[n]
  <2>1. Len(st) - 1 \in Nat
    BY <1>2
  <2>2. \A n \in 1..(Len(st) - 1) : st[n] \in BOOLEAN
    BY <1>1, <1>2, ElementOfSeq
  <2>3. \A n \in 1..(Len(st) - 1) : SubSeq(st, 1, Len(st) - 1)[n] = st[1 + n - 1]
    BY <2>1, <2>2, SubSeqProperties
  <2>4. \A n \in 1..(Len(st) - 1) : 1 + n - 1 = n
    BY <2>1
  <2> QED
    BY <2>3, <2>4 DEF Front
<1> HIDE DEF m, su, sv
<1>5. Nested(es, su)
  <2>1. ASSUME NEW n \in 2..(m + 1), su[n] PROVE \E j \in DOMAIN es : OpenAt(es, n, j)
    <3>1. n # m + 1
      BY <1>3, <2>1
    <3>2. n \in 2..m /\ n \in 1..m
      BY <1>2, <3>1
    <3>3. st[n]
      BY <1>3, <2>1, <3>2
    <3> QED
      BY <1>1, <3>2, <3>3
  <2> QED
    BY <1>1, <1>3, <2>1 DEF Nested
<1>6. Nested(es, sv)
  <2>1. ASSUME NEW n \in 2..(m - 1), sv[n] PROVE \E j \in DOMAIN es : OpenAt(es, n, j)
    <3>1. n \in 2..m /\ n \in 1..(m - 1)
      BY <1>2
    <3>2. st[n]
      BY <1>4, <2>1, <3>1
    <3> QED
      BY <1>1, <3>1, <3>2
  <2> QED
    BY <1>1, <1>2, <2>1 DEF Nested
<1> QED
  BY <1>5, <1>6 DEF su, sv

\* What one round does to the elements and the stack: nothing, a pop, or an
\* element added to the top, which is then pushed if it is a tag; a tag that was
\* refused is pushed as well.
Grows(es, st, fs, su) ==
  \/ fs = es /\ su = st
  \/ st # <<>> /\ fs = es /\ su \in {Front(st), Append(st, FALSE)}
  \/ \E kind, e : /\ st # <<>> /\ Last(st) /\ (Len(st) > 1 \/ DocAccepts(es, kind))
                  /\ e.d = Len(st) /\ e.kind = kind /\ fs = Append(es, e)
                  /\ su = st \/ (kind = "tag" /\ su = Append(st, TRUE))

LEMMA GrowsNested ==
  ASSUME NEW es, NEW st, Nested(es, st), NEW fs, NEW su, Grows(es, st, fs, su)
  PROVE  Nested(fs, su)
<1>1. CASE fs = es /\ su = st
  BY <1>1
<1>2. CASE st # <<>> /\ fs = es /\ su \in {Front(st), Append(st, FALSE)}
  <2>1. Nested(es, Append(st, FALSE)) /\ Nested(es, Front(st))
    BY <1>2, NestedMoves
  <2> QED
    BY <1>2, <2>1
<1>3. ASSUME NEW kind, NEW e, st # <<>>, Last(st), Len(st) > 1 \/ DocAccepts(es, kind),
             e.d = Len(st), e.kind = kind, fs = Append(es, e),
             su = st \/ (kind = "tag" /\ su = Append(st, TRUE))
      PROVE  Nested(fs, su)
  <2>1. /\ Nested(Append(es, e), st)
        /\ kind = "tag" => Nested(Append(es, e), Append(st, TRUE))
    BY <1>3, NestedAdds, Zenon
  <2> QED
    BY <1>3, <2>1, Zenon
<1> QED
  BY <1>1, <1>2, <1>3, Zenon DEF Grows

IsParse(b) == b = [elems |-> b.elems, stack |-> b.stack, t |-> b.t, error |-> b.error]
Steps(b, c) == IsParse(c) /\ c.t = b.t /\ Grows(b.elems, b.stack, c.elems, c.stack)

\* Nothing but an exception.
LEMMA ThrowIs ==
  ASSUME NEW b, IsParse(b), NEW what
  PROVE  Steps(b, Throw(b, what))
<1> DEFINE c == Throw(b, what)
<1>1. c = [elems |-> b.elems, stack |-> b.stack, t |-> b.t, error |-> what]
  BY DEF Throw, IsParse
<1> HIDE DEF c
<1>2. c.elems = b.elems /\ c.stack = b.stack /\ c.t = b.t /\ c.error = what
  BY <1>1
<1>3. IsParse(c)
  BY <1>1, <1>2 DEF IsParse
<1> QED
  BY <1>2, <1>3 DEF Steps, Grows, c

\* c is b with an element e of that kind, if the top accepts it.
Adds(b, kind, e, c) ==
  /\ Steps(b, c)
  /\ IF b.stack = <<>> THEN c.error # ""
     ELSE c.stack = b.stack /\ c.elems = IF Accepted(b, kind) THEN Append(b.elems, e) ELSE b.elems

\* addChild on the top of the stack.
LEMMA AddIs ==
  ASSUME NEW b, IsParse(b), NEW kind, NEW name, NEW pairs, NEW text
  PROVE  Adds(b, kind, ElementAt(Len(b.stack), kind, name, pairs, text),
              AddToTop(b, kind, name, pairs, text))
<1> DEFINE c == AddToTop(b, kind, name, pairs, text)
           e == ElementAt(Len(b.stack), kind, name, pairs, text)
<1>1. CASE b.stack = <<>>
  <2>1. c = Throw(b, "empty stack")
    BY <1>1 DEF AddToTop
  <2>2. Throw(b, "empty stack").error = "empty stack"
    BY DEF Throw, IsParse
  <2>3. Steps(b, Throw(b, "empty stack"))
    BY ThrowIs
  <2> QED
    BY <1>1, <2>1, <2>2, <2>3 DEF Adds
<1>2. CASE b.stack # <<>> /\ ~Accepted(b, kind)
  <2>1. c = b
    BY <1>2 DEF AddToTop
  <2>2. Steps(b, b)
    BY DEF Steps, Grows
  <2> QED
    BY <1>2, <2>1, <2>2 DEF Adds
<1>3. CASE b.stack # <<>> /\ Accepted(b, kind)
  <2>1. c = [b EXCEPT !.elems = Append(b.elems, e)]
    BY <1>3 DEF AddToTop
  <2>2. e.d = Len(b.stack) /\ e.kind = kind
    BY DEF ElementAt
  <2> HIDE DEF e
  <2>3. c = [elems |-> Append(b.elems, e), stack |-> b.stack, t |-> b.t, error |-> b.error]
    BY <2>1 DEF IsParse
  <2> HIDE DEF c
  <2>4. c.elems = Append(b.elems, e) /\ c.stack = b.stack /\ c.t = b.t /\ c.error = b.error
    BY <2>3
  <2>5. IsParse(c)
    BY <2>3, <2>4 DEF IsParse
  <2>6. Last(b.stack) /\ (Len(b.stack) > 1 \/ DocAccepts(b.elems, kind))
    BY <1>3, Zenon DEF Accepted
  <2>7. Grows(b.elems, b.stack, c.elems, c.stack)
    BY <1>3, <2>2, <2>4, <2>6, Zenon DEF Grows
  <2>8. Steps(b, c)
    BY <2>4, <2>5, <2>7 DEF Steps
  <2> QED
    BY <1>3, <2>4, <2>8, Zenon DEF c, e, Adds
<1> QED
  BY <1>1, <1>2, <1>3

\* A tag: pushed, whether it was accepted or not.
LEMMA TaggedIs ==
  ASSUME NEW b, IsParse(b), b.stack = <<>> \/ Accepted(b, "tag") \in BOOLEAN, NEW toks
  PROVE  Steps(b, ProcessTagged(b, toks))
<1> DEFINE name == toks[2]
           pairs == ExtractAttributes(toks)
           a == AddToTop(b, "tag", name, pairs, <<>>)
           ok == Accepted(b, "tag")
           c == ProcessTagged(b, toks)
           e == ElementAt(Len(b.stack), "tag", name, pairs, <<>>)
<1>1. /\ Steps(b, a)
      /\ IF b.stack = <<>> THEN a.error # ""
         ELSE /\ a.stack = b.stack
              /\ a.elems = IF ok THEN Append(b.elems, e) ELSE b.elems
  <2>1. Adds(b, "tag", e, a)
    BY AddIs, Zenon
  <2> HIDE DEF a, e
  <2> QED
    BY <2>1, Zenon DEF Adds
<1>2. c = IF AttribOutOfRange(toks) THEN Throw(b, OutOfRange)
          ELSE IF a.error # "" THEN a ELSE [a EXCEPT !.stack = Append(a.stack, ok)]
  BY DEF ProcessTagged
<1>3. Steps(b, Throw(b, OutOfRange))
  BY ThrowIs
<1>4. e.d = Len(b.stack) /\ e.kind = "tag"
  BY DEF ElementAt
<1> HIDE DEF a, ok, c, e
<1>5. ASSUME b.stack # <<>>, c = [a EXCEPT !.stack = Append(a.stack, ok)]
      PROVE  Steps(b, c)
  <2>1. IsParse(a) /\ a.t = b.t
    BY <1>1 DEF Steps
  <2>2. c = [elems |-> a.elems, stack |-> Append(a.stack, ok), t |-> a.t, error |-> a.error]
    BY <1>5, <2>1 DEF IsParse
  <2>3. c.elems = a.elems /\ c.stack = Append(a.stack, ok) /\ c.t = a.t /\ c.error = a.error
    BY <2>2
  <2>4. IsParse(c)
    BY <2>2, <2>3 DEF IsParse
  <2>5. ok \in BOOLEAN
    BY <1>5 DEF ok
  <2>6. CASE ok
    <3>1. Last(b.stack) /\ (Len(b.stack) > 1 \/ DocAccepts(b.elems, "tag"))
      BY <2>6, Zenon DEF ok, Accepted
    <3>2. c.elems = Append(b.elems, e)
      BY <1>1, <1>5, <2>3, <2>6, Zenon
    <3>3. c.stack = Append(b.stack, TRUE)
      <4>1. ok = TRUE
        BY <2>6
      <4> QED
        BY <1>1, <1>5, <2>3, <4>1
    <3>4. Grows(b.elems, b.stack, c.elems, c.stack)
      BY <1>4, <1>5, <3>1, <3>2, <3>3, Zenon DEF Grows
    <3> QED
      BY <2>1, <2>3, <2>4, <3>4 DEF Steps
  <2>7. CASE ~ok
    <3>1. c.elems = b.elems
      BY <1>1, <1>5, <2>3, <2>7, Zenon
    <3>2. c.stack = Append(b.stack, FALSE)
      <4>1. ok = FALSE
        BY <2>5, <2>7
      <4> QED
        BY <1>1, <1>5, <2>3, <4>1
    <3>3. Grows(b.elems, b.stack, c.elems, c.stack)
      BY <1>5, <3>1, <3>2 DEF Grows
    <3> QED
      BY <2>1, <2>3, <2>4, <3>3 DEF Steps
  <2> QED
    BY <2>6, <2>7
<1>6. Steps(b, c)
  BY <1>1, <1>2, <1>3, <1>5, Zenon
<1> QED
  BY <1>6 DEF c

\* One round of buildDocument.
LEMMA ProcessPartsIs ==
  ASSUME NEW b, IsParse(b), b.stack \in Seq(BOOLEAN), NEW toks
  PROVE  Steps(b, ProcessParts(b, toks))
<1>1. \A what : Steps(b, Throw(b, what))
  BY ThrowIs
<1>2. \A kind, name, pairs, text : Steps(b, AddToTop(b, kind, name, pairs, text))
  BY AddIs, Zenon DEF Adds
<1>3. Steps(b, ProcessTagged(b, toks))
  <2>1. b.stack = <<>> \/ Accepted(b, "tag") \in BOOLEAN
    BY DEF Accepted, DocAccepts
  <2> QED
    BY <2>1, TaggedIs
<1>4. Steps(b, ProcessInstruction(b, toks))
  BY <1>1, <1>2, Zenon DEF ProcessInstruction
<1>5. Steps(b, ProcessText(b, toks))
  BY <1>2, Zenon DEF ProcessText
<1>6. ASSUME b.stack # <<>> PROVE Steps(b, [b EXCEPT !.stack = Front(b.stack)])
  <2> DEFINE c == [b EXCEPT !.stack = Front(b.stack)]
  <2>1. c = [elems |-> b.elems, stack |-> Front(b.stack), t |-> b.t, error |-> b.error]
    BY DEF IsParse
  <2> HIDE DEF c
  <2>2. c.elems = b.elems /\ c.stack = Front(b.stack) /\ c.t = b.t /\ c.error = b.error
    BY <2>1
  <2>3. IsParse(c)
    BY <2>1, <2>2 DEF IsParse
  <2>4. Grows(b.elems, b.stack, c.elems, c.stack)
    BY <1>6, <2>2 DEF Grows
  <2>5. Steps(b, c)
    BY <2>2, <2>3, <2>4 DEF Steps
  <2> QED
    BY <2>5 DEF c
<1>7. Steps(b, ProcessMarkup(b, toks))
  <2> DEFINE c == ProcessMarkup(b, toks)
             i == ProcessInstruction(b, toks)
             a == AddToTop(b, "comment", <<>>, <<>>, CommentText(toks))
             p == IF b.stack = <<>> THEN Throw(b, "empty stack") ELSE [b EXCEPT !.stack = Front(b.stack)]
             g == ProcessTagged(b, toks)
  <2>1. <<"?">> # <<"!">> /\ <<"?">> # <<"/">> /\ <<"!">> # <<"/">>
    OBVIOUS
  <2>2. Len(toks) < 2 => c = Throw(b, OutOfRange)
    BY DEF ProcessMarkup
  <2>3. ~(Len(toks) < 2) => c = CASE toks[2] = <<"?">> -> i
                                  [] toks[2] = <<"!">> -> a
                                  [] toks[2] = <<"/">> -> p
                                  [] OTHER -> g
    BY DEF ProcessMarkup
  <2>4. Steps(b, i) /\ Steps(b, a) /\ Steps(b, g)
    BY <1>2, <1>3, <1>4, Zenon
  <2>5. Steps(b, p)
    BY <1>1, <1>6, Zenon
  <2> HIDE DEF c, i, a, p, g
  <2>6. Steps(b, c)
    BY <1>1, <2>1, <2>2, <2>3, <2>4, <2>5
  <2> QED
    BY <2>6 DEF c
<1> QED
  BY <1>1, <1>5, <1>7 DEF ProcessParts

------------------------------------------------------------------------------
(* The parser.                                                               *)

ParserInv ==
  /\ IsParse(parse) /\ parse.t \in Tokers /\ Orderly(parse.t)
  /\ Nested(parse.elems, parse.stack)

\* Every text opens in order.
LEMMA OpenedIs ==
  ASSUME NEW text \in Texts
  PROVE  LET b == Opened(text)
         IN IsParse(b) /\ b.t \in Tokers /\ Orderly(b.t) /\ Nested(b.elems, b.stack)
<1> DEFINE src == EnquoteText(Compress(text))
           t == Toker(src)
           b == Opened(text)
<1>1. src \in Texts
  BY CompressIs, EnquoteTextIs
<1> HIDE DEF src
<1>2. t = [in |-> src, putbacks |-> <<>>, prevprev |-> Nul, prev |-> Nul, curr |-> Nul,
           next |-> Nul, asserted |-> TRUE, error |-> ""]
  BY DEF Toker
<1>3. <<>> \in Texts
  BY DEF Texts
<1>4. b = [elems |-> <<>>, stack |-> <<TRUE>>, t |-> t, error |-> ""]
  BY DEF Opened, Parse, src
<1> HIDE DEF t, b
<1>5. t \in Tokers
  BY <1>1, <1>2, <1>3, MarksAre DEF Tokers
<1>6. Orderly(t)
  <2>1. t.asserted = TRUE /\ t.putbacks = <<>> /\ t.next = Nul
    BY <1>2
  <2>2. Len(t.putbacks) <= 1
    <3>1. Len(t.putbacks) = 0
      BY <2>1
    <3> QED
      BY <3>1
  <2> QED
    BY <2>1, <2>2 DEF Orderly
<1>7. b.elems = <<>> /\ b.stack = <<TRUE>> /\ b.t = t /\ b.error = ""
  BY <1>4
<1>8. IsParse(b)
  BY <1>4, <1>7 DEF IsParse
<1>9. Nested(<<>>, <<TRUE>>)
  <2>1. <<>> \in Seq({}) /\ <<TRUE>> \in Seq(BOOLEAN) /\ Len(<<TRUE>>) = 1 /\ 2..1 = {}
    OBVIOUS
  <2>2. DocumentIs(<<>>)
    BY DEF DocumentIs
  <2> QED
    BY <2>1, <2>2 DEF Nested
<1> QED
  BY <1>5, <1>6, <1>7, <1>8, <1>9 DEF b

\* What XmlParts::get leaves is taken over.
LEMMA ReadIs ==
  ASSUME NEW b, IsParse(b), NEW u, NEW v
  PROVE  [b EXCEPT !.t = u, !.error = v] = [elems |-> b.elems, stack |-> b.stack, t |-> u, error |-> v]
<1> DEFINE c == [b EXCEPT !.t = u]
<1>1. c = [elems |-> b.elems, stack |-> b.stack, t |-> u, error |-> b.error]
  BY DEF IsParse
<1>2. [b EXCEPT !.t = u, !.error = v] = [c EXCEPT !.error = v]
  OBVIOUS
<1>3. c.elems = b.elems /\ c.stack = b.stack /\ c.t = u /\ c.error = b.error
  BY <1>1
<1> HIDE DEF c
<1>4. [c EXCEPT !.error = v] = [elems |-> b.elems, stack |-> b.stack, t |-> u, error |-> v]
  BY <1>1
<1> QED
  BY <1>2, <1>4

\* One round of the loop.
LEMMA RoundIs ==
  ASSUME NEW b, IsParse(b), b.t \in Tokers, Orderly(b.t), Nested(b.elems, b.stack)
  PROVE  LET c == Round(b)
         IN IsParse(c) /\ c.t \in Tokers /\ Orderly(c.t) /\ Nested(c.elems, c.stack)
<1> DEFINE r == PartsFrom[<<b.t, <<>>>>]
           read == [b EXCEPT !.t = r.t, !.error = r.t.error]
           c == Round(b)
<1>1. r.t \in Tokers /\ Orderly(r.t)
  <2> DEFINE x == <<b.t, <<>>>>
  <2>1. x \in PartStates /\ x[1] = b.t
    <3>1. <<>> \in Seq(Texts)
      OBVIOUS
    <3>2. \A a \in Tokers, s \in Seq(Texts) : <<a, s>> \in PartStates
      BY DEF PartStates
    <3>3. b.t \in Tokers
      OBVIOUS
    <3> QED
      BY <3>1, <3>2, <3>3
  <2> HIDE DEF x
  <2>2. PartsFrom[x].t \in Tokers /\ (Orderly(x[1]) => Orderly(PartsFrom[x].t))
    BY <2>1, PartsFromHas
  <2> QED
    BY <2>1, <2>2 DEF x
<1>2. c = IF read.error # "" \/ r.toks = <<>> THEN read ELSE ProcessParts(read, r.toks)
  BY DEF Round
<1> HIDE DEF r, c
<1>3. read = [elems |-> b.elems, stack |-> b.stack, t |-> r.t, error |-> r.t.error]
  BY ReadIs
<1> HIDE DEF read
<1>4. read.elems = b.elems /\ read.stack = b.stack /\ read.t = r.t
  BY <1>3
<1>5. IsParse(read)
  BY <1>3, <1>4 DEF IsParse
<1>6. b.stack \in Seq(BOOLEAN)
  BY DEF Nested
<1>7. Steps(read, read)
  BY <1>5 DEF Steps, Grows
<1>8. Steps(read, c)
  BY <1>2, <1>4, <1>5, <1>6, <1>7, ProcessPartsIs
<1>9. IsParse(c) /\ c.t = r.t /\ Grows(b.elems, b.stack, c.elems, c.stack)
  BY <1>4, <1>8 DEF Steps
<1>10. Nested(c.elems, c.stack)
  BY <1>9, GrowsNested
<1> QED
  BY <1>1, <1>9, <1>10 DEF c

\* Of any text, cut off or not, a document is made: an element below another is in a
\* tag, the DocElement has one tag at most and no text; and at most one character is
\* ever put back, which the tokenizer's get takes from the wrong end.
THEOREM EveryTextParses == ParserSpec => []ParserHolds
<1>1. ParserInit => ParserInv
  <2> SUFFICES ASSUME ParserInit PROVE ParserInv
    OBVIOUS
  <2>1. PICK text \in Samples : parse = Opened(text)
    BY DEF ParserInit
  <2>2. text \in Texts
    BY SamplesAssumption
  <2> QED
    BY <2>1, <2>2, OpenedIs DEF ParserInv
<1>2. ParserInv /\ [ParserNext]_parse => ParserInv'
  <2>1. ASSUME ParserInv, ParserNext PROVE ParserInv'
    <3> DEFINE c == Round(parse)
    <3>1. parse' = c
      BY <2>1 DEF ParserNext
    <3>2. IsParse(c) /\ c.t \in Tokers /\ Orderly(c.t) /\ Nested(c.elems, c.stack)
      BY <2>1, RoundIs DEF ParserInv
    <3> HIDE DEF c
    <3> QED
      BY <3>1, <3>2 DEF ParserInv
  <2>2. ASSUME ParserInv, UNCHANGED parse PROVE ParserInv'
    BY <2>2 DEF ParserInv
  <2> QED
    BY <2>1, <2>2
<1>3. ParserInv => ParserHolds
  <2>1. ParserInv => PutbackInOrder
    BY DEF ParserInv, Orderly, PutbackInOrder
  <2>2. ParserInv => ParsedIsDocument
    BY DEF ParserInv, Nested, DocumentIs, ParsedIsDocument
  <2> QED
    BY <2>1, <2>2 DEF ParserHolds
<1> QED
  BY <1>1, <1>2, <1>3, PTL DEF ParserSpec
=============================================================================
