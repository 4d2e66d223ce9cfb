-------------------------- MODULE FileSystem_proof --------------------------
(***************************************************************************)
(* Proofs about FileSystem, for any tree, any patterns that exclude each    *)
(* other, any files and any uploads meanwhile: no file is listed twice, the *)
(* search implements module Listing, and what is copied and what is read line*)
(* by line is what the files hold.                                          *)
(*                                                                          *)
(* Nothing in the state says which directories the search has left.  The    *)
(* invariant says that there is a set of them such that what is stored, what*)
(* the open calls have still to do and that set together account for every  *)
(* file (Visited): nothing is in two of them, nothing in none.              *)
(*                                                                          *)
(* The loops that read are about the part of a text that was passed (FInv): *)
(* the copy and its stream hold that part, and the lines of that part are the*)
(* lines that were read.                                                    *)
(***************************************************************************)
EXTENDS FileSystem, WellFoundedInduction, SequenceTheorems, TLAPS

------------------------------------------------------------------------------
(* The invariant.                                                            *)

Entries == Dirs \cup Names \cup {Here, Up}
AllPasses == Append(Patterns, AnyName)
Passes == ToSet(Patterns) \cup {AnyName}
Frames == [dir : Dirs \cup {Root}, passes : Seq(Passes), pc : {"first", "next", "down"},
           unseen : SUBSET Entries, seen : SUBSET Entries, found : Seq(Entries)]

\* The number of the pass that a frame is at; the last one is that for directories.
Pass(fr) == Len(Patterns) + 2 - Len(fr.passes)

Types == /\ tree \subseteq Dirs \cup Names /\ before \subseteq tree
         /\ \A e \in before : Parent[e] \in before \cup {Root}
         /\ stack \in Seq(Frames) /\ store \in Seq(Names)

\* What a frame has found is in its directory, once, and of the kind of its pass.
Sound(fr, t) ==
  /\ Len(fr.passes) \in 1..(Len(Patterns) + 1)
  /\ \A j \in 1..Len(fr.passes) : fr.passes[j] = AllPasses[Pass(fr) - 1 + j]
  /\ \A i, j \in 1..Len(fr.found) : i # j => fr.found[i] # fr.found[j]
  /\ fr.pc = "first" => fr.seen = {} /\ fr.found = <<>>
  /\ fr.pc = "down" => Len(fr.passes) = 1
  /\ \A i \in 1..Len(fr.found) :
       /\ fr.found[i] \in {Here, Up} \/ (fr.found[i] \in t /\ Parent[fr.found[i]] = fr.dir)
       /\ Matches(fr.found[i], fr.passes[1])
       /\ IsDirectory(fr.found[i]) <=> Len(fr.passes) = 1
       /\ fr.pc # "down" => fr.found[i] \in fr.seen

FramesSound == \A k \in 1..Len(stack) : Sound(stack[k], tree)

\* The calls lead from the root down, each into a directory that its caller has
\* taken off its list.
Chain ==
  /\ Len(stack) > 0 => stack[Len(stack)].dir = Root
  /\ \A k \in 1..(Len(stack) - 1) :
       /\ stack[k].dir \in Dirs /\ Parent[stack[k].dir] = stack[k + 1].dir
       /\ stack[k + 1].pc = "down"
       /\ \A i \in 1..Len(stack[k + 1].found) : stack[k + 1].found[i] # stack[k].dir
  /\ \A j, k \in 1..Len(stack) : j # k => stack[j].dir # stack[k].dir

\* A directory that find() is in now.
Open(s, d) == \E k \in 1..Len(s) : s[k].dir = d

\* The directories of D, and no other, have been left for good.
Left(D, s) ==
  /\ \A d \in D : ~Open(s, d)
  /\ \A d \in D \cap Dirs : Parent[d] \in D \/ Open(s, Parent[d])
  /\ \A d \in D \cap Dirs : \A k \in 1..Len(s) : Parent[d] = s[k].dir =>
       s[k].pc = "down" /\ \A i \in 1..Len(s[k].found) : s[k].found[i] # d
  /\ s = <<>> => Root \in D

\* What is in the store was wanted, from a directory that was left or is open, in
\* which no pass to come matches it again.
Stored(D, s, st, t) ==
  /\ \A i, j \in 1..Len(st) : i # j => st[i] # st[j]
  /\ \A i \in 1..Len(st) : /\ st[i] \in t /\ Wanted(st[i])
                           /\ Parent[st[i]] \in D \/ Open(s, Parent[st[i]])
  /\ \A i \in 1..Len(st) : \A k \in 1..Len(s) : Parent[st[i]] = s[k].dir =>
       \A j \in Pass(s[k])..Len(Patterns) : ~Matches(st[i], Patterns[j])

In(e, q) == \E i \in 1..Len(q) : q[i] = e

\* A directory that was there is in D or will be: it waits in its parent's frame.
DirWaits(D, s, k, d) ==
  \/ Len(s[k].passes) > 1
  \/ s[k].pc = "first"
  \/ s[k].pc = "next" /\ (d \in s[k].unseen \/ In(d, s[k].found))
  \/ s[k].pc = "down" /\ (In(d, s[k].found) \/ d \in D \/ (k > 1 /\ d = s[k - 1].dir))

\* A file that was there is in the store or will be, for each pattern i that
\* matches it.
FileWaits(s, st, k, f, i) ==
  \/ i > Pass(s[k])
  \/ i = Pass(s[k]) /\ (s[k].pc = "first" \/ f \in s[k].unseen \/ In(f, s[k].found))
  \/ In(f, st)

\* Nothing that was there is missed.
NoneMissed(D, s, st, b) ==
  /\ \A e \in b : Parent[e] \in D =>
       (e \in Dirs => e \in D) /\ (e \in Names /\ Wanted(e) => In(e, st))
  /\ \A k \in 1..Len(s) : \A d \in b \cap Dirs : Parent[d] = s[k].dir => DirWaits(D, s, k, d)
  /\ \A k \in 1..Len(s) : \A f \in b \cap Names : Parent[f] = s[k].dir =>
       \A i \in 1..Len(Patterns) : Matches(f, Patterns[i]) => FileWaits(s, st, k, f, i)

Visited(D, s, st, t, b) == Left(D, s) /\ Stored(D, s, st, t) /\ NoneMissed(D, s, st, b)

IInv == /\ Types /\ FramesSound /\ Chain
        /\ \E D \in SUBSET (Dirs \cup {Root}) : Visited(D, stack, store, tree, before)

------------------------------------------------------------------------------
(* The patterns.                                                             *)

Less == {p \in Nat \X Nat : p[1] < p[2]}

\* Induction: a set with 0 and with the successor of each member is Nat.  (The
\* theorem of the library is for an operator, which no prover can instantiate; the
\* order of the naturals is well-founded as a set.)
LEMMA AllNumbers ==
  ASSUME NEW S \in SUBSET Nat, 0 \in S, \A n \in S : n + 1 \in S
  PROVE  S = Nat
<1>1. IsWellFoundedOn({p \in Nat \X Nat : p[1] < p[2]}, Nat)
  BY NatLessThanWellFounded DEF OpToRel
<1>2. IsWellFoundedOn(Less, Nat)
  BY <1>1 DEF Less
<1>3. SUFFICES ASSUME Nat \ S # {} PROVE FALSE
  OBVIOUS
<1>4. PICK x \in Nat \ S : \A y \in Nat \ S : ~ (<<y, x>> \in Less)
  BY <1>2, <1>3, WFMin
<1>5. x \in Nat /\ x # 0 /\ x - 1 \in Nat /\ x - 1 < x /\ (x - 1) + 1 = x
  OBVIOUS
<1>6. x - 1 \in S
  BY <1>4, <1>5 DEF Less
<1> QED
  BY <1>5, <1>6

\* What the first n patterns that were given make of the list.
AddedIs(n) == IF n = 0 THEN <<AnyName>> ELSE SubSeq(Asked, 1, n)

\* addPattern puts the first pattern in the place of "*.*", and the others behind it.
LEMMA AddPatternIs ==
  ASSUME NEW n \in 1..Len(Asked)
  PROVE  AddPattern(AddedIs(n - 1), Asked[n]) = AddedIs(n)
<1> DEFINE T == ToSet(Asked)
<1>1. Asked \in Seq(T) /\ AnyName \notin T /\ \A i \in 1..Len(Asked) : Asked[i] \in T
  BY AskedAssumption DEF ToSet
<1> HIDE DEF T
<1>2. n \in Nat /\ n - 1 \in Nat /\ Len(Asked) \in Nat /\ n <= Len(Asked) /\ n >= 1
  BY <1>1
<1>3. CASE n = 1
  <2>1. AddPattern(AddedIs(n - 1), Asked[n]) = <<Asked[1]>>
    BY <1>3 DEF AddPattern, AddedIs
  <2>2. SubSeq(Asked, 1, 1) = <<Asked[1]>>
    <3>1. /\ SubSeq(Asked, 1, 1) \in Seq(T) /\ <<Asked[1]>> \in Seq(T)
          /\ Len(SubSeq(Asked, 1, 1)) = 1 /\ Len(<<Asked[1]>>) = 1
          /\ \A i \in 1..1 : SubSeq(Asked, 1, 1)[i] = <<Asked[1]>>[i]
      BY <1>1, <1>2, <1>3
    <3> QED
      BY <3>1, SeqEqual
  <2> QED
    BY <1>3, <2>1, <2>2 DEF AddedIs
<1>4. CASE n # 1
  <2>1. AddedIs(n - 1) = SubSeq(Asked, 1, n - 1) /\ n - 1 >= 1
    BY <1>2, <1>4 DEF AddedIs
  <2>2. SubSeq(Asked, 1, n - 1)[1] = Asked[1]
    BY <1>1, <1>2, <2>1
  <2>3. Asked[1] \in T
    BY <1>1, <1>2
  <2>4. <<AnyName>>[1] = AnyName
    OBVIOUS
  <2>5. SubSeq(Asked, 1, n - 1) # <<AnyName>>
    BY <1>1, <2>2, <2>3, <2>4
  <2>6. AddPattern(AddedIs(n - 1), Asked[n]) = Append(SubSeq(Asked, 1, n - 1), Asked[n])
    BY <2>1, <2>5 DEF AddPattern
  <2>7. Append(SubSeq(Asked, 1, n - 1), Asked[n]) = SubSeq(Asked, 1, n)
    BY <1>1, <1>2, <2>1
  <2>8. AddedIs(n) = SubSeq(Asked, 1, n)
    BY <1>2 DEF AddedIs
  <2> QED
    BY <2>6, <2>7, <2>8
<1> QED
  BY <1>3, <1>4

\* patterns_ is the list that getFiles was given, or "*.*" if that is empty.
LEMMA PatternsAre == Patterns = IF Asked = <<>> THEN <<AnyName>> ELSE Asked
<1> DEFINE D == 0..Len(Asked)
           G(g) == [n \in D |-> IF n = 0 THEN <<AnyName>> ELSE AddPattern(g[n - 1], Asked[n])]
           is == [n \in D |-> AddedIs(n)]
<1>1. Len(Asked) \in Nat /\ Asked \in Seq(ToSet(Asked))
  BY AskedAssumption
<1>2. is = G(is)
  <2>1. ASSUME NEW n \in D, n # 0 PROVE n \in 1..Len(Asked) /\ n - 1 \in D
    BY <1>1, <2>1
  <2>2. ASSUME NEW n \in D, n # 0 PROVE AddPattern(is[n - 1], Asked[n]) = AddedIs(n)
    BY <2>1, <2>2, AddPatternIs
  <2>3. AddedIs(0) = <<AnyName>>
    BY DEF AddedIs
  <2> HIDE DEF D
  <2> QED
    BY <2>2, <2>3
<1>3. Added = CHOOSE g : g = G(g)
  BY DEF Added
<1>4. Added = G(Added)
  <2> HIDE DEF G
  <2> QED
    BY <1>2, <1>3
<1>5. \A n \in D : Added[n] = IF n = 0 THEN <<AnyName>> ELSE AddPattern(Added[n - 1], Asked[n])
  BY <1>4
<1> DEFINE S == {n \in Nat : n \in D => Added[n] = AddedIs(n)}
<1>6. 0 \in S
  <2>1. 0 \in D
    BY <1>1
  <2> QED
    BY <1>5, <2>1 DEF AddedIs
<1>7. ASSUME NEW n \in S PROVE n + 1 \in S
  <2>1. n \in Nat /\ n + 1 \in Nat /\ n + 1 # 0 /\ (n + 1) - 1 = n
    OBVIOUS
  <2>2. CASE n + 1 \in D
    <3>1. n \in D /\ n + 1 \in 1..Len(Asked)
      BY <1>1, <2>1, <2>2
    <3>2. Added[n] = AddedIs(n)
      BY <3>1, <1>7
    <3>3. Added[n + 1] = AddPattern(AddedIs(n), Asked[n + 1])
      BY <1>5, <2>1, <2>2, <3>2
    <3>4. AddPattern(AddedIs((n + 1) - 1), Asked[n + 1]) = AddedIs(n + 1)
      BY <3>1, AddPatternIs
    <3> QED
      BY <2>1, <3>3, <3>4
  <2> QED
    BY <2>1, <2>2
<1>8. S = Nat
  <2>1. S \in SUBSET Nat
    OBVIOUS
  <2> HIDE DEF S
  <2> QED
    BY <1>6, <1>7, <2>1, AllNumbers
<1>9. Patterns = AddedIs(Len(Asked))
  <2>1. Len(Asked) \in D
    BY <1>1
  <2> QED
    BY <1>1, <1>8, <2>1 DEF Patterns
<1>10. Asked = <<>> <=> Len(Asked) = 0
  BY <1>1
<1>11. SubSeq(Asked, 1, Len(Asked)) = Asked
  BY <1>1
<1> QED
  BY <1>9, <1>10, <1>11 DEF AddedIs

\* The passes: one for each pattern, which exclude each other, and the last one.
LEMMA PatternFacts ==
  /\ Len(Patterns) \in Nat /\ Len(Patterns) >= 1 /\ Patterns \in Seq(Passes)
  /\ \A f \in Names : \A i, j \in 1..Len(Patterns) :
       Matches(f, Patterns[i]) /\ Matches(f, Patterns[j]) => i = j
  /\ AllPasses \in Seq(Passes) /\ Len(AllPasses) = Len(Patterns) + 1
  /\ \A i \in 1..Len(Patterns) : AllPasses[i] = Patterns[i]
  /\ AllPasses[Len(Patterns) + 1] = AnyName
  /\ \A f : Wanted(f) <=> \E i \in 1..Len(Patterns) : Matches(f, Patterns[i])
<1>1. Asked \in Seq(ToSet(Asked)) /\ Len(Asked) \in Nat
  BY AskedAssumption
<1>2. /\ Len(Patterns) \in Nat /\ Len(Patterns) >= 1 /\ Patterns \in Seq(ToSet(Patterns))
      /\ \A f \in Names : \A i, j \in 1..Len(Patterns) :
           Matches(f, Patterns[i]) /\ Matches(f, Patterns[j]) => i = j
  <2>1. CASE Asked = <<>>
    <3>1. Patterns = <<AnyName>>
      BY <2>1, PatternsAre
    <3>2. Len(<<AnyName>>) = 1 /\ <<AnyName>>[1] = AnyName /\ <<AnyName>> \in Seq({AnyName})
          /\ DOMAIN <<AnyName>> = 1..1
      OBVIOUS
    <3>3. ToSet(Patterns) = {AnyName}
      BY <3>1, <3>2 DEF ToSet
    <3> QED
      BY <3>1, <3>2, <3>3
  <2>2. CASE Asked # <<>>
    <3>1. Patterns = Asked /\ Len(Asked) >= 1
      BY <1>1, <2>2, PatternsAre
    <3>2. ASSUME NEW f \in Names, NEW i \in 1..Len(Asked), NEW j \in 1..Len(Asked),
                 Matches(f, Asked[i]), Matches(f, Asked[j])
          PROVE  i = j
      <4>1. Asked[i] # AnyName /\ Asked[j] # AnyName
        BY <1>1, AskedAssumption DEF ToSet
      <4>2. Asked[i] \in Matching[f] /\ Asked[j] \in Matching[f]
        BY <3>2, <4>1 DEF Matches
      <4> QED
        BY <4>2, AskedAssumption
    <3> QED
      BY <1>1, <3>1, <3>2
  <2> QED
    BY <2>1, <2>2
<1>3. Patterns \in Seq(Passes) /\ AnyName \in Passes
  <2>1. ToSet(Patterns) \subseteq Passes /\ AnyName \in Passes
    BY DEF Passes
  <2>2. \A k \in 1..Len(Patterns) : Patterns[k] \in Passes
    BY <1>2, <2>1
  <2> QED
    BY <1>2, <2>1, <2>2
<1>4. /\ AllPasses \in Seq(Passes) /\ Len(AllPasses) = Len(Patterns) + 1
      /\ \A i \in 1..Len(Patterns) : AllPasses[i] = Patterns[i]
      /\ AllPasses[Len(Patterns) + 1] = AnyName
  BY <1>3 DEF AllPasses
<1>5. ASSUME NEW f PROVE Wanted(f) <=> \E i \in 1..Len(Patterns) : Matches(f, Patterns[i])
  <2>1. DOMAIN Patterns = 1..Len(Patterns)
    BY <1>2
  <2> QED
    BY <2>1 DEF Wanted, ToSet
<1> QED
  BY <1>2, <1>3, <1>4, <1>5

------------------------------------------------------------------------------
(* Frames and stacks.                                                        *)

\* The parts of a frame.
LEMMA FrameParts ==
  ASSUME NEW fr \in Frames
  PROVE  /\ fr.dir \in Dirs \cup {Root} /\ fr.passes \in Seq(Passes)
         /\ fr.pc \in {"first", "next", "down"} /\ fr.unseen \in SUBSET Entries
         /\ fr.seen \in SUBSET Entries /\ fr.found \in Seq(Entries)
  BY DEF Frames

\* The stacks that the steps make: with another frame on top, one more on top of
\* that, and without the top.
LEMMA Stacks ==
  ASSUME NEW F, NEW s \in Seq(F), Len(s) > 0, NEW f \in F, NEW g \in F
  PROVE  /\ <<f>> \o Tail(s) \in Seq(F) /\ Len(<<f>> \o Tail(s)) = Len(s)
         /\ (<<f>> \o Tail(s))[1] = f
         /\ \A k \in 2..Len(s) : (<<f>> \o Tail(s))[k] = s[k]
         /\ <<>> \o <<f>> \o Tail(s) = <<f>> \o Tail(s)
         /\ <<g>> \o <<f>> \o Tail(s) \in Seq(F) /\ Len(<<g>> \o <<f>> \o Tail(s)) = Len(s) + 1
         /\ (<<g>> \o <<f>> \o Tail(s))[1] = g /\ (<<g>> \o <<f>> \o Tail(s))[2] = f
         /\ \A k \in 3..(Len(s) + 1) : (<<g>> \o <<f>> \o Tail(s))[k] = s[k - 1]
         /\ Tail(s) \in Seq(F) /\ Len(Tail(s)) = Len(s) - 1
         /\ \A k \in 1..(Len(s) - 1) : Tail(s)[k] = s[k + 1]
         /\ Head(s) = s[1] /\ s[1] \in F /\ Len(s) \in Nat
<1>1. /\ Tail(s) \in Seq(F) /\ Len(Tail(s)) = Len(s) - 1
      /\ \A k \in 1..(Len(s) - 1) : Tail(s)[k] = s[k + 1]
      /\ Head(s) = s[1] /\ s[1] \in F /\ Len(s) \in Nat
  BY HeadTailProperties
<1>2. /\ <<f>> \in Seq(F) /\ Len(<<f>>) = 1 /\ <<f>>[1] = f
      /\ <<g>> \in Seq(F) /\ Len(<<g>>) = 1 /\ <<g>>[1] = g /\ <<>> \in Seq(F) /\ Len(<<>>) = 0
  OBVIOUS
<1>3. /\ <<f>> \o Tail(s) \in Seq(F) /\ Len(<<f>> \o Tail(s)) = 1 + Len(Tail(s))
      /\ \A k \in 1..(1 + Len(Tail(s))) :
           (<<f>> \o Tail(s))[k] = IF k <= 1 THEN <<f>>[k] ELSE Tail(s)[k - 1]
  BY <1>1, <1>2, ConcatProperties
<1>4. \A k \in 2..Len(s) : (<<f>> \o Tail(s))[k] = s[k]
  <2>1. ASSUME NEW k \in 2..Len(s)
        PROVE  k \in 1..(1 + Len(Tail(s))) /\ ~(k <= 1) /\ k - 1 \in 1..(Len(s) - 1) /\ (k - 1) + 1 = k
    BY <1>1
  <2> QED
    BY <1>1, <1>3, <2>1
<1>5. (<<f>> \o Tail(s))[1] = f
  BY <1>1, <1>2, <1>3
<1>6. <<>> \o <<f>> = <<f>>
  <2>1. <<>> \o <<f>> \in Seq(F) /\ Len(<<>> \o <<f>>) = 1 /\ (<<>> \o <<f>>)[1] = f
    BY <1>2
  <2> QED
    BY <1>2, <2>1, SeqEqual
<1>7. /\ <<g>> \o <<f>> \in Seq(F) /\ Len(<<g>> \o <<f>>) = 2
      /\ (<<g>> \o <<f>>)[1] = g /\ (<<g>> \o <<f>>)[2] = f
  BY <1>2
<1>8. /\ (<<g>> \o <<f>>) \o Tail(s) \in Seq(F)
      /\ Len((<<g>> \o <<f>>) \o Tail(s)) = 2 + Len(Tail(s))
      /\ \A k \in 1..(2 + Len(Tail(s))) :
           ((<<g>> \o <<f>>) \o Tail(s))[k] = IF k <= 2 THEN (<<g>> \o <<f>>)[k] ELSE Tail(s)[k - 2]
  BY <1>1, <1>7, ConcatProperties
<1>9. /\ ((<<g>> \o <<f>>) \o Tail(s))[1] = g /\ ((<<g>> \o <<f>>) \o Tail(s))[2] = f
      /\ \A k \in 3..(Len(s) + 1) : ((<<g>> \o <<f>>) \o Tail(s))[k] = s[k - 1]
  <2>1. ASSUME NEW k \in 3..(Len(s) + 1)
        PROVE  k \in 1..(2 + Len(Tail(s))) /\ ~(k <= 2) /\ k - 2 \in 1..(Len(s) - 1) /\ (k - 2) + 1 = k - 1
    BY <1>1
  <2>2. \A k \in 3..(Len(s) + 1) : ((<<g>> \o <<f>>) \o Tail(s))[k] = s[k - 1]
    BY <1>1, <1>8, <2>1
  <2>3. 1 \in 1..(2 + Len(Tail(s))) /\ 2 \in 1..(2 + Len(Tail(s)))
    BY <1>1
  <2> QED
    BY <1>7, <1>8, <2>2, <2>3
<1>10. Len(<<f>> \o Tail(s)) = Len(s) /\ Len(<<g>> \o <<f>> \o Tail(s)) = Len(s) + 1
  BY <1>1, <1>3, <1>8
<1>11. <<>> \o <<f>> \o Tail(s) = <<f>> \o Tail(s)
  BY <1>6
<1> QED
  BY <1>1, <1>3, <1>4, <1>5, <1>8, <1>9, <1>10, <1>11, Zenon

\* What is in a list one longer, and in one without its head.
LEMMA Lists ==
  ASSUME NEW E, NEW q \in Seq(E), NEW e \in E
  PROVE  /\ Append(q, e) \in Seq(E) /\ Len(Append(q, e)) = Len(q) + 1 /\ Len(q) \in Nat
         /\ \A i \in 1..Len(q) : Append(q, e)[i] = q[i] /\ q[i] \in E
         /\ Append(q, e)[Len(q) + 1] = e
         /\ \A x : In(x, Append(q, e)) <=> In(x, q) \/ x = e
         /\ Len(q) > 0 => /\ Tail(q) \in Seq(E) /\ Len(Tail(q)) = Len(q) - 1
                          /\ \A i \in 1..(Len(q) - 1) : Tail(q)[i] = q[i + 1]
                          /\ Head(q) = q[1] /\ q[1] \in E
                          /\ \A x : In(x, q) <=> x = q[1] \/ In(x, Tail(q))
<1>1. /\ Append(q, e) \in Seq(E) /\ Len(Append(q, e)) = Len(q) + 1 /\ Len(q) \in Nat
      /\ \A i \in 1..Len(q) : Append(q, e)[i] = q[i] /\ q[i] \in E
      /\ Append(q, e)[Len(q) + 1] = e
  BY AppendProperties
<1>2. ASSUME NEW x PROVE In(x, Append(q, e)) <=> In(x, q) \/ x = e
  <2>1. \A i \in 1..(Len(q) + 1) : i \in 1..Len(q) \/ i = Len(q) + 1
    BY <1>1
  <2>2. 1..Len(q) \subseteq 1..(Len(q) + 1) /\ Len(q) + 1 \in 1..(Len(q) + 1)
    BY <1>1
  <2> QED
    BY <1>1, <2>1, <2>2 DEF In
<1>3. ASSUME Len(q) > 0
      PROVE  /\ Tail(q) \in Seq(E) /\ Len(Tail(q)) = Len(q) - 1
             /\ \A i \in 1..(Len(q) - 1) : Tail(q)[i] = q[i + 1]
             /\ Head(q) = q[1] /\ q[1] \in E
  BY <1>3, HeadTailProperties
<1>4. ASSUME Len(q) > 0, NEW x PROVE In(x, q) <=> x = q[1] \/ In(x, Tail(q))
  <2>1. \A i \in 1..Len(q) : i = 1 \/ (i - 1 \in 1..(Len(q) - 1) /\ (i - 1) + 1 = i)
    BY <1>1
  <2>2. \A i \in 1..(Len(q) - 1) : i + 1 \in 1..Len(q)
    BY <1>1
  <2>3. 1 \in 1..Len(q)
    BY <1>1, <1>4
  <2>4. \A i \in 1..(Len(q) - 1) : Tail(q)[i] = q[i + 1] /\ Len(Tail(q)) = Len(q) - 1
    BY <1>3, <1>4
  <2>5. ASSUME In(x, q) PROVE x = q[1] \/ In(x, Tail(q))
    <3>1. PICK i \in 1..Len(q) : q[i] = x
      BY <2>5 DEF In
    <3>2. CASE i = 1
      BY <3>1, <3>2
    <3>3. CASE i # 1
      <4>1. i - 1 \in 1..(Len(q) - 1) /\ (i - 1) + 1 = i
        BY <2>1, <3>3
      <4> QED
        BY <2>4, <3>1, <4>1 DEF In
    <3> QED
      BY <3>2, <3>3
  <2>6. ASSUME In(x, Tail(q)) PROVE In(x, q)
    <3>1. PICK i \in 1..Len(Tail(q)) : Tail(q)[i] = x
      BY <2>6 DEF In
    <3>2. i \in 1..(Len(q) - 1)
      BY <1>3, <1>4
    <3> QED
      BY <2>2, <2>4, <3>1, <3>2 DEF In
  <2> QED
    BY <2>3, <2>5, <2>6 DEF In
<1> QED
  BY <1>1, <1>2, <1>3, <1>4

------------------------------------------------------------------------------
(* What each step does to the stack.                                         *)

\* A step of the pass under way: it changes the frame on top, and not its directory.
TopStep == /\ Len(stack) > 0 /\ stack' \in Seq(Frames) /\ Len(stack') = Len(stack)
           /\ \A k \in 2..Len(stack) : stack'[k] = stack[k]
           /\ stack'[1].dir = stack[1].dir /\ stack[1].pc # "down"
           /\ tree' = tree /\ before' = before

\* There is a frame on top as soon as the search has not ended.
LEMMA TopFrame ==
  ASSUME Types, stack # <<>>
  PROVE  /\ Len(stack) > 0 /\ Len(stack) \in Nat /\ 1 \in 1..Len(stack)
         /\ Top = stack[1] /\ stack[1] \in Frames
<1>1. stack \in Seq(Frames)
  BY DEF Types
<1> QED
  BY <1>1, EmptySeq DEF Top

\* With f in place of the top frame.
LEMMA SetTopIs ==
  ASSUME Types, stack # <<>>, NEW f \in Frames, SetTop(f)
  PROVE  /\ Len(stack) > 0 /\ stack' \in Seq(Frames) /\ Len(stack') = Len(stack)
         /\ stack'[1] = f /\ \A k \in 2..Len(stack) : stack'[k] = stack[k]
<1>1. stack \in Seq(Frames) /\ Len(stack) > 0 /\ stack' = <<f>> \o Tail(stack)
  BY TopFrame DEF Types, SetTop
<1> QED
  BY <1>1, Stacks

\* What a pass matches is made of what there may be, "." and "..".
LEMMA PresentType == ASSUME Types PROVE Present \subseteq Entries
  BY DEF Types, Present, Entries

\* FindFirstFile opens the handle and returns nothing yet.
LEMMA FindFirstMoves ==
  ASSUME Types, FindFirst
  PROVE  /\ TopStep /\ store' = store
         /\ stack[1].pc = "first" /\ stack'[1].pc = "next"
         /\ stack'[1].passes = stack[1].passes /\ stack'[1].found = stack[1].found
         /\ stack'[1].seen = stack[1].seen /\ stack'[1].unseen = Present
<1>1. /\ stack # <<>> /\ Top.pc = "first" /\ tree' = tree /\ before' = before /\ store' = store
      /\ SetTop([Top EXCEPT !.pc = "next", !.unseen = Present])
  BY DEF FindFirst
<1>2. Top = stack[1] /\ Top \in Frames /\ Len(stack) > 0
  BY <1>1, TopFrame
<1> DEFINE f == [Top EXCEPT !.pc = "next", !.unseen = Present]
<1>3. /\ f \in Frames /\ f.dir = Top.dir /\ f.pc = "next" /\ f.passes = Top.passes
      /\ f.found = Top.found /\ f.seen = Top.seen /\ f.unseen = Present
  BY <1>2, PresentType DEF Frames
<1> HIDE DEF f
<1>4. /\ Len(stack) > 0 /\ stack' \in Seq(Frames) /\ Len(stack') = Len(stack)
      /\ stack'[1] = f /\ \A k \in 2..Len(stack) : stack'[k] = stack[k]
  <2>1. SetTop(f)
    BY <1>1 DEF f
  <2> QED
    BY <1>1, <1>3, <2>1, SetTopIs
<1> QED
  BY <1>1, <1>2, <1>3, <1>4 DEF TopStep

\* FindNextFile returns one entry, which is kept if it is of the kind wanted.
LEMMA FindNextMoves ==
  ASSUME Types, NEW e, FindNext(e)
  PROVE  /\ TopStep /\ store' = store
         /\ stack[1].pc = "next" /\ stack'[1].pc = "next" /\ e \in Present \ stack[1].seen
         /\ stack'[1].passes = stack[1].passes
         /\ stack'[1].unseen = stack[1].unseen \ {e} /\ stack'[1].seen = stack[1].seen \cup {e}
         /\ stack'[1].found = IF IsDirectory(e) <=> Len(stack[1].passes) = 1
                              THEN Append(stack[1].found, e) ELSE stack[1].found
<1>1. /\ stack # <<>> /\ Top.pc = "next" /\ tree' = tree /\ before' = before /\ store' = store
      /\ e \in Present \ Top.seen
      /\ SetTop([Top EXCEPT !.unseen = @ \ {e}, !.seen = @ \cup {e},
                            !.found = IF IsDirectory(e) = DirsPass THEN Append(@, e) ELSE @])
  BY DEF FindNext
<1>2. Top = stack[1] /\ Top \in Frames /\ Len(stack) > 0 /\ e \in Entries
  BY <1>1, TopFrame, PresentType
<1> DEFINE q == IF IsDirectory(e) = DirsPass THEN Append(Top.found, e) ELSE Top.found
           f == [Top EXCEPT !.unseen = @ \ {e}, !.seen = @ \cup {e},
                            !.found = IF IsDirectory(e) = DirsPass THEN Append(@, e) ELSE @]
<1>3. Top.found \in Seq(Entries) /\ Append(Top.found, e) \in Seq(Entries)
  BY <1>2, FrameParts
<1>4. q \in Seq(Entries)
  BY <1>3
<1>5. f = [Top EXCEPT !.unseen = @ \ {e}, !.seen = @ \cup {e}, !.found = q]
  BY <1>2 DEF Frames
<1>6. q = IF IsDirectory(e) <=> Len(stack[1].passes) = 1
          THEN Append(stack[1].found, e) ELSE stack[1].found
  <2>1. IsDirectory(e) \in BOOLEAN /\ DirsPass \in BOOLEAN /\ (DirsPass <=> Len(stack[1].passes) = 1)
    BY <1>2 DEF IsDirectory, DirsPass
  <2> QED
    BY <1>2, <2>1
<1> HIDE DEF f, q
<1>7. /\ f \in Frames /\ f.dir = Top.dir /\ f.pc = Top.pc /\ f.passes = Top.passes
      /\ f.found = q /\ f.seen = Top.seen \cup {e} /\ f.unseen = Top.unseen \ {e}
  BY <1>2, <1>4, <1>5 DEF Frames
<1>8. /\ Len(stack) > 0 /\ stack' \in Seq(Frames) /\ Len(stack') = Len(stack)
      /\ stack'[1] = f /\ \A k \in 2..Len(stack) : stack'[k] = stack[k]
  <2>1. SetTop(f)
    BY <1>1 DEF f
  <2> QED
    BY <1>1, <1>7, <2>1, SetTopIs
<1>9. TopStep
  BY <1>1, <1>2, <1>7, <1>8 DEF TopStep
<1> QED
  BY <1>1, <1>2, <1>6, <1>7, <1>8, <1>9

\* The frame of a call that begins.
LEMMA NewFrame ==
  ASSUME NEW d \in Dirs \cup {Root}
  PROVE  /\ Frame(d) \in Frames /\ Frame(d).dir = d /\ Frame(d).passes = AllPasses
         /\ Frame(d).pc = "first" /\ Frame(d).unseen = {} /\ Frame(d).seen = {}
         /\ Frame(d).found = <<>>
  BY PatternFacts DEF Frame, Frames, AllPasses

\* The end of a pass: that for the directories leads to the descent, every other
\* one to the next.
LEMMA PassEndsMoves ==
  ASSUME Types, FramesSound, PassEnds
  PROVE  /\ TopStep
         /\ \/ stack[1].pc = "first" /\ Present = {}
            \/ stack[1].pc = "next" /\ stack[1].unseen = {}
         /\ \/ /\ Len(stack[1].passes) = 1 /\ store' = store
               /\ stack'[1].pc = "down" /\ stack'[1].passes = stack[1].passes
               /\ stack'[1].found = stack[1].found /\ stack'[1].seen = stack[1].seen
            \/ /\ Len(stack[1].passes) > 1 /\ store' = store \o stack[1].found
               /\ stack'[1].pc = "first" /\ stack'[1].passes = Tail(stack[1].passes)
               /\ stack'[1].found = <<>> /\ stack'[1].seen = {} /\ stack'[1].unseen = {}
<1>1. /\ stack # <<>> /\ tree' = tree /\ before' = before
      /\ \/ Top.pc = "first" /\ Present = {}
         \/ Top.pc = "next" /\ Top.unseen = {}
  BY DEF PassEnds
<1>2. Top = stack[1] /\ Top \in Frames /\ Len(stack) > 0 /\ 1 \in 1..Len(stack)
  BY <1>1, TopFrame
<1>3. Len(Top.passes) \in 1..(Len(Patterns) + 1) /\ Top.passes \in Seq(Passes) /\ Top.dir \in Dirs \cup {Root}
  BY <1>2, FrameParts DEF FramesSound, Sound
<1>4. Len(Top.passes) # 1 => Len(Top.passes) > 1 /\ Tail(Top.passes) \in Seq(Passes)
  <2>1. \A n \in 1..(Len(Patterns) + 1) : n \in Nat /\ n >= 1
    BY PatternFacts
  <2>2. Len(Top.passes) \in Nat /\ Len(Top.passes) >= 1 /\ Top.passes # <<>>
    BY <1>3, <2>1, EmptySeq
  <2>3. Len(Top.passes) # 1 => Len(Top.passes) > 1
    <3>1. \A n \in Nat : n >= 1 /\ n # 1 => n > 1
      OBVIOUS
    <3> QED
      BY <2>2, <3>1, Zenon
  <2>4. Tail(Top.passes) \in Seq(Passes)
    BY <1>3, <2>2, HeadTailProperties
  <2> QED
    BY <2>3, <2>4
<1>5. CASE DirsPass
  <2> DEFINE f == [Top EXCEPT !.pc = "down"]
  <2>1. SetTop(f) /\ store' = store /\ Len(Top.passes) = 1
    BY <1>5 DEF PassEnds, DirsPass
  <2>2. /\ f \in Frames /\ f.dir = Top.dir /\ f.pc = "down" /\ f.passes = Top.passes
        /\ f.found = Top.found /\ f.seen = Top.seen
    BY <1>2 DEF Frames
  <2> HIDE DEF f
  <2>3. /\ Len(stack) > 0 /\ stack' \in Seq(Frames) /\ Len(stack') = Len(stack)
        /\ stack'[1] = f /\ \A k \in 2..Len(stack) : stack'[k] = stack[k]
    BY <1>1, <2>1, <2>2, SetTopIs
  <2> QED
    BY <1>1, <1>2, <2>1, <2>2, <2>3 DEF TopStep
<1>6. CASE ~DirsPass
  <2> DEFINE f == [Frame(Top.dir) EXCEPT !.passes = Tail(Top.passes)]
  <2>1. SetTop(f) /\ store' = store \o Top.found /\ Len(Top.passes) # 1
    BY <1>6 DEF PassEnds, DirsPass
  <2>2. Len(Top.passes) > 1 /\ Tail(Top.passes) \in Seq(Passes)
    BY <1>4, <2>1
  <2>3. /\ f \in Frames /\ f.dir = Top.dir /\ f.pc = "first" /\ f.passes = Tail(Top.passes)
        /\ f.found = <<>> /\ f.seen = {} /\ f.unseen = {}
    <3>1. Frame(Top.dir) \in Frames
      BY <1>3, NewFrame
    <3> QED
      BY <1>3, <2>2, <3>1, NewFrame DEF Frames
  <2> HIDE DEF f
  <2>4. /\ Len(stack) > 0 /\ stack' \in Seq(Frames) /\ Len(stack') = Len(stack)
        /\ stack'[1] = f /\ \A k \in 2..Len(stack) : stack'[k] = stack[k]
    BY <1>1, <2>1, <2>3, SetTopIs
  <2> QED
    BY <1>1, <1>2, <2>1, <2>2, <2>3, <2>4 DEF TopStep
<1> QED
  BY <1>5, <1>6

\* A directory is taken off the list of those found: "." and ".." are passed over,
\* for any other find() is called.
LEMMA DescendMoves ==
  ASSUME Types, FramesSound, Descend
  PROVE  /\ stack # <<>> /\ stack[1].pc = "down" /\ Len(stack[1].found) > 0
         /\ tree' = tree /\ before' = before /\ store' = store
         /\ \E rest \in Frames :
              /\ rest.dir = stack[1].dir /\ rest.pc = "down" /\ rest.passes = stack[1].passes
              /\ rest.found = Tail(stack[1].found) /\ rest.seen = stack[1].seen
              /\ \/ /\ stack[1].found[1] \in {Here, Up}
                    /\ stack' \in Seq(Frames) /\ Len(stack') = Len(stack) /\ stack'[1] = rest
                    /\ \A k \in 2..Len(stack) : stack'[k] = stack[k]
                 \/ /\ stack[1].found[1] \in Dirs
                    /\ stack' \in Seq(Frames) /\ Len(stack') = Len(stack) + 1
                    /\ stack'[1] = Frame(stack[1].found[1]) /\ stack'[2] = rest
                    /\ \A k \in 3..(Len(stack) + 1) : stack'[k] = stack[k - 1]
<1>1. /\ stack # <<>> /\ Top.pc = "down" /\ Top.found # <<>>
      /\ tree' = tree /\ before' = before /\ store' = store
  BY DEF Descend
<1>2. Top = stack[1] /\ Top \in Frames /\ Len(stack) > 0 /\ 1 \in 1..Len(stack)
  BY <1>1, TopFrame
<1> DEFINE rest == [Top EXCEPT !.found = Tail(@)]
           d == Head(Top.found)
<1>3. stack' = (IF d \in {Here, Up} THEN <<>> ELSE <<Frame(d)>>) \o <<rest>> \o Tail(stack)
  BY DEF Descend
<1>4. /\ Len(Top.found) > 0 /\ d = Top.found[1] /\ Tail(Top.found) \in Seq(Entries)
      /\ 1 \in 1..Len(Top.found)
  <2>1. Top.found \in Seq(Entries)
    BY <1>2, FrameParts
  <2> QED
    BY <1>1, <2>1, EmptySeq, HeadTailProperties
<1>5. /\ rest \in Frames /\ rest.dir = Top.dir /\ rest.pc = "down" /\ rest.passes = Top.passes
      /\ rest.found = Tail(Top.found) /\ rest.seen = Top.seen
  BY <1>1, <1>2, <1>4 DEF Frames
<1>6. d \in {Here, Up} \/ d \in Dirs
  <2>1. Sound(Top, tree)
    BY <1>2 DEF FramesSound
  <2>2. IsDirectory(d)
    BY <1>1, <1>4, <2>1 DEF Sound
  <2> QED
    BY <2>2 DEF IsDirectory
<1>7. stack \in Seq(Frames) /\ {Here, Up} \cap Dirs = {}
  BY TreeAssumption DEF Types
<1> HIDE DEF rest, d
<1>8. CASE d \in {Here, Up}
  <2>1. stack' = <<>> \o <<rest>> \o Tail(stack)
    BY <1>3, <1>8
  <2>2. /\ stack' \in Seq(Frames) /\ Len(stack') = Len(stack) /\ stack'[1] = rest
        /\ \A k \in 2..Len(stack) : stack'[k] = stack[k]
    BY <1>2, <1>5, <1>7, <2>1, Stacks
  <2> QED
    BY <1>1, <1>2, <1>4, <1>5, <1>8, <2>2
<1>9. CASE d \in Dirs
  <2>1. stack' = <<Frame(d)>> \o <<rest>> \o Tail(stack)
    BY <1>3, <1>7, <1>9
  <2>2. Frame(d) \in Frames
    BY <1>9, NewFrame
  <2>3. /\ stack' \in Seq(Frames) /\ Len(stack') = Len(stack) + 1
        /\ stack'[1] = Frame(d) /\ stack'[2] = rest
        /\ \A k \in 3..(Len(stack) + 1) : stack'[k] = stack[k - 1]
    BY <1>2, <1>5, <1>7, <2>1, <2>2, Stacks
  <2> QED
    BY <1>1, <1>2, <1>4, <1>5, <1>9, <2>3
<1> QED
  BY <1>6, <1>8, <1>9

\* The call on top returns when no directory is left on its list.
LEMMA ReturnMoves ==
  ASSUME Types, Return
  PROVE  /\ stack # <<>> /\ stack[1].pc = "down" /\ stack[1].found = <<>>
         /\ tree' = tree /\ before' = before /\ store' = store
         /\ stack' \in Seq(Frames) /\ Len(stack') = Len(stack) - 1
         /\ \A k \in 1..(Len(stack) - 1) : stack'[k] = stack[k + 1]
<1>1. stack # <<>> /\ stack' = Tail(stack) /\ stack \in Seq(Frames)
  BY DEF Return, Types
<1>2. Top = stack[1] /\ Top \in Frames /\ Len(stack) > 0
  BY <1>1, TopFrame
<1>3. /\ Tail(stack) \in Seq(Frames) /\ Len(Tail(stack)) = Len(stack) - 1
      /\ \A k \in 1..(Len(stack) - 1) : Tail(stack)[k] = stack[k + 1]
  BY <1>1, <1>2, Stacks
<1> QED
  BY <1>1, <1>2, <1>3 DEF Return

\* What is there may grow at any time, and nothing else changes by that.
LEMMA UploadMoves ==
  ASSUME Types, Upload
  PROVE  /\ tree \subseteq tree' /\ tree' \subseteq Dirs \cup Names
         /\ before' = before /\ stack' = stack /\ store' = store
  BY DEF Types, Upload, Create, searchVars

\* All steps of the whole.
LEMMA Steps ==
  ASSUME [Next]_vars
  PROVE  \/ FindFirst \/ PassEnds \/ Descend \/ Return
         \/ \E e \in Entries : FindNext(e)
         \/ Upload
         \/ UNCHANGED <<tree, before, stack, store>>
<1>1. CASE Search
  BY <1>1 DEF Search, SearchStep, Entries
<1>2. CASE Upload
  BY <1>2
<1>3. CASE ~Search /\ ~Upload
  <2>1. UNCHANGED <<tree, searchVars>>
    BY <1>3 DEF Next, Program, OpenBoth, OpenText, CopyBlock, CopyEnds, ReadLine, ReadEnds,
                Spill, ClearAndGoOn, AddLine, vars
  <2> QED
    BY <2>1 DEF searchVars
<1> QED
  BY <1>1, <1>2, <1>3

------------------------------------------------------------------------------
(* Frames stay sound.                                                        *)

\* Uploads do no harm to a frame.
LEMMA SoundGrows ==
  ASSUME NEW fr, NEW t, NEW u, Sound(fr, t), t \subseteq u
  PROVE  Sound(fr, u)
  BY DEF Sound

\* A frame that goes on with the pass that it has, or ends the last one.
LEMMA SoundSame ==
  ASSUME NEW fr, NEW g, NEW t, Sound(fr, t),
         g.dir = fr.dir, g.passes = fr.passes, g.found = fr.found, g.seen = fr.seen,
         g.pc # "first", fr.pc # "down", g.pc = "down" => Len(fr.passes) = 1
  PROVE  Sound(g, t)
<1>1. Pass(g) = Pass(fr)
  BY DEF Pass
<1> QED
  BY <1>1 DEF Sound

\* The frame of a call that begins.
LEMMA SoundNew == ASSUME NEW d \in Dirs \cup {Root}, NEW t PROVE Sound(Frame(d), t)
<1>1. /\ Frame(d).passes = AllPasses /\ Frame(d).pc = "first" /\ Frame(d).seen = {}
      /\ Frame(d).found = <<>>
  BY NewFrame
<1>2. /\ Len(AllPasses) = Len(Patterns) + 1 /\ Len(Patterns) \in Nat
      /\ Len(AllPasses) \in 1..(Len(Patterns) + 1)
  BY PatternFacts
<1>3. Pass(Frame(d)) = 1
  BY <1>1, <1>2 DEF Pass
<1>4. \A j \in 1..Len(AllPasses) : AllPasses[j] = AllPasses[1 - 1 + j]
  BY <1>2
<1>5. \A i \in 1..Len(<<>>) : FALSE
  OBVIOUS
<1> QED
  BY <1>1, <1>2, <1>3, <1>4, <1>5 DEF Sound

\* The head of the passes is the pass of the frame's number.
LEMMA PassNumber ==
  ASSUME NEW fr \in Frames, NEW t, Sound(fr, t)
  PROVE  /\ Pass(fr) \in 1..(Len(Patterns) + 1) /\ fr.passes[1] = AllPasses[Pass(fr)]
         /\ Head(fr.passes) = fr.passes[1]
         /\ Len(fr.passes) \in Nat /\ Len(fr.passes) >= 1
         /\ Len(fr.passes) = 1 <=> Pass(fr) = Len(Patterns) + 1
         /\ Len(fr.passes) > 1 <=> Pass(fr) \in 1..Len(Patterns)
<1>1. Len(fr.passes) \in 1..(Len(Patterns) + 1) /\ Len(Patterns) \in Nat
  BY PatternFacts DEF Sound
<1> DEFINE n == Len(fr.passes)
           m == Len(Patterns)
<1>2. n \in Nat /\ n >= 1 /\ n <= m + 1 /\ m \in Nat
  BY <1>1
<1>3. Pass(fr) = m + 2 - n
  BY DEF Pass
<1>4. fr.passes[1] = AllPasses[Pass(fr) - 1 + 1] /\ fr.passes \in Seq(Passes)
  <2>1. 1 \in 1..Len(fr.passes)
    BY <1>2
  <2> QED
    BY <2>1, FrameParts DEF Sound
<1>5. Head(fr.passes) = fr.passes[1]
  BY <1>1, <1>4
<1> HIDE DEF n, m
<1>6. Pass(fr) \in 1..(m + 1) /\ Pass(fr) - 1 + 1 = Pass(fr)
  BY <1>2, <1>3
<1>7. n = 1 <=> Pass(fr) = m + 1
  BY <1>2, <1>3
<1>8. n > 1 <=> Pass(fr) \in 1..m
  BY <1>2, <1>3
<1> QED
  BY <1>2, <1>4, <1>5, <1>6, <1>7, <1>8 DEF n, m

\* The frame of the next pass.
LEMMA SoundNext ==
  ASSUME NEW fr \in Frames, NEW g, NEW t, Sound(fr, t), Len(fr.passes) > 1,
         g.passes = Tail(fr.passes), g.found = <<>>, g.seen = {}, g.pc = "first"
  PROVE  Sound(g, t) /\ Pass(g) = Pass(fr) + 1
<1>1. /\ fr.passes \in Seq(Passes) /\ Len(fr.passes) \in Nat /\ Len(fr.passes) >= 1
      /\ Len(fr.passes) \in 1..(Len(Patterns) + 1) /\ Len(Patterns) \in Nat
  BY FrameParts, PassNumber, PatternFacts DEF Sound
<1>2. /\ Len(g.passes) = Len(fr.passes) - 1
      /\ \A j \in 1..(Len(fr.passes) - 1) : g.passes[j] = fr.passes[j + 1]
  BY <1>1, EmptySeq, HeadTailProperties
<1>3. Pass(g) = Pass(fr) + 1
  <2>1. \A m, n \in Nat : m + 2 - (n - 1) = (m + 2 - n) + 1
    OBVIOUS
  <2>2. Len(Patterns) + 2 - (Len(fr.passes) - 1) = (Len(Patterns) + 2 - Len(fr.passes)) + 1
    BY <1>1, <2>1, Zenon
  <2> QED
    BY <1>2, <2>2, Zenon DEF Pass
<1>4. Len(g.passes) \in 1..(Len(Patterns) + 1)
  BY <1>1, <1>2
<1>5. ASSUME NEW j \in 1..Len(g.passes)
      PROVE  g.passes[j] = AllPasses[Pass(g) - 1 + j]
  <2>1. j \in 1..(Len(fr.passes) - 1) /\ j + 1 \in 1..Len(fr.passes)
    BY <1>1, <1>2
  <2>2. fr.passes[j + 1] = AllPasses[Pass(fr) - 1 + (j + 1)]
    BY <2>1 DEF Sound
  <2>3. Pass(fr) - 1 + (j + 1) = Pass(g) - 1 + j
    <3>1. Pass(fr) \in Nat /\ j \in Nat
      BY <1>1, <1>2, PassNumber
    <3>2. \A p, i \in Nat : p - 1 + (i + 1) = (p + 1) - 1 + i
      OBVIOUS
    <3> QED
      BY <1>3, <3>1, <3>2, Zenon
  <2> QED
    BY <1>2, <2>1, <2>2, <2>3
<1>6. \A i \in 1..Len(<<>>) : FALSE
  OBVIOUS
<1> QED
  BY <1>3, <1>4, <1>5, <1>6 DEF Sound

\* What the pass returns is what it is after, or passed over.
LEMMA SoundFinds ==
  ASSUME NEW fr \in Frames, NEW g, NEW t, NEW e \in Entries, Sound(fr, t), fr.pc = "next",
         g.dir = fr.dir, g.passes = fr.passes, g.pc = "next", g.seen = fr.seen \cup {e},
         e \notin fr.seen, e \in {Here, Up} \/ (e \in t /\ Parent[e] = fr.dir),
         Matches(e, fr.passes[1]),
         g.found = IF IsDirectory(e) <=> Len(fr.passes) = 1 THEN Append(fr.found, e) ELSE fr.found
  PROVE  Sound(g, t)
<1>1. Pass(g) = Pass(fr)
  BY DEF Pass
<1>2. CASE IsDirectory(e) <=> Len(fr.passes) = 1
  <2>1. g.found = Append(fr.found, e) /\ fr.found \in Seq(Entries)
    BY <1>2, FrameParts
  <2>2. /\ Len(g.found) = Len(fr.found) + 1 /\ Len(fr.found) \in Nat
        /\ \A i \in 1..Len(fr.found) : g.found[i] = fr.found[i]
        /\ g.found[Len(fr.found) + 1] = e
    BY <2>1, Lists
  <2>3. \A i \in 1..Len(g.found) : i \in 1..Len(fr.found) \/ i = Len(fr.found) + 1
    BY <2>2
  <2>4. \A i \in 1..Len(fr.found) : fr.found[i] # e
    BY DEF Sound
  <2>5. ASSUME NEW i \in 1..Len(g.found), NEW j \in 1..Len(g.found), i # j
        PROVE  g.found[i] # g.found[j]
    <3>1. CASE i \in 1..Len(fr.found) /\ j \in 1..Len(fr.found)
      <4>1. fr.found[i] # fr.found[j]
        BY <2>5, <3>1, Zenon DEF Sound
      <4> QED
        BY <2>2, <3>1, <4>1, Zenon
    <3>2. CASE i = Len(fr.found) + 1 /\ j \in 1..Len(fr.found)
      BY <2>2, <2>4, <3>2, Zenon
    <3>3. CASE i \in 1..Len(fr.found) /\ j = Len(fr.found) + 1
      BY <2>2, <2>4, <3>3, Zenon
    <3> QED
      BY <2>3, <2>5, <3>1, <3>2, <3>3, Zenon
  <2>6. ASSUME NEW i \in 1..Len(g.found)
        PROVE  /\ g.found[i] \in {Here, Up} \/ (g.found[i] \in t /\ Parent[g.found[i]] = g.dir)
               /\ Matches(g.found[i], g.passes[1])
               /\ IsDirectory(g.found[i]) <=> Len(g.passes) = 1
               /\ g.pc # "down" => g.found[i] \in g.seen
    <3>1. CASE i \in 1..Len(fr.found)
      BY <2>2, <3>1 DEF Sound
    <3>2. CASE i = Len(fr.found) + 1
      BY <1>2, <2>2, <3>2
    <3> QED
      BY <2>3, <3>1, <3>2
  <2> QED
    BY <1>1, <2>5, <2>6 DEF Sound
<1>3. CASE ~(IsDirectory(e) <=> Len(fr.passes) = 1)
  <2>1. g.found = fr.found
    BY <1>3
  <2> QED
    BY <1>1, <2>1 DEF Sound
<1> QED
  BY <1>2, <1>3

\* The frame that has taken a directory off its list.
LEMMA SoundTakes ==
  ASSUME NEW fr \in Frames, NEW g, NEW t, Sound(fr, t), fr.pc = "down", Len(fr.found) > 0,
         g.dir = fr.dir, g.passes = fr.passes, g.pc = "down", g.seen = fr.seen,
         g.found = Tail(fr.found)
  PROVE  /\ Sound(g, t)
         /\ \A i \in 1..Len(g.found) : g.found[i] # fr.found[1]
<1>1. Pass(g) = Pass(fr)
  BY DEF Pass
<1>2. /\ Len(g.found) = Len(fr.found) - 1 /\ Len(fr.found) \in Nat
      /\ \A i \in 1..Len(g.found) : g.found[i] = fr.found[i + 1]
  BY FrameParts, EmptySeq, HeadTailProperties
<1>3. /\ \A i \in 1..Len(g.found) : i + 1 \in 1..Len(fr.found) /\ i + 1 # 1
      /\ \A i, j \in 1..Len(g.found) : i # j => i + 1 # j + 1
      /\ 1 \in 1..Len(fr.found)
  BY <1>2
<1>4. \A i, j \in 1..Len(g.found) : i # j => g.found[i] # g.found[j]
  BY <1>2, <1>3 DEF Sound
<1>5. \A i \in 1..Len(g.found) : g.found[i] # fr.found[1]
  BY <1>2, <1>3 DEF Sound
<1>6. ASSUME NEW i \in 1..Len(g.found)
      PROVE  /\ g.found[i] \in {Here, Up} \/ (g.found[i] \in t /\ Parent[g.found[i]] = g.dir)
             /\ Matches(g.found[i], g.passes[1])
             /\ IsDirectory(g.found[i]) <=> Len(g.passes) = 1
  BY <1>2, <1>3 DEF Sound
<1> QED
  BY <1>1, <1>4, <1>5, <1>6 DEF Sound

\* A pass for files finds files that are there.
LEMMA FilesFound ==
  ASSUME Types, NEW fr \in Frames, Sound(fr, tree), Len(fr.passes) > 1
  PROVE  /\ fr.found \in Seq(Names) /\ Len(fr.found) \in Nat
         /\ \A i \in 1..Len(fr.found) : /\ fr.found[i] \in Names \cap tree
                                        /\ Parent[fr.found[i]] = fr.dir
                                        /\ Matches(fr.found[i], Patterns[Pass(fr)])
<1>1. fr.found \in Seq(Entries) /\ Len(fr.found) \in Nat
  BY FrameParts
<1>2. /\ Len(fr.passes) # 1 /\ Pass(fr) \in 1..Len(Patterns)
      /\ fr.passes[1] = Patterns[Pass(fr)]
  <2>1. Len(fr.passes) \in Nat /\ Len(fr.passes) # 1 /\ Pass(fr) \in 1..Len(Patterns)
    BY PassNumber
  <2> QED
    BY <2>1, PassNumber, PatternFacts
<1>3. ASSUME NEW i \in 1..Len(fr.found)
      PROVE  /\ fr.found[i] \in Names \cap tree /\ Parent[fr.found[i]] = fr.dir
             /\ Matches(fr.found[i], Patterns[Pass(fr)])
  <2>1. ~IsDirectory(fr.found[i])
    BY <1>2 DEF Sound
  <2>2. fr.found[i] \notin {Here, Up} /\ fr.found[i] \notin Dirs
    BY <2>1 DEF IsDirectory
  <2>3. fr.found[i] \in tree /\ Parent[fr.found[i]] = fr.dir
    BY <2>2 DEF Sound
  <2>4. fr.found[i] \in Names
    BY <2>2, <2>3 DEF Types
  <2>5. Matches(fr.found[i], Patterns[Pass(fr)])
    BY <1>2 DEF Sound
  <2> QED
    BY <2>3, <2>4, <2>5
<1>4. fr.found \in Seq(Names)
  BY <1>1, <1>3
<1> QED
  BY <1>1, <1>3, <1>4

\* Every step keeps the types.
LEMMA TypesStep == ASSUME Types, FramesSound, [Next]_vars PROVE Types'
<1>1. CASE FindFirst
  <2>1. TopStep /\ store' = store
    BY <1>1, FindFirstMoves
  <2> QED
    BY <2>1 DEF Types, TopStep
<1>2. CASE \E e \in Entries : FindNext(e)
  <2>1. TopStep /\ store' = store
    BY <1>2, FindNextMoves
  <2> QED
    BY <2>1 DEF Types, TopStep
<1>3. CASE PassEnds
  <2>1. TopStep /\ (store' = store \/ (Len(stack[1].passes) > 1 /\ store' = store \o stack[1].found))
    BY <1>3, PassEndsMoves
  <2>2. stack[1] \in Frames /\ Sound(stack[1], tree)
    BY <1>3, TopFrame DEF PassEnds, FramesSound
  <2>3. store' \in Seq(Names)
    <3>1. CASE store' = store
      BY <3>1 DEF Types
    <3>2. CASE Len(stack[1].passes) > 1 /\ store' = store \o stack[1].found
      <4>1. stack[1].found \in Seq(Names)
        BY <2>2, <3>2, FilesFound
      <4> QED
        BY <3>2, <4>1, ConcatProperties DEF Types
    <3> QED
      BY <2>1, <3>1, <3>2
  <2> QED
    BY <2>1, <2>3 DEF Types, TopStep
<1>4. CASE Descend
  <2>1. tree' = tree /\ before' = before /\ store' = store /\ stack' \in Seq(Frames)
    BY <1>4, DescendMoves
  <2> QED
    BY <2>1 DEF Types
<1>5. CASE Return
  <2>1. tree' = tree /\ before' = before /\ store' = store /\ stack' \in Seq(Frames)
    BY <1>5, ReturnMoves
  <2> QED
    BY <2>1 DEF Types
<1>6. CASE Upload
  <2>1. /\ tree \subseteq tree' /\ tree' \subseteq Dirs \cup Names
        /\ before' = before /\ stack' = stack /\ store' = store
    BY <1>6, UploadMoves
  <2> QED
    BY <2>1 DEF Types
<1>7. CASE UNCHANGED <<tree, before, stack, store>>
  BY <1>7 DEF Types
<1> QED
  BY <1>1, <1>2, <1>3, <1>4, <1>5, <1>6, <1>7, Steps

\* When only the frame on top changes, the others are as sound as they were.
LEMMA TopSound ==
  ASSUME Types, FramesSound, TopStep, Sound(stack'[1], tree)
  PROVE  FramesSound'
<1>1. /\ Len(stack') = Len(stack) /\ tree' = tree /\ Len(stack) \in Nat
      /\ \A k \in 2..Len(stack) : stack'[k] = stack[k]
  BY DEF TopStep, Types
<1>2. ASSUME NEW k \in 1..Len(stack') PROVE Sound(stack'[k], tree)
  <2>1. k = 1 \/ k \in 2..Len(stack)
    BY <1>1
  <2>2. CASE k = 1
    BY <2>2
  <2>3. CASE k \in 2..Len(stack)
    <3>1. k \in 1..Len(stack)
      BY <2>3
    <3> QED
      BY <1>1, <2>3, <3>1 DEF FramesSound
  <2> QED
    BY <2>1, <2>2, <2>3
<1> QED
  BY <1>1, <1>2 DEF FramesSound

\* Every step keeps the frames sound.
LEMMA SoundStep == ASSUME Types, FramesSound, [Next]_vars PROVE FramesSound'
<1>1. CASE FindFirst
  <2>1. stack[1] \in Frames /\ Sound(stack[1], tree)
    BY <1>1, TopFrame DEF FindFirst, FramesSound
  <2>2. Sound(stack'[1], tree)
    BY <1>1, <2>1, FindFirstMoves, SoundSame DEF TopStep
  <2> QED
    BY <1>1, <2>2, FindFirstMoves, TopSound
<1>2. ASSUME NEW e \in Entries, FindNext(e) PROVE FramesSound'
  <2>1. /\ stack[1] \in Frames /\ Sound(stack[1], tree) /\ Top = stack[1]
        /\ Head(stack[1].passes) = stack[1].passes[1]
    BY <1>2, TopFrame, PassNumber DEF FindNext, FramesSound
  <2>2. /\ e \notin stack[1].seen /\ Matches(e, stack[1].passes[1])
        /\ e \in {Here, Up} \/ (e \in tree /\ Parent[e] = stack[1].dir)
    <3>1. e \in Present \ stack[1].seen
      BY <1>2, FindNextMoves
    <3> QED
      BY <2>1, <3>1 DEF Present
  <2>3. Sound(stack'[1], tree)
    BY <1>2, <2>1, <2>2, FindNextMoves, SoundFinds DEF TopStep
  <2> QED
    BY <1>2, <2>3, FindNextMoves, TopSound
<1>3. CASE PassEnds
  <2>1. stack[1] \in Frames /\ Sound(stack[1], tree) /\ TopStep
    BY <1>3, TopFrame, PassEndsMoves DEF PassEnds, FramesSound
  <2>2. Sound(stack'[1], tree)
    <3>1. CASE /\ Len(stack[1].passes) = 1 /\ store' = store
               /\ stack'[1].pc = "down" /\ stack'[1].passes = stack[1].passes
               /\ stack'[1].found = stack[1].found /\ stack'[1].seen = stack[1].seen
      BY <2>1, <3>1, SoundSame DEF TopStep
    <3>2. CASE /\ Len(stack[1].passes) > 1
               /\ stack'[1].pc = "first" /\ stack'[1].passes = Tail(stack[1].passes)
               /\ stack'[1].found = <<>> /\ stack'[1].seen = {}
      BY <2>1, <3>2, SoundNext
    <3> QED
      BY <1>3, <3>1, <3>2, PassEndsMoves
  <2> QED
    BY <2>1, <2>2, TopSound
<1>4. CASE Descend
  <2>1. /\ stack # <<>> /\ stack[1].pc = "down" /\ Len(stack[1].found) > 0 /\ tree' = tree
    BY <1>4, DescendMoves
  <2>2. stack[1] \in Frames /\ Sound(stack[1], tree) /\ Len(stack) \in Nat /\ Len(stack) > 0
    BY <2>1, TopFrame DEF FramesSound
  <2>3. PICK rest \in Frames :
              /\ rest.dir = stack[1].dir /\ rest.pc = "down" /\ rest.passes = stack[1].passes
              /\ rest.found = Tail(stack[1].found) /\ rest.seen = stack[1].seen
              /\ \/ /\ stack[1].found[1] \in {Here, Up}
                    /\ stack' \in Seq(Frames) /\ Len(stack') = Len(stack) /\ stack'[1] = rest
                    /\ \A k \in 2..Len(stack) : stack'[k] = stack[k]
                 \/ /\ stack[1].found[1] \in Dirs
                    /\ stack' \in Seq(Frames) /\ Len(stack') = Len(stack) + 1
                    /\ stack'[1] = Frame(stack[1].found[1]) /\ stack'[2] = rest
                    /\ \A k \in 3..(Len(stack) + 1) : stack'[k] = stack[k - 1]
    BY <1>4, DescendMoves
  <2>4. Sound(rest, tree)
    BY <2>1, <2>2, <2>3, SoundTakes
  <2>5. ASSUME Len(stack') = Len(stack), stack'[1] = rest,
               \A k \in 2..Len(stack) : stack'[k] = stack[k], NEW k \in 1..Len(stack')
        PROVE  Sound(stack'[k], tree)
    <3>1. k = 1 \/ (k \in 2..Len(stack) /\ k \in 1..Len(stack))
      BY <2>2, <2>5
    <3> QED
      BY <2>4, <2>5, <3>1 DEF FramesSound
  <2>6. ASSUME Len(stack') = Len(stack) + 1, stack[1].found[1] \in Dirs,
               stack'[1] = Frame(stack[1].found[1]), stack'[2] = rest,
               \A k \in 3..(Len(stack) + 1) : stack'[k] = stack[k - 1], NEW k \in 1..Len(stack')
        PROVE  Sound(stack'[k], tree)
    <3>1. k = 1 \/ k = 2 \/ (k \in 3..(Len(stack) + 1) /\ k - 1 \in 1..Len(stack))
      BY <2>2, <2>6
    <3>2. Sound(Frame(stack[1].found[1]), tree)
      BY <2>6, SoundNew
    <3> QED
      BY <2>4, <2>6, <3>1, <3>2 DEF FramesSound
  <2>7. \A k \in 1..Len(stack') : Sound(stack'[k], tree)
    BY <2>3, <2>5, <2>6
  <2> QED
    BY <2>1, <2>7 DEF FramesSound
<1>5. CASE Return
  <2>1. /\ Len(stack') = Len(stack) - 1 /\ tree' = tree
        /\ \A k \in 1..(Len(stack) - 1) : stack'[k] = stack[k + 1]
    BY <1>5, ReturnMoves
  <2>2. Len(stack) \in Nat
    BY DEF Types
  <2>3. \A k \in 1..Len(stack') : k \in 1..(Len(stack) - 1) /\ k + 1 \in 1..Len(stack)
    BY <2>1, <2>2
  <2> QED
    BY <2>1, <2>3 DEF FramesSound
<1>6. CASE Upload
  <2>1. tree \subseteq tree' /\ stack' = stack
    BY <1>6, UploadMoves
  <2> QED
    BY <2>1, SoundGrows DEF FramesSound
<1>7. CASE UNCHANGED <<tree, before, stack, store>>
  BY <1>7 DEF FramesSound
<1> QED
  BY <1>1, <1>2, <1>3, <1>4, <1>5, <1>6, <1>7, Steps

------------------------------------------------------------------------------
(* The calls stay a chain.                                                   *)

\* The frame on top has changed, but not its directory.
TopChanges == /\ Len(stack) > 0 /\ Len(stack') = Len(stack)
              /\ stack'[1].dir = stack[1].dir
              /\ \A k \in 2..Len(stack) : stack'[k] = stack[k]

\* The frame on top has taken d off its list.
Takes(rest, d) ==
  /\ stack # <<>> /\ stack[1].pc = "down" /\ Len(stack[1].found) > 0 /\ d = stack[1].found[1]
  /\ stack' \in Seq(Frames) /\ rest \in Frames
  /\ rest.dir = stack[1].dir /\ rest.pc = "down" /\ rest.passes = stack[1].passes
  /\ rest.found = Tail(stack[1].found)

\* It is "." or "..", and the next one is looked at.
PassesOver(rest, d) ==
  /\ Takes(rest, d) /\ d \in {Here, Up} /\ Len(stack') = Len(stack) /\ stack'[1] = rest
  /\ \A k \in 2..Len(stack) : stack'[k] = stack[k]

\* It is a directory, and find() is called for it.
Calls(rest, d) ==
  /\ Takes(rest, d) /\ d \in Dirs /\ Len(stack') = Len(stack) + 1
  /\ stack'[1] = Frame(d) /\ stack'[2] = rest
  /\ \A k \in 3..(Len(stack) + 1) : stack'[k] = stack[k - 1]

\* The call on top has returned.
Returns == /\ stack # <<>> /\ stack[1].pc = "down" /\ stack[1].found = <<>>
           /\ stack' \in Seq(Frames) /\ Len(stack') = Len(stack) - 1
           /\ \A k \in 1..(Len(stack) - 1) : stack'[k] = stack[k + 1]

\* The kinds of steps, as the rest of the proof takes them.
LEMMA Kinds ==
  ASSUME Types, FramesSound, [Next]_vars
  PROVE  \/ TopStep
         \/ /\ tree' = tree /\ before' = before /\ store' = store
            /\ \/ \E rest, d : PassesOver(rest, d) \/ Calls(rest, d)
               \/ Returns
         \/ /\ tree \subseteq tree' /\ before' = before /\ stack' = stack /\ store' = store
<1>1. CASE FindFirst
  BY <1>1, FindFirstMoves
<1>2. CASE \E e \in Entries : FindNext(e)
  BY <1>2, FindNextMoves
<1>3. CASE PassEnds
  BY <1>3, PassEndsMoves
<1>4. CASE Descend
  BY <1>4, DescendMoves DEF PassesOver, Calls, Takes
<1>5. CASE Return
  BY <1>5, ReturnMoves DEF Returns
<1>6. CASE Upload
  BY <1>6, UploadMoves
<1>7. CASE UNCHANGED <<tree, before, stack, store>>
  BY <1>7
<1> QED
  BY <1>1, <1>2, <1>3, <1>4, <1>5, <1>6, <1>7, Steps

\* The search has ended when the length of the stack is 0.
LEMMA StackLength == ASSUME Types PROVE Len(stack) \in Nat /\ (stack # <<>> <=> Len(stack) > 0)
  BY EmptySeq DEF Types

\* A change of the top frame changes none of the directories that are open.
LEMMA TopDirs ==
  ASSUME Types, TopChanges
  PROVE  /\ \A k \in 1..Len(stack) : stack'[k].dir = stack[k].dir
         /\ \A d : Open(stack', d) <=> Open(stack, d)
<1>1. \A k \in 1..Len(stack) : k = 1 \/ k \in 2..Len(stack)
  BY StackLength
<1>2. \A k \in 1..Len(stack) : stack'[k].dir = stack[k].dir
  BY <1>1 DEF TopChanges
<1> QED
  BY <1>2 DEF TopChanges, Open

\* A change of the top frame keeps the chain.
LEMMA ChainTop == ASSUME Types, Chain, TopChanges PROVE Chain'
<1>1. Len(stack') = Len(stack) /\ Len(stack) \in Nat /\ Len(stack) > 0
  BY StackLength DEF TopChanges
<1>2. stack'[Len(stack)].dir = Root
  BY <1>1, TopDirs DEF Chain
<1>3. ASSUME NEW k \in 1..(Len(stack) - 1)
      PROVE  /\ stack'[k].dir \in Dirs /\ Parent[stack'[k].dir] = stack'[k + 1].dir
             /\ stack'[k + 1].pc = "down"
             /\ \A i \in 1..Len(stack'[k + 1].found) : stack'[k + 1].found[i] # stack'[k].dir
  <2>1. k \in 1..Len(stack) /\ k + 1 \in 2..Len(stack)
    BY <1>1
  <2>2. stack'[k].dir = stack[k].dir /\ stack'[k + 1] = stack[k + 1]
    BY <2>1, TopDirs DEF TopChanges
  <2> QED
    BY <2>2 DEF Chain
<1>4. \A j, k \in 1..Len(stack) : j # k => stack'[j].dir # stack'[k].dir
  BY TopDirs DEF Chain
<1> QED
  BY <1>1, <1>2, <1>3, <1>4 DEF Chain

\* A directory that find() is called for is one below that of the caller, and find()
\* is not in it.
LEMMA CalledDir ==
  ASSUME Types, FramesSound, Chain, NEW rest, NEW d, Calls(rest, d)
  PROVE  /\ d \in tree /\ Parent[d] = stack[1].dir /\ ~Open(stack, d)
         /\ \A i \in 1..Len(rest.found) : rest.found[i] # d
         /\ In(d, stack[1].found)
<1>1. /\ stack # <<>> /\ stack[1] \in Frames /\ Sound(stack[1], tree) /\ 1 \in 1..Len(stack)
      /\ Len(stack) \in Nat
  BY TopFrame DEF Calls, Takes, FramesSound
<1>2. 1 \in 1..Len(stack[1].found) /\ d = stack[1].found[1] /\ d \in Dirs
  BY <1>1, FrameParts DEF Calls, Takes
<1>3. d \notin {Here, Up}
  BY <1>2, TreeAssumption
<1>4. d \in tree /\ Parent[d] = stack[1].dir
  BY <1>1, <1>2, <1>3 DEF Sound
<1>5. \A i \in 1..Len(rest.found) : rest.found[i] # d
  BY <1>1, <1>2, SoundTakes, FrameParts DEF Calls, Takes, Sound
<1>6. ASSUME NEW k \in 1..Len(stack), stack[k].dir = d PROVE FALSE
  <2>1. CASE k = Len(stack)
    <3>1. d = Root
      BY <1>1, <1>6, <2>1 DEF Chain
    <3> QED
      BY <1>2, <3>1, TreeAssumption
  <2>2. CASE k # Len(stack)
    <3>1. k \in 1..(Len(stack) - 1) /\ k + 1 \in 1..Len(stack) /\ k + 1 # 1
      BY <1>1, <2>2
    <3>2. Parent[d] = stack[k + 1].dir
      BY <1>6, <3>1 DEF Chain
    <3>3. stack[k + 1].dir # stack[1].dir
      BY <1>1, <3>1, Zenon DEF Chain
    <3> QED
      BY <1>4, <3>2, <3>3
  <2> QED
    BY <2>1, <2>2
<1> QED
  BY <1>2, <1>4, <1>5, <1>6 DEF Open, In

\* A call of find() makes the chain one longer.
LEMMA ChainCalls ==
  ASSUME Types, FramesSound, Chain, NEW rest, NEW d, Calls(rest, d)
  PROVE  Chain'
<1>1. /\ Len(stack') = Len(stack) + 1 /\ Len(stack) \in Nat /\ Len(stack) > 0
      /\ stack'[1] = Frame(d) /\ stack'[2] = rest /\ d \in Dirs
      /\ \A k \in 3..(Len(stack) + 1) : stack'[k] = stack[k - 1]
      /\ rest.dir = stack[1].dir /\ rest.pc = "down" /\ Frame(d).dir = d
  BY StackLength, NewFrame DEF Calls, Takes
<1>2. \A k \in 2..(Len(stack) + 1) : stack'[k].dir = stack[k - 1].dir /\ k - 1 \in 1..Len(stack)
  <2>1. \A k \in 2..(Len(stack) + 1) : /\ k = 2 \/ k \in 3..(Len(stack) + 1)
                                       /\ k - 1 \in 1..Len(stack) /\ (k = 2 => k - 1 = 1)
    BY <1>1
  <2> QED
    BY <1>1, <2>1
<1>3. stack'[Len(stack')].dir = Root
  <2>1. Len(stack) + 1 \in 2..(Len(stack) + 1) /\ (Len(stack) + 1) - 1 = Len(stack)
    BY <1>1
  <2> QED
    BY <1>1, <1>2, <2>1 DEF Chain
<1>4. ASSUME NEW k \in 1..(Len(stack') - 1)
      PROVE  /\ stack'[k].dir \in Dirs /\ Parent[stack'[k].dir] = stack'[k + 1].dir
             /\ stack'[k + 1].pc = "down"
             /\ \A i \in 1..Len(stack'[k + 1].found) : stack'[k + 1].found[i] # stack'[k].dir
  <2>1. CASE k = 1
    <3>1. k + 1 = 2
      BY <2>1
    <3> QED
      BY <1>1, <2>1, <3>1, CalledDir
  <2>2. CASE k # 1
    <3>1. /\ k \in 2..(Len(stack) + 1) /\ k - 1 \in 1..(Len(stack) - 1)
          /\ k + 1 \in 3..(Len(stack) + 1) /\ (k + 1) - 1 = (k - 1) + 1
      BY <1>1, <2>2
    <3>2. stack'[k].dir = stack[k - 1].dir
      BY <1>2, <3>1, Zenon
    <3>3. stack'[k + 1] = stack[(k + 1) - 1]
      BY <1>1, <3>1, Zenon
    <3>4. /\ stack[k - 1].dir \in Dirs /\ Parent[stack[k - 1].dir] = stack[(k - 1) + 1].dir
          /\ stack[(k - 1) + 1].pc = "down"
          /\ \A i \in 1..Len(stack[(k - 1) + 1].found) : stack[(k - 1) + 1].found[i] # stack[k - 1].dir
      BY <3>1, Zenon DEF Chain
    <3>5. stack'[k + 1] = stack[(k - 1) + 1]
      BY <3>1, <3>3
    <3> QED
      BY <3>2, <3>4, <3>5, Zenon
  <2> QED
    BY <2>1, <2>2
<1>5. ASSUME NEW j \in 1..Len(stack'), NEW k \in 1..Len(stack'), j # k
      PROVE  stack'[j].dir # stack'[k].dir
  <2>1. \A i \in 1..Len(stack') : i = 1 \/ i \in 2..(Len(stack) + 1)
    BY <1>1
  <2>2. \A i \in 2..(Len(stack) + 1) : stack[i - 1].dir # d
    BY <1>2, CalledDir DEF Open
  <2>3. CASE j = 1 \/ k = 1
    BY <1>1, <1>2, <1>5, <2>1, <2>2, <2>3
  <2>4. CASE j # 1 /\ k # 1
    <3>1. j \in 2..(Len(stack) + 1) /\ k \in 2..(Len(stack) + 1)
      BY <1>5, <2>1, <2>4
    <3>2. j - 1 \in 1..Len(stack) /\ k - 1 \in 1..Len(stack) /\ j - 1 # k - 1
      BY <1>1, <1>5, <3>1
    <3>3. stack[j - 1].dir # stack[k - 1].dir
      BY <3>2, Zenon DEF Chain
    <3>4. stack'[j].dir = stack[j - 1].dir /\ stack'[k].dir = stack[k - 1].dir
      BY <1>2, <3>1, Zenon
    <3> QED
      BY <3>3, <3>4
  <2> QED
    BY <2>3, <2>4
<1> QED
  BY <1>1, <1>3, <1>4, <1>5 DEF Chain

\* A return makes the chain one shorter.
LEMMA ChainReturns == ASSUME Types, Chain, Returns PROVE Chain'
<1>1. /\ Len(stack') = Len(stack) - 1 /\ Len(stack) \in Nat /\ Len(stack) > 0
      /\ \A k \in 1..(Len(stack) - 1) : stack'[k] = stack[k + 1]
  BY StackLength DEF Returns
<1>2. Len(stack') > 0 => stack'[Len(stack')].dir = Root
  <2>1. Len(stack') > 0 => Len(stack') \in 1..(Len(stack) - 1) /\ Len(stack') + 1 = Len(stack)
    BY <1>1
  <2> QED
    BY <1>1, <2>1 DEF Chain
<1>3. ASSUME NEW k \in 1..(Len(stack') - 1)
      PROVE  /\ stack'[k].dir \in Dirs /\ Parent[stack'[k].dir] = stack'[k + 1].dir
             /\ stack'[k + 1].pc = "down"
             /\ \A i \in 1..Len(stack'[k + 1].found) : stack'[k + 1].found[i] # stack'[k].dir
  <2>1. /\ k \in 1..(Len(stack) - 1) /\ k + 1 \in 1..(Len(stack) - 1)
    BY <1>1
  <2>2. stack'[k] = stack[k + 1] /\ stack'[k + 1] = stack[(k + 1) + 1]
    BY <1>1, <2>1
  <2> QED
    BY <2>1, <2>2 DEF Chain
<1>4. ASSUME NEW j \in 1..Len(stack'), NEW k \in 1..Len(stack'), j # k
      PROVE  stack'[j].dir # stack'[k].dir
  <2>1. /\ j \in 1..(Len(stack) - 1) /\ k \in 1..(Len(stack) - 1)
        /\ j + 1 \in 1..Len(stack) /\ k + 1 \in 1..Len(stack) /\ j + 1 # k + 1
    BY <1>1, <1>4
  <2> QED
    BY <1>1, <2>1 DEF Chain
<1> QED
  BY <1>2, <1>3, <1>4 DEF Chain

\* Every step keeps the chain.
LEMMA ChainStep == ASSUME Types, FramesSound, Chain, [Next]_vars PROVE Chain'
<1>1. CASE TopStep
  BY <1>1, ChainTop DEF TopStep, TopChanges
<1>2. CASE \E rest, d : PassesOver(rest, d)
  <2>1. TopChanges
    BY <1>2, StackLength DEF PassesOver, Takes, TopChanges
  <2> QED
    BY <2>1, ChainTop
<1>3. CASE \E rest, d : Calls(rest, d)
  BY <1>3, ChainCalls
<1>4. CASE Returns
  BY <1>4, ChainReturns
<1>5. CASE stack' = stack
  BY <1>5 DEF Chain
<1> QED
  BY <1>1, <1>2, <1>3, <1>4, <1>5, Kinds

------------------------------------------------------------------------------
(* The directories that were left.                                           *)

\* In a pass no directory is left.
LEMMA LeftTop ==
  ASSUME Types, NEW D \in SUBSET (Dirs \cup {Root}), Left(D, stack), TopStep
  PROVE  Left(D, stack')
<1>1. TopChanges /\ Len(stack) \in Nat /\ stack[1].pc # "down"
  BY StackLength DEF TopStep, TopChanges
<1>2. /\ Len(stack') = Len(stack) /\ stack' # <<>>
      /\ \A d : Open(stack', d) <=> Open(stack, d)
      /\ \A k \in 1..Len(stack) : stack'[k].dir = stack[k].dir
  BY <1>1, TopDirs DEF TopChanges
<1>3. ASSUME NEW d \in D \cap Dirs, NEW k \in 1..Len(stack'), Parent[d] = stack'[k].dir
      PROVE  stack'[k].pc = "down" /\ \A i \in 1..Len(stack'[k].found) : stack'[k].found[i] # d
  <2>1. k \in 1..Len(stack) /\ Parent[d] = stack[k].dir
    BY <1>2, <1>3
  <2>2. stack[k].pc = "down" /\ \A i \in 1..Len(stack[k].found) : stack[k].found[i] # d
    BY <2>1 DEF Left
  <2>3. k \in 2..Len(stack)
    BY <1>1, <2>1, <2>2
  <2>4. stack'[k] = stack[k]
    BY <1>1, <2>3 DEF TopChanges
  <2> QED
    BY <2>2, <2>4
<1>4. /\ \A d \in D : ~Open(stack', d)
      /\ \A d \in D \cap Dirs : Parent[d] \in D \/ Open(stack', Parent[d])
  BY <1>2 DEF Left
<1> QED
  BY <1>2, <1>3, <1>4 DEF Left

\* What is still on the list after one was taken off was on it before.
LEMMA RestFound ==
  ASSUME Types, NEW rest, NEW d, Takes(rest, d)
  PROVE  /\ \A i \in 1..Len(rest.found) : In(rest.found[i], stack[1].found)
         /\ \A x : In(x, stack[1].found) <=> x = d \/ In(x, rest.found)
<1>1. stack[1] \in Frames /\ stack[1].found \in Seq(Entries) /\ Len(stack[1].found) > 0
  BY TopFrame, FrameParts DEF Takes
<1>2. /\ rest.found = Tail(stack[1].found) /\ d = stack[1].found[1]
      /\ stack[1].found[1] \in Entries
  BY <1>1, Lists DEF Takes
<1>3. \A x : In(x, stack[1].found) <=> x = d \/ In(x, rest.found)
  BY <1>1, <1>2, Lists
<1> QED
  BY <1>3 DEF In

\* None is left by passing over "." and "..".
LEMMA LeftPasses ==
  ASSUME Types, NEW D \in SUBSET (Dirs \cup {Root}), Left(D, stack),
         NEW rest, NEW e, PassesOver(rest, e)
  PROVE  Left(D, stack')
<1>1. /\ TopChanges /\ Len(stack) \in Nat /\ stack'[1] = rest /\ stack[1].pc = "down"
      /\ rest.pc = "down" /\ Takes(rest, e)
  BY StackLength DEF PassesOver, Takes, TopChanges
<1>2. /\ Len(stack') = Len(stack) /\ stack' # <<>>
      /\ \A d : Open(stack', d) <=> Open(stack, d)
      /\ \A k \in 1..Len(stack) : stack'[k].dir = stack[k].dir
  BY <1>1, TopDirs DEF TopChanges
<1>3. ASSUME NEW d \in D \cap Dirs, NEW k \in 1..Len(stack'), Parent[d] = stack'[k].dir
      PROVE  stack'[k].pc = "down" /\ \A i \in 1..Len(stack'[k].found) : stack'[k].found[i] # d
  <2>1. k \in 1..Len(stack) /\ Parent[d] = stack[k].dir
    BY <1>2, <1>3
  <2>2. stack[k].pc = "down" /\ \A i \in 1..Len(stack[k].found) : stack[k].found[i] # d
    BY <2>1 DEF Left
  <2>3. CASE k = 1
    <3>1. ~In(d, stack[1].found)
      BY <2>2, <2>3 DEF In
    <3> QED
      BY <1>1, <2>3, <3>1, RestFound
  <2>4. CASE k # 1
    <3>1. k \in 2..Len(stack)
      BY <1>1, <2>1, <2>4
    <3>2. stack'[k] = stack[k]
      BY <1>1, <3>1 DEF TopChanges
    <3> QED
      BY <2>2, <3>2
  <2> QED
    BY <2>3, <2>4
<1>4. /\ \A d \in D : ~Open(stack', d)
      /\ \A d \in D \cap Dirs : Parent[d] \in D \/ Open(stack', Parent[d])
  BY <1>2 DEF Left
<1> QED
  BY <1>2, <1>3, <1>4 DEF Left

\* What find() is in after it was called for d.
LEMMA CallsOpen ==
  ASSUME Types, NEW rest, NEW d, Calls(rest, d)
  PROVE  /\ Len(stack') = Len(stack) + 1 /\ Len(stack) \in Nat /\ Len(stack) > 0
         /\ stack'[1] = Frame(d) /\ stack'[2] = rest /\ rest.dir = stack[1].dir
         /\ \A k \in 3..(Len(stack) + 1) : stack'[k] = stack[k - 1] /\ k - 1 \in 2..Len(stack)
         /\ \A k \in 1..Len(stack') : k = 1 \/ k = 2 \/ k \in 3..(Len(stack) + 1)
         /\ \A c : Open(stack', c) <=> c = d \/ Open(stack, c)
<1>1. /\ Len(stack') = Len(stack) + 1 /\ Len(stack) \in Nat /\ Len(stack) > 0
      /\ stack'[1] = Frame(d) /\ stack'[2] = rest /\ rest.dir = stack[1].dir
      /\ Frame(d).dir = d
      /\ \A k \in 3..(Len(stack) + 1) : stack'[k] = stack[k - 1]
  BY StackLength, NewFrame DEF Calls, Takes
<1>2. /\ \A k \in 1..Len(stack') : k = 1 \/ k = 2 \/ k \in 3..(Len(stack) + 1)
      /\ \A k \in 3..(Len(stack) + 1) : k - 1 \in 2..Len(stack) /\ k - 1 \in 1..Len(stack)
  BY <1>1
<1>3. ASSUME NEW c, Open(stack', c) PROVE c = d \/ Open(stack, c)
  <2>1. PICK k \in 1..Len(stack') : stack'[k].dir = c
    BY <1>3 DEF Open
  <2>2. 1 \in 1..Len(stack)
    BY <1>1
  <2> QED
    BY <1>1, <1>2, <2>1, <2>2 DEF Open
<1>4. ASSUME NEW c, Open(stack, c) PROVE Open(stack', c)
  <2>1. PICK k \in 1..Len(stack) : stack[k].dir = c
    BY <1>4 DEF Open
  <2>2. CASE k = 1
    <3>1. 2 \in 1..Len(stack')
      BY <1>1
    <3> QED
      BY <1>1, <2>1, <2>2, <3>1 DEF Open
  <2>3. CASE k # 1
    <3>1. k + 1 \in 3..(Len(stack) + 1) /\ k + 1 \in 1..Len(stack') /\ (k + 1) - 1 = k
      BY <1>1, <2>3
    <3>2. stack'[k + 1] = stack[k]
      BY <1>1, <3>1
    <3> QED
      BY <2>1, <3>1, <3>2 DEF Open
  <2> QED
    BY <2>2, <2>3
<1>5. Open(stack', d)
  <2>1. 1 \in 1..Len(stack')
    BY <1>1
  <2> QED
    BY <1>1, <2>1 DEF Open
<1> QED
  BY <1>1, <1>2, <1>3, <1>4, <1>5

\* A directory is called for before it was left, and before all below it.
LEMMA CalledNotLeft ==
  ASSUME Types, FramesSound, Chain, NEW D \in SUBSET (Dirs \cup {Root}), Left(D, stack),
         NEW rest, NEW d, Calls(rest, d)
  PROVE  d \notin D /\ \A c \in D \cap Dirs : Parent[c] # d
<1>1. /\ Parent[d] = stack[1].dir /\ ~Open(stack, d) /\ In(d, stack[1].found)
      /\ d \in Dirs /\ 1 \in 1..Len(stack)
  BY CalledDir, TopFrame DEF Calls, Takes
<1>2. d \notin D
  BY <1>1 DEF Left, In
<1> QED
  BY <1>1, <1>2 DEF Left

\* None is left by a call of find().
LEMMA LeftCalls ==
  ASSUME Types, FramesSound, Chain, NEW D \in SUBSET (Dirs \cup {Root}), Left(D, stack),
         NEW rest, NEW e, Calls(rest, e)
  PROVE  Left(D, stack')
<1>1. \A d \in D : ~Open(stack', d)
  <2>1. e \notin D
    BY CalledNotLeft
  <2>2. \A c : Open(stack', c) <=> c = e \/ Open(stack, c)
    BY CallsOpen
  <2> QED
    BY <2>1, <2>2 DEF Left
<1>2. \A d \in D \cap Dirs : Parent[d] \in D \/ Open(stack', Parent[d])
  BY CallsOpen DEF Left
<1>3. ASSUME NEW d \in D \cap Dirs, NEW k \in 1..Len(stack'), Parent[d] = stack'[k].dir
      PROVE  stack'[k].pc = "down" /\ \A i \in 1..Len(stack'[k].found) : stack'[k].found[i] # d
  <2>1. CASE k = 1
    <3>1. Parent[d] = e
      BY <1>3, <2>1, CallsOpen, NewFrame DEF Calls
    <3> QED
      BY <3>1, CalledNotLeft
  <2>2. CASE k = 2
    <3>1. stack'[k] = rest /\ Parent[d] = stack[1].dir /\ 1 \in 1..Len(stack)
      BY <1>3, <2>2, CallsOpen
    <3>2. \A i \in 1..Len(stack[1].found) : stack[1].found[i] # d
      BY <3>1 DEF Left
    <3>3. ~In(d, stack[1].found)
      BY <3>2 DEF In
    <3> QED
      BY <3>1, <3>3, RestFound DEF Calls, Takes
  <2>3. CASE k \in 3..(Len(stack) + 1)
    <3>1. stack'[k] = stack[k - 1] /\ k - 1 \in 2..Len(stack) /\ k - 1 \in 1..Len(stack)
      BY <2>3, CallsOpen
    <3> QED
      BY <1>3, <3>1 DEF Left
  <2> QED
    BY <2>1, <2>2, <2>3, CallsOpen
<1>4. stack' # <<>>
  BY CallsOpen
<1> QED
  BY <1>1, <1>2, <1>3, <1>4 DEF Left

\* What find() is in after a return.
LEMMA ReturnsOpen ==
  ASSUME Types, Chain, Returns
  PROVE  /\ Len(stack') = Len(stack) - 1 /\ Len(stack) \in Nat /\ Len(stack) > 0
         /\ \A k \in 1..Len(stack') : /\ k \in 1..(Len(stack) - 1) /\ k + 1 \in 1..Len(stack)
                                      /\ k + 1 # 1 /\ stack'[k] = stack[k + 1]
         /\ \A c : Open(stack', c) <=> Open(stack, c) /\ c # stack[1].dir
<1>1. /\ Len(stack') = Len(stack) - 1 /\ Len(stack) \in Nat /\ Len(stack) > 0
      /\ \A k \in 1..(Len(stack) - 1) : stack'[k] = stack[k + 1]
  BY StackLength DEF Returns
<1>2. \A k \in 1..Len(stack') : /\ k \in 1..(Len(stack) - 1) /\ k + 1 \in 1..Len(stack)
                                /\ k + 1 # 1 /\ stack'[k] = stack[k + 1]
  BY <1>1
<1>3. 1 \in 1..Len(stack)
  BY <1>1
<1>4. ASSUME NEW c, Open(stack', c) PROVE Open(stack, c) /\ c # stack[1].dir
  <2>1. PICK k \in 1..Len(stack') : stack'[k].dir = c
    BY <1>4 DEF Open
  <2>2. stack[k + 1].dir = c /\ k + 1 \in 1..Len(stack) /\ k + 1 # 1
    BY <1>2, <2>1
  <2> QED
    BY <1>3, <2>2 DEF Open, Chain
<1>5. ASSUME NEW c, Open(stack, c), c # stack[1].dir PROVE Open(stack', c)
  <2>1. PICK k \in 1..Len(stack) : stack[k].dir = c
    BY <1>5 DEF Open
  <2>2. k # 1
    BY <1>5, <2>1
  <2>3. k - 1 \in 1..Len(stack') /\ (k - 1) + 1 = k
    BY <1>1, <2>2
  <2> QED
    BY <1>2, <2>1, <2>3 DEF Open
<1> QED
  BY <1>1, <1>2, <1>4, <1>5

\* A return leaves the directory of the call.
LEMMA LeftReturns ==
  ASSUME Types, Chain, NEW D \in SUBSET (Dirs \cup {Root}), Left(D, stack), Returns
  PROVE  Left(D \cup {stack[1].dir}, stack')
<1> DEFINE top == stack[1].dir
           E == D \cup {top}
<1>1. Len(stack) \in Nat /\ Len(stack) > 0 /\ 1 \in 1..Len(stack)
  BY ReturnsOpen
<1>2. \A d \in E : ~Open(stack', d)
  BY ReturnsOpen DEF Left
<1>3. CASE Len(stack) = 1
  <2>1. top = Root
    BY <1>3 DEF Chain
  <2>2. Len(stack') = 0
    BY <1>3, ReturnsOpen
  <2>3. \A k \in 1..Len(stack') : FALSE
    BY <2>2
  <2>4. \A d \in D \cap Dirs : Parent[d] \in D \/ Parent[d] = top
    <3>1. \A k \in 1..Len(stack) : k = 1
      BY <1>3
    <3> QED
      BY <3>1 DEF Left, Open
  <2>5. Root \notin Dirs
    BY TreeAssumption
  <2>6. Root \in E /\ \A d \in E \cap Dirs : d \in D
    BY <2>1, <2>5
  <2>7. \A d \in E \cap Dirs : Parent[d] \in E \/ Open(stack', Parent[d])
    BY <2>4, <2>6
  <2> HIDE DEF top, E
  <2>8. Left(E, stack')
    BY <1>2, <2>3, <2>6, <2>7 DEF Left
  <2> QED
    BY <2>8 DEF E, top
<1>4. CASE Len(stack) > 1
  <2>1. /\ 1 \in 1..(Len(stack) - 1) /\ 1 + 1 = 2 /\ 2 \in 1..Len(stack) /\ 1 \in 1..Len(stack')
        /\ stack' # <<>>
    BY <1>1, <1>4, ReturnsOpen
  <2>2. /\ Parent[top] = stack[2].dir /\ stack[2].pc = "down"
        /\ \A i \in 1..Len(stack[2].found) : stack[2].found[i] # top
    BY <2>1 DEF Chain
  <2>3. Open(stack', Parent[top])
    <3>1. stack'[1] = stack[2]
      BY <2>1, ReturnsOpen
    <3> QED
      BY <2>1, <2>2, <3>1 DEF Open
  <2>4. \A d \in E \cap Dirs : Parent[d] \in E \/ Open(stack', Parent[d])
    BY <2>3, ReturnsOpen DEF Left
  <2>5. ASSUME NEW d \in E \cap Dirs, NEW k \in 1..Len(stack'), Parent[d] = stack'[k].dir
        PROVE  stack'[k].pc = "down" /\ \A i \in 1..Len(stack'[k].found) : stack'[k].found[i] # d
    <3>1. k + 1 \in 1..Len(stack) /\ stack'[k] = stack[k + 1]
      BY ReturnsOpen
    <3>2. CASE d \in D
      BY <2>5, <3>1, <3>2 DEF Left
    <3>3. CASE d = top
      <4>1. stack[k + 1].dir = stack[2].dir
        BY <2>2, <2>5, <3>1, <3>3
      <4>2. k + 1 = 2
        BY <2>1, <3>1, <4>1 DEF Chain
      <4> QED
        BY <2>2, <3>1, <3>3, <4>2
    <3> QED
      BY <3>2, <3>3
  <2> HIDE DEF top, E
  <2>6. Left(E, stack')
    BY <1>2, <2>1, <2>4, <2>5 DEF Left
  <2> QED
    BY <2>6 DEF E, top
<1>5. Len(stack) = 1 \/ Len(stack) > 1
  <2>1. \A n \in Nat : n > 0 => n = 1 \/ n > 1
    OBVIOUS
  <2> QED
    BY <1>1, <2>1, Zenon
<1> QED
  BY <1>3, <1>4, <1>5

------------------------------------------------------------------------------
(* What is in the store.                                                     *)

\* A step that stores nothing and goes on with the passes that there are.
LEMMA StoredSame ==
  ASSUME Types, NEW D, Stored(D, stack, store, tree), TopChanges,
         stack'[1].passes = stack[1].passes
  PROVE  Stored(D, stack', store, tree)
<1>1. /\ Len(stack') = Len(stack) /\ \A k \in 1..Len(stack) : k = 1 \/ k \in 2..Len(stack)
      /\ \A k \in 1..Len(stack) : stack'[k].dir = stack[k].dir
      /\ \A d : Open(stack', d) <=> Open(stack, d)
  BY StackLength, TopDirs DEF TopChanges
<1>2. \A k \in 1..Len(stack) : Pass(stack'[k]) = Pass(stack[k])
  BY <1>1 DEF TopChanges, Pass
<1> QED
  BY <1>1, <1>2 DEF Stored

\* The files that a pass has found are stored.
LEMMA StoredPass ==
  ASSUME Types, FramesSound, Chain, NEW D, Stored(D, stack, store, tree), TopStep,
         Len(stack[1].passes) > 1, stack'[1].passes = Tail(stack[1].passes),
         stack'[1].found = <<>>, stack'[1].seen = {}, stack'[1].pc = "first",
         store' = store \o stack[1].found
  PROVE  Stored(D, stack', store', tree)
<1> DEFINE fr == stack[1]
           n == Len(store)
<1>1. /\ TopChanges /\ Len(stack) \in Nat /\ 1 \in 1..Len(stack) /\ fr \in Frames /\ Sound(fr, tree)
  BY StackLength, TopFrame DEF TopStep, TopChanges, FramesSound
<1>2. /\ Len(stack') = Len(stack) /\ \A k \in 1..Len(stack) : k = 1 \/ k \in 2..Len(stack)
      /\ \A k \in 1..Len(stack) : stack'[k].dir = stack[k].dir
      /\ \A d : Open(stack', d) <=> Open(stack, d)
      /\ \A k \in 2..Len(stack) : stack'[k] = stack[k]
  BY <1>1, TopDirs DEF TopChanges
<1>3. /\ fr.found \in Seq(Names) /\ Len(fr.found) \in Nat
      /\ \A i \in 1..Len(fr.found) : /\ fr.found[i] \in Names \cap tree
                                     /\ Parent[fr.found[i]] = fr.dir
                                     /\ Matches(fr.found[i], Patterns[Pass(fr)])
  BY <1>1, FilesFound
<1>4. Pass(fr) \in 1..Len(Patterns) /\ Pass(stack'[1]) = Pass(fr) + 1 /\ Len(Patterns) \in Nat
  BY <1>1, PassNumber, SoundNext, PatternFacts
<1>5. /\ n \in Nat /\ store \in Seq(Names) /\ Len(store') = n + Len(fr.found)
      /\ \A i \in 1..n : store'[i] = store[i]
      /\ \A i \in (n + 1)..(n + Len(fr.found)) : store'[i] = fr.found[i - n] /\ i - n \in 1..Len(fr.found)
      /\ \A i \in 1..Len(store') : i \in 1..n \/ i \in (n + 1)..(n + Len(fr.found))
  <2>1. /\ store \in Seq(Names) /\ n \in Nat /\ Len(store') = n + Len(fr.found)
        /\ \A i \in 1..(n + Len(fr.found)) :
             store'[i] = IF i <= n THEN store[i] ELSE fr.found[i - n]
    BY <1>3, ConcatProperties DEF Types
  <2>2. \A i \in (n + 1)..(n + Len(fr.found)) :
          i \in 1..(n + Len(fr.found)) /\ ~(i <= n) /\ i - n \in 1..Len(fr.found)
    BY <1>3, <2>1
  <2>3. \A i \in 1..n : i \in 1..(n + Len(fr.found)) /\ i <= n
    BY <1>3, <2>1
  <2>4. \A i \in 1..(n + Len(fr.found)) : i \in 1..n \/ i \in (n + 1)..(n + Len(fr.found))
    BY <1>3, <2>1
  <2> QED
    BY <2>1, <2>2, <2>3, <2>4
<1> DEFINE New == (n + 1)..(n + Len(fr.found))
<1>6. \A i \in 1..n : \A j \in New : store'[i] # store'[j]
  <2>1. SUFFICES ASSUME NEW i \in 1..n, NEW j \in New, store'[i] = store'[j] PROVE FALSE
    OBVIOUS
  <2>2. /\ store[i] = fr.found[j - n] /\ j - n \in 1..Len(fr.found)
    BY <1>5, <2>1
  <2>3. Parent[store[i]] = fr.dir /\ Matches(store[i], Patterns[Pass(fr)])
    BY <1>3, <2>2
  <2>4. Pass(fr) \in Pass(fr)..Len(Patterns)
    BY <1>4
  <2> QED
    BY <1>1, <2>3, <2>4 DEF Stored
<1>7. \A i, j \in New : i # j => store'[i] # store'[j]
  <2>1. ASSUME NEW i \in New, NEW j \in New, i # j PROVE store'[i] # store'[j]
    <3>1. /\ store'[i] = fr.found[i - n] /\ i - n \in 1..Len(fr.found)
          /\ store'[j] = fr.found[j - n] /\ j - n \in 1..Len(fr.found)
      BY <1>5, <2>1
    <3>2. i - n # j - n
      BY <1>5, <2>1
    <3> QED
      BY <1>1, <3>1, <3>2 DEF Sound
  <2> QED
    BY <2>1
<1>8. \A i, j \in 1..Len(store') : i # j => store'[i] # store'[j]
  <2>1. \A i, j \in 1..n : i # j => store'[i] # store'[j]
    BY <1>5 DEF Stored
  <2> HIDE DEF New, n, fr
  <2>2. \A i \in 1..Len(store') : i \in 1..n \/ i \in New
    BY <1>5 DEF New, n, fr
  <2>3. ASSUME NEW i \in 1..Len(store'), NEW j \in 1..Len(store'), i # j
        PROVE  store'[i] # store'[j]
    <3>1. CASE i \in 1..n /\ j \in 1..n
      BY <2>1, <2>3, <3>1, Zenon
    <3>2. CASE i \in 1..n /\ j \in New
      BY <1>6, <3>2, Zenon
    <3>3. CASE i \in New /\ j \in 1..n
      BY <1>6, <3>3, Zenon
    <3>4. CASE i \in New /\ j \in New
      BY <1>7, <2>3, <3>4, Zenon
    <3> QED
      BY <2>2, <3>1, <3>2, <3>3, <3>4, Zenon
  <2> QED
    BY <2>3
<1>9. ASSUME NEW i \in 1..Len(store')
      PROVE  /\ store'[i] \in tree /\ Wanted(store'[i])
             /\ Parent[store'[i]] \in D \/ Open(stack', Parent[store'[i]])
             /\ \A k \in 1..Len(stack') : Parent[store'[i]] = stack'[k].dir =>
                  \A j \in Pass(stack'[k])..Len(Patterns) : ~Matches(store'[i], Patterns[j])
  <2>1. CASE i \in 1..n
    <3>1. /\ store'[i] = store[i] /\ store[i] \in tree /\ Wanted(store[i])
          /\ Parent[store[i]] \in D \/ Open(stack', Parent[store[i]])
      BY <1>2, <1>5, <2>1 DEF Stored
    <3>2. ASSUME NEW k \in 1..Len(stack), Parent[store[i]] = stack[k].dir,
                 NEW j \in Pass(stack'[k])..Len(Patterns)
          PROVE  ~Matches(store[i], Patterns[j])
      <4>1. \A m \in Pass(stack[k])..Len(Patterns) : ~Matches(store[i], Patterns[m])
        BY <2>1, <3>2 DEF Stored
      <4>2. CASE k = 1
        <5>1. j \in Pass(stack[k])..Len(Patterns)
          BY <1>4, <3>2, <4>2
        <5> QED
          BY <4>1, <5>1
      <4>3. CASE k # 1
        <5>1. stack'[k] = stack[k]
          BY <1>2, <3>2, <4>3
        <5> QED
          BY <3>2, <4>1, <5>1
      <4> QED
        BY <4>2, <4>3
    <3> QED
      BY <1>2, <3>1, <3>2
  <2>2. CASE i \in New
    <3> DEFINE f == fr.found[i - n]
    <3>1. /\ store'[i] = f /\ f \in Names \cap tree /\ Parent[f] = fr.dir
          /\ Matches(f, Patterns[Pass(fr)])
      BY <1>3, <1>5, <2>2
    <3>2. Wanted(f)
      BY <1>4, <3>1, PatternFacts
    <3>3. Open(stack', Parent[f])
      BY <1>1, <1>2, <3>1 DEF Open
    <3>4. ASSUME NEW k \in 1..Len(stack), Parent[f] = stack[k].dir,
                 NEW j \in Pass(stack'[k])..Len(Patterns)
          PROVE  ~Matches(f, Patterns[j])
      <4>1. CASE k = 1
        <5>1. j \in 1..Len(Patterns) /\ j # Pass(fr)
          BY <1>4, <3>4, <4>1
        <5> QED
          BY <1>4, <3>1, <5>1, PatternFacts
      <4>2. CASE k # 1
        <5>1. stack[k].dir = stack[1].dir
          BY <3>1, <3>4
        <5> QED
          BY <1>1, <4>2, <5>1 DEF Chain
      <4> QED
        BY <4>1, <4>2
    <3> QED
      BY <1>2, <3>1, <3>2, <3>3, <3>4
  <2> QED
    BY <1>5, <2>1, <2>2
<1> QED
  BY <1>8, <1>9 DEF Stored

\* A call stores nothing, and nothing in the store is from the new directory.
LEMMA StoredCalls ==
  ASSUME Types, FramesSound, Chain, NEW D \in SUBSET (Dirs \cup {Root}), Left(D, stack),
         Stored(D, stack, store, tree), NEW rest, NEW d, Calls(rest, d)
  PROVE  Stored(D, stack', store, tree)
<1>1. d \notin D /\ ~Open(stack, d) /\ 1 \in 1..Len(stack)
  BY CalledNotLeft, CalledDir, TopFrame DEF Calls, Takes
<1>2. \A c : Open(stack', c) <=> c = d \/ Open(stack, c)
  BY CallsOpen
<1>3. ASSUME NEW i \in 1..Len(store), NEW k \in 1..Len(stack'), Parent[store[i]] = stack'[k].dir
      PROVE  \A j \in Pass(stack'[k])..Len(Patterns) : ~Matches(store[i], Patterns[j])
  <2>1. CASE k = 1
    <3>1. Parent[store[i]] = d
      BY <1>3, <2>1, CallsOpen, NewFrame DEF Calls
    <3> QED
      BY <1>1, <3>1 DEF Stored
  <2>2. CASE k = 2
    <3>1. stack'[k] = rest /\ rest.dir = stack[1].dir /\ rest.passes = stack[1].passes
      BY <2>2, CallsOpen DEF Calls, Takes
    <3>2. Pass(rest) = Pass(stack[1])
      BY <3>1 DEF Pass
    <3> QED
      BY <1>1, <1>3, <3>1, <3>2 DEF Stored
  <2>3. CASE k \in 3..(Len(stack) + 1)
    <3>1. stack'[k] = stack[k - 1] /\ k - 1 \in 1..Len(stack)
      BY <2>3, CallsOpen
    <3> QED
      BY <1>3, <3>1 DEF Stored
  <2> QED
    BY <2>1, <2>2, <2>3, CallsOpen
<1> QED
  BY <1>2, <1>3 DEF Stored

\* A return stores nothing, and moves the directory of the call to those that were left.
LEMMA StoredReturns ==
  ASSUME Types, Chain, NEW D \in SUBSET (Dirs \cup {Root}), Stored(D, stack, store, tree), Returns
  PROVE  Stored(D \cup {stack[1].dir}, stack', store, tree)
<1> DEFINE E == D \cup {stack[1].dir}
<1>1. \A i \in 1..Len(store) : Parent[store[i]] \in E \/ Open(stack', Parent[store[i]])
  BY ReturnsOpen DEF Stored
<1>2. ASSUME NEW i \in 1..Len(store), NEW k \in 1..Len(stack'), Parent[store[i]] = stack'[k].dir
      PROVE  \A j \in Pass(stack'[k])..Len(Patterns) : ~Matches(store[i], Patterns[j])
  <2>1. stack'[k] = stack[k + 1] /\ k + 1 \in 1..Len(stack)
    BY ReturnsOpen
  <2> QED
    BY <1>2, <2>1 DEF Stored
<1> HIDE DEF E
<1>3. Stored(E, stack', store, tree)
  BY <1>1, <1>2 DEF Stored
<1> QED
  BY <1>3 DEF E

------------------------------------------------------------------------------
(* Nothing is missed.                                                        *)

\* What was there and is of the pass under way is present.
LEMMA InPresent ==
  ASSUME Types, FramesSound, stack # <<>>, NEW e \in before, Parent[e] = stack[1].dir
  PROVE  /\ Len(stack[1].passes) = 1 => e \in Present
         /\ \A i \in 1..Len(Patterns) : i = Pass(stack[1]) /\ Matches(e, Patterns[i]) => e \in Present
<1>1. /\ stack[1] \in Frames /\ Sound(stack[1], tree) /\ Top = stack[1] /\ e \in tree
  BY TopFrame DEF FramesSound, Types
<1>2. Head(Top.passes) = AllPasses[Pass(stack[1])]
  BY <1>1, PassNumber
<1>3. ASSUME Len(stack[1].passes) = 1 PROVE e \in Present
  <2>1. Head(Top.passes) = AnyName
    BY <1>1, <1>2, <1>3, PassNumber, PatternFacts
  <2> QED
    BY <1>1, <2>1 DEF Present, Matches
<1>4. ASSUME NEW i \in 1..Len(Patterns), i = Pass(stack[1]), Matches(e, Patterns[i])
      PROVE  e \in Present
  <2>1. Head(Top.passes) = Patterns[i]
    BY <1>2, <1>4, PatternFacts
  <2> QED
    BY <1>1, <1>4, <2>1 DEF Present
<1> QED
  BY <1>3, <1>4

\* What the frames below the top still wait for does not depend on the top but for
\* its directory.
LEMMA WaitsBelow ==
  ASSUME Types, NEW D, NoneMissed(D, stack, store, before), TopChanges, before' = before,
         \A f : In(f, store) => In(f, store'),
         \A d \in before \cap Dirs : Parent[d] = stack[1].dir => DirWaits(D, stack', 1, d),
         \A f \in before \cap Names : Parent[f] = stack[1].dir =>
           \A i \in 1..Len(Patterns) : Matches(f, Patterns[i]) => FileWaits(stack', store', 1, f, i)
  PROVE  NoneMissed(D, stack', store', before')
<1>1. /\ Len(stack') = Len(stack) /\ Len(stack) \in Nat
      /\ \A k \in 1..Len(stack) : k = 1 \/ k \in 2..Len(stack)
      /\ \A k \in 1..Len(stack) : stack'[k].dir = stack[k].dir
      /\ \A k \in 2..Len(stack) : stack'[k] = stack[k]
  BY StackLength, TopDirs DEF TopChanges
<1>2. ASSUME NEW k \in 1..Len(stack'), NEW d \in before \cap Dirs, Parent[d] = stack'[k].dir
      PROVE  DirWaits(D, stack', k, d)
  <2>1. k \in 1..Len(stack) /\ Parent[d] = stack[k].dir
    BY <1>1, <1>2
  <2>2. CASE k = 1
    BY <2>1, <2>2
  <2>3. CASE k # 1
    <3>1. stack'[k] = stack[k] /\ k - 1 \in 1..Len(stack)
      BY <1>1, <2>1, <2>3
    <3>2. stack'[k - 1].dir = stack[k - 1].dir
      BY <1>1, <3>1
    <3>3. DirWaits(D, stack, k, d)
      BY <2>1 DEF NoneMissed
    <3> QED
      BY <3>1, <3>2, <3>3 DEF DirWaits
  <2> QED
    BY <2>2, <2>3
<1>3. ASSUME NEW k \in 1..Len(stack'), NEW f \in before \cap Names, Parent[f] = stack'[k].dir,
             NEW i \in 1..Len(Patterns), Matches(f, Patterns[i])
      PROVE  FileWaits(stack', store', k, f, i)
  <2>1. k \in 1..Len(stack) /\ Parent[f] = stack[k].dir
    BY <1>1, <1>3
  <2>2. CASE k = 1
    BY <1>3, <2>1, <2>2
  <2>3. CASE k # 1
    <3>1. stack'[k] = stack[k]
      BY <1>1, <2>1, <2>3
    <3>2. FileWaits(stack, store, k, f, i)
      BY <1>3, <2>1 DEF NoneMissed
    <3> QED
      BY <3>1, <3>2 DEF FileWaits
  <2> QED
    BY <2>2, <2>3
<1>4. \A e \in before : Parent[e] \in D =>
        (e \in Dirs => e \in D) /\ (e \in Names /\ Wanted(e) => In(e, store'))
  BY DEF NoneMissed
<1> QED
  BY <1>2, <1>3, <1>4 DEF NoneMissed

\* What the frame on top waits for, by the invariant.
LEMMA TopWaits ==
  ASSUME Types, NEW D, NoneMissed(D, stack, store, before), stack # <<>>
  PROVE  /\ \A d \in before \cap Dirs : Parent[d] = stack[1].dir => DirWaits(D, stack, 1, d)
         /\ \A f \in before \cap Names : Parent[f] = stack[1].dir =>
              \A i \in 1..Len(Patterns) : Matches(f, Patterns[i]) => FileWaits(stack, store, 1, f, i)
<1>1. 1 \in 1..Len(stack)
  BY TopFrame
<1> QED
  BY <1>1 DEF NoneMissed

\* FindFirstFile: all that was there is among what the handle will return.
LEMMA MissedFirst ==
  ASSUME Types, FramesSound, NEW D, NoneMissed(D, stack, store, before), FindFirst
  PROVE  NoneMissed(D, stack', store', before')
<1>1. /\ TopStep /\ store' = store
      /\ stack[1].pc = "first" /\ stack'[1].pc = "next"
      /\ stack'[1].passes = stack[1].passes /\ stack'[1].found = stack[1].found
      /\ stack'[1].unseen = Present
  BY FindFirstMoves
<1>2. stack # <<>> /\ TopChanges /\ before' = before
  BY <1>1, StackLength DEF TopStep, TopChanges
<1>3. stack[1] \in Frames /\ Sound(stack[1], tree) /\ Pass(stack'[1]) = Pass(stack[1])
  BY <1>1, <1>2, TopFrame DEF FramesSound, Pass
<1>4. ASSUME NEW d \in before \cap Dirs, Parent[d] = stack[1].dir PROVE DirWaits(D, stack', 1, d)
  <2>1. Len(stack[1].passes) = 1 \/ Len(stack[1].passes) > 1
    <3>1. \A n \in Nat : n >= 1 => n = 1 \/ n > 1
      OBVIOUS
    <3> QED
      BY <1>3, <3>1, PassNumber, Zenon
  <2>2. Len(stack[1].passes) = 1 => d \in Present
    BY <1>2, <1>4, InPresent
  <2> QED
    BY <1>1, <2>1, <2>2 DEF DirWaits
<1>5. ASSUME NEW f \in before \cap Names, Parent[f] = stack[1].dir,
             NEW i \in 1..Len(Patterns), Matches(f, Patterns[i])
      PROVE  FileWaits(stack', store', 1, f, i)
  <2>1. FileWaits(stack, store, 1, f, i)
    BY <1>2, <1>5, TopWaits
  <2>2. i = Pass(stack[1]) => f \in Present
    BY <1>2, <1>5, InPresent
  <2> QED
    BY <1>1, <1>3, <2>1, <2>2 DEF FileWaits
<1> QED
  BY <1>1, <1>2, <1>4, <1>5, WaitsBelow

\* FindNextFile: what is returned is no longer awaited from the handle, but found.
LEMMA MissedNext ==
  ASSUME Types, FramesSound, NEW D, NoneMissed(D, stack, store, before),
         NEW e \in Entries, FindNext(e)
  PROVE  NoneMissed(D, stack', store', before')
<1>1. /\ TopStep /\ store' = store
      /\ stack[1].pc = "next" /\ stack'[1].pc = "next"
      /\ stack'[1].passes = stack[1].passes /\ stack'[1].unseen = stack[1].unseen \ {e}
      /\ stack'[1].found = IF IsDirectory(e) <=> Len(stack[1].passes) = 1
                           THEN Append(stack[1].found, e) ELSE stack[1].found
  BY FindNextMoves
<1>2. stack # <<>> /\ TopChanges /\ before' = before
  BY <1>1, StackLength DEF TopStep, TopChanges
<1>3. /\ stack[1] \in Frames /\ Sound(stack[1], tree) /\ Pass(stack'[1]) = Pass(stack[1])
      /\ stack[1].found \in Seq(Entries)
  BY <1>1, <1>2, TopFrame, FrameParts DEF FramesSound, Pass
<1>4. \A x : In(x, stack[1].found) => In(x, stack'[1].found)
  BY <1>1, <1>3, Lists
<1>5. (IsDirectory(e) <=> Len(stack[1].passes) = 1) => In(e, stack'[1].found)
  BY <1>1, <1>3, Lists
<1>6. ASSUME NEW d \in before \cap Dirs, Parent[d] = stack[1].dir PROVE DirWaits(D, stack', 1, d)
  <2>1. DirWaits(D, stack, 1, d)
    BY <1>2, <1>6, TopWaits
  <2>2. Len(stack[1].passes) = 1 \/ Len(stack[1].passes) > 1
    <3>1. \A n \in Nat : n >= 1 => n = 1 \/ n > 1
      OBVIOUS
    <3> QED
      BY <1>3, <3>1, PassNumber, Zenon
  <2>3. CASE Len(stack[1].passes) = 1
    <3>1. d = e => In(d, stack'[1].found)
      BY <1>5, <2>3 DEF IsDirectory
    <3>2. ~(Len(stack[1].passes) > 1)
      BY <2>3
    <3>3. d \in stack[1].unseen \/ In(d, stack[1].found)
      BY <1>1, <2>1, <3>2 DEF DirWaits
    <3> QED
      BY <1>1, <1>4, <3>1, <3>3 DEF DirWaits
  <2>4. CASE Len(stack[1].passes) > 1
    BY <1>1, <2>4 DEF DirWaits
  <2> QED
    BY <2>2, <2>3, <2>4
<1>7. ASSUME NEW f \in before \cap Names, Parent[f] = stack[1].dir,
             NEW i \in 1..Len(Patterns), Matches(f, Patterns[i])
      PROVE  FileWaits(stack', store', 1, f, i)
  <2>1. FileWaits(stack, store, 1, f, i)
    BY <1>2, <1>7, TopWaits
  <2>2. i = Pass(stack[1]) /\ f = e => In(f, stack'[1].found)
    <3>1. ~IsDirectory(f)
      BY TreeAssumption DEF IsDirectory
    <3>2. i = Pass(stack[1]) => Len(stack[1].passes) # 1
      <4>1. i # Len(Patterns) + 1
        BY PatternFacts
      <4> QED
        BY <1>3, <4>1, PassNumber
    <3> QED
      BY <1>5, <3>1, <3>2
  <2> QED
    BY <1>1, <1>3, <1>4, <2>1, <2>2 DEF FileWaits
<1> QED
  BY <1>1, <1>2, <1>6, <1>7, WaitsBelow

\* The end of a pass: the files found are in the store, the directories on the list.
LEMMA MissedPass ==
  ASSUME Types, FramesSound, NEW D, NoneMissed(D, stack, store, before), PassEnds
  PROVE  NoneMissed(D, stack', store', before')
<1>1. /\ TopStep
      /\ \/ stack[1].pc = "first" /\ Present = {}
         \/ stack[1].pc = "next" /\ stack[1].unseen = {}
  BY PassEndsMoves
<1>2. stack # <<>> /\ TopChanges /\ before' = before
  BY <1>1, StackLength DEF TopStep, TopChanges
<1>3. /\ stack[1] \in Frames /\ Sound(stack[1], tree) /\ stack[1].found \in Seq(Entries)
  BY <1>2, TopFrame, FrameParts DEF FramesSound
<1>4. CASE /\ Len(stack[1].passes) = 1 /\ store' = store
           /\ stack'[1].pc = "down" /\ stack'[1].passes = stack[1].passes
           /\ stack'[1].found = stack[1].found
  <2>1. ~(Len(stack[1].passes) > 1) /\ Pass(stack'[1]) = Pass(stack[1])
    <3>1. ~(Len(stack[1].passes) > 1)
      BY <1>4
    <3>2. Pass(stack'[1]) = Pass(stack[1])
      BY <1>4, Zenon DEF Pass
    <3> QED
      BY <3>1, <3>2
  <2>2. ASSUME NEW d \in before \cap Dirs, Parent[d] = stack[1].dir PROVE DirWaits(D, stack', 1, d)
    <3>1. DirWaits(D, stack, 1, d) /\ d \in Present
      BY <1>2, <1>4, <2>2, TopWaits, InPresent
    <3>2. In(d, stack[1].found)
      BY <1>1, <2>1, <3>1 DEF DirWaits
    <3> QED
      BY <1>4, <3>2 DEF DirWaits
  <2>3. ASSUME NEW f \in before \cap Names, Parent[f] = stack[1].dir,
               NEW i \in 1..Len(Patterns), Matches(f, Patterns[i])
        PROVE  FileWaits(stack', store', 1, f, i)
    <3>1. FileWaits(stack, store, 1, f, i)
      BY <1>2, <2>3, TopWaits
    <3>2. i # Pass(stack[1])
      <4>1. Pass(stack[1]) = Len(Patterns) + 1 /\ i # Len(Patterns) + 1
        BY <1>3, <1>4, PassNumber, PatternFacts
      <4> QED
        BY <4>1
    <3> QED
      BY <1>4, <2>1, <3>1, <3>2 DEF FileWaits
  <2> QED
    BY <1>2, <1>4, <2>2, <2>3, WaitsBelow
<1>5. CASE /\ Len(stack[1].passes) > 1 /\ store' = store \o stack[1].found
           /\ stack'[1].pc = "first" /\ stack'[1].passes = Tail(stack[1].passes)
           /\ stack'[1].found = <<>> /\ stack'[1].seen = {}
  <2>1. /\ Pass(stack'[1]) = Pass(stack[1]) + 1 /\ Pass(stack[1]) \in 1..Len(Patterns)
        /\ Len(Patterns) \in Nat
    BY <1>3, <1>5, SoundNext, PassNumber, PatternFacts
  <2>2. /\ \A x : In(x, store) => In(x, store')
        /\ \A x : In(x, stack[1].found) => In(x, store')
    <3>1. stack[1].found \in Seq(Names) /\ store \in Seq(Names)
      BY <1>3, <1>5, FilesFound DEF Types
    <3>2. /\ Len(store) \in Nat /\ Len(stack[1].found) \in Nat
          /\ Len(store') = Len(store) + Len(stack[1].found)
          /\ \A i \in 1..(Len(store) + Len(stack[1].found)) :
               store'[i] = IF i <= Len(store) THEN store[i] ELSE stack[1].found[i - Len(store)]
      BY <1>5, <3>1, ConcatProperties
    <3>3. ASSUME NEW i \in 1..Len(store)
          PROVE  i \in 1..Len(store') /\ store'[i] = store[i]
      BY <3>2, <3>3
    <3>4. ASSUME NEW i \in 1..Len(stack[1].found)
          PROVE  Len(store) + i \in 1..Len(store') /\ store'[Len(store) + i] = stack[1].found[i]
      <4>1. /\ Len(store) + i \in 1..(Len(store) + Len(stack[1].found))
            /\ ~(Len(store) + i <= Len(store)) /\ (Len(store) + i) - Len(store) = i
        BY <3>2, <3>4
      <4> QED
        BY <3>2, <4>1
    <3> QED
      BY <3>3, <3>4 DEF In
  <2>3. ASSUME NEW d \in before \cap Dirs, Parent[d] = stack[1].dir PROVE DirWaits(D, stack', 1, d)
    BY <1>5 DEF DirWaits
  <2>4. ASSUME NEW f \in before \cap Names, Parent[f] = stack[1].dir,
               NEW i \in 1..Len(Patterns), Matches(f, Patterns[i])
        PROVE  FileWaits(stack', store', 1, f, i)
    <3>1. FileWaits(stack, store, 1, f, i)
      BY <1>2, <2>4, TopWaits
    <3>2. CASE i > Pass(stack[1])
      <4>1. i > Pass(stack[1]) + 1 \/ i = Pass(stack[1]) + 1
        BY <2>1, <3>2
      <4> QED
        BY <1>5, <2>1, <4>1 DEF FileWaits
    <3>3. CASE i = Pass(stack[1])
      <4>1. f \in Present
        BY <1>2, <2>4, <3>3, InPresent
      <4>2. ~(i > Pass(stack[1]))
        BY <2>1, <3>3
      <4>3. In(f, stack[1].found) \/ In(f, store)
        BY <1>1, <3>1, <4>1, <4>2 DEF FileWaits
      <4> QED
        BY <2>2, <4>3 DEF FileWaits
    <3>4. CASE In(f, store)
      BY <2>2, <3>4 DEF FileWaits
    <3> QED
      BY <3>1, <3>2, <3>3, <3>4 DEF FileWaits
  <2> QED
    BY <1>2, <2>2, <2>3, <2>4, WaitsBelow
<1> QED
  BY <1>4, <1>5, PassEndsMoves

\* After the passes, what a frame waits for is among the directories.
LEMMA DownWaits ==
  ASSUME Types, FramesSound, NEW D, NoneMissed(D, stack, store, before),
         stack # <<>>, stack[1].pc = "down"
  PROVE  /\ \A d \in before \cap Dirs : Parent[d] = stack[1].dir => In(d, stack[1].found) \/ d \in D
         /\ \A f \in before \cap Names : Parent[f] = stack[1].dir =>
              \A i \in 1..Len(Patterns) : Matches(f, Patterns[i]) => In(f, store)
<1>1. stack[1] \in Frames /\ Sound(stack[1], tree)
  BY TopFrame DEF FramesSound
<1>2. Len(stack[1].passes) = 1 /\ Pass(stack[1]) = Len(Patterns) + 1 /\ Len(Patterns) \in Nat
  BY <1>1, PassNumber, PatternFacts DEF Sound
<1>3. \A i \in 1..Len(Patterns) : ~(i > Pass(stack[1])) /\ i # Pass(stack[1])
  BY <1>2
<1>4. ~(Len(stack[1].passes) > 1) /\ ~(1 > 1)
  BY <1>2
<1>5. \A d \in before \cap Dirs : Parent[d] = stack[1].dir => In(d, stack[1].found) \/ d \in D
  BY <1>4, TopWaits DEF DirWaits
<1>6. \A f \in before \cap Names : Parent[f] = stack[1].dir =>
        \A i \in 1..Len(Patterns) : Matches(f, Patterns[i]) => In(f, store)
  BY <1>3, TopWaits DEF FileWaits
<1> QED
  BY <1>5, <1>6

\* Passing over "." and ".." misses nothing.
LEMMA MissedOver ==
  ASSUME Types, FramesSound, NEW D, NoneMissed(D, stack, store, before),
         NEW rest, NEW e, PassesOver(rest, e), before' = before, store' = store
  PROVE  NoneMissed(D, stack', store', before')
<1>1. /\ Takes(rest, e) /\ stack'[1] = rest /\ rest.pc = "down" /\ e \in {Here, Up}
      /\ stack # <<>> /\ stack[1].pc = "down"
  BY DEF PassesOver, Takes
<1>2. TopChanges
  BY StackLength DEF PassesOver, Takes, TopChanges
<1>3. ASSUME NEW d \in before \cap Dirs, Parent[d] = stack[1].dir PROVE DirWaits(D, stack', 1, d)
  <2>1. In(d, stack[1].found) \/ d \in D
    BY <1>1, <1>3, DownWaits
  <2>2. d # e
    BY <1>1, TreeAssumption
  <2> QED
    BY <1>1, <2>1, <2>2, RestFound DEF DirWaits
<1>4. ASSUME NEW f \in before \cap Names, Parent[f] = stack[1].dir,
             NEW i \in 1..Len(Patterns), Matches(f, Patterns[i])
      PROVE  FileWaits(stack', store', 1, f, i)
  BY <1>1, <1>4, DownWaits DEF FileWaits
<1> QED
  BY <1>2, <1>3, <1>4, WaitsBelow

\* A call takes its directory off the caller's list, and has all of its passes to come.
LEMMA MissedCalls ==
  ASSUME Types, FramesSound, Chain, NEW D, NoneMissed(D, stack, store, before),
         NEW rest, NEW e, Calls(rest, e)
  PROVE  NoneMissed(D, stack', store, before)
<1>1. /\ stack # <<>> /\ stack[1].pc = "down" /\ rest.pc = "down" /\ Takes(rest, e)
      /\ rest.dir = stack[1].dir /\ e \in Dirs
  BY DEF Calls, Takes
<1>2. /\ Frame(e).dir = e /\ Frame(e).pc = "first" /\ Pass(Frame(e)) = 1
  <2>1. \A n \in Nat : n + 2 - (n + 1) = 1
    OBVIOUS
  <2>2. Len(Patterns) + 2 - (Len(Patterns) + 1) = 1
    BY <2>1, PatternFacts, Zenon
  <2> QED
    BY <1>1, <2>2, NewFrame, PatternFacts DEF Pass
<1>3. ASSUME NEW k \in 1..Len(stack'), NEW d \in before \cap Dirs, Parent[d] = stack'[k].dir
      PROVE  DirWaits(D, stack', k, d)
  <2>1. CASE k = 1
    BY <1>2, <2>1, CallsOpen DEF DirWaits
  <2>2. CASE k = 2
    <3>1. stack'[k] = rest /\ stack'[k - 1] = Frame(e) /\ k > 1
      BY <2>2, CallsOpen
    <3>2. In(d, stack[1].found) \/ d \in D
      BY <1>1, <1>3, <3>1, DownWaits
    <3> QED
      BY <1>1, <1>2, <3>1, <3>2, RestFound DEF DirWaits
  <2>3. CASE k \in 3..(Len(stack) + 1)
    <3>1. stack'[k] = stack[k - 1] /\ k - 1 \in 2..Len(stack) /\ k - 1 \in 1..Len(stack) /\ k > 1
          /\ k - 1 > 1
      BY <2>3, CallsOpen
    <3>2. DirWaits(D, stack, k - 1, d)
      BY <1>3, <3>1 DEF NoneMissed
    <3>3. stack'[k - 1].dir = stack[(k - 1) - 1].dir
      <4>1. CASE k = 3
        BY <1>1, <4>1, CallsOpen
      <4>2. CASE k # 3
        <5>1. k - 1 \in 3..(Len(stack) + 1)
          BY <2>3, <4>2, CallsOpen
        <5> QED
          BY <5>1, CallsOpen
      <4> QED
        BY <4>1, <4>2
    <3> QED
      BY <3>1, <3>2, <3>3 DEF DirWaits
  <2> QED
    BY <2>1, <2>2, <2>3, CallsOpen
<1>4. ASSUME NEW k \in 1..Len(stack'), NEW f \in before \cap Names, Parent[f] = stack'[k].dir,
             NEW i \in 1..Len(Patterns), Matches(f, Patterns[i])
      PROVE  FileWaits(stack', store, k, f, i)
  <2>1. CASE k = 1
    <3>1. i > 1 \/ i = 1
      BY <1>4
    <3> QED
      BY <1>2, <2>1, <3>1, CallsOpen DEF FileWaits
  <2>2. CASE k = 2
    <3>1. Parent[f] = stack[1].dir
      BY <1>1, <1>4, <2>2, CallsOpen
    <3> QED
      BY <1>1, <1>4, <3>1, DownWaits DEF FileWaits
  <2>3. CASE k \in 3..(Len(stack) + 1)
    <3>1. stack'[k] = stack[k - 1] /\ k - 1 \in 1..Len(stack)
      BY <2>3, CallsOpen
    <3>2. FileWaits(stack, store, k - 1, f, i)
      BY <1>4, <3>1 DEF NoneMissed
    <3> QED
      BY <3>1, <3>2 DEF FileWaits
  <2> QED
    BY <2>1, <2>2, <2>3, CallsOpen
<1>5. \A e2 \in before : Parent[e2] \in D =>
        (e2 \in Dirs => e2 \in D) /\ (e2 \in Names /\ Wanted(e2) => In(e2, store))
  BY DEF NoneMissed
<1> QED
  BY <1>3, <1>4, <1>5 DEF NoneMissed

\* A return misses nothing: the passes of the call were all made.
LEMMA MissedReturns ==
  ASSUME Types, FramesSound, Chain, NEW D, NoneMissed(D, stack, store, before), Returns
  PROVE  NoneMissed(D \cup {stack[1].dir}, stack', store, before)
<1> DEFINE E == D \cup {stack[1].dir}
<1>1. stack # <<>> /\ stack[1].pc = "down" /\ ~\E i \in 1..Len(stack[1].found) : TRUE
  <2>1. \A i \in 1..Len(<<>>) : FALSE
    OBVIOUS
  <2> QED
    BY <2>1 DEF Returns
<1>2. ASSUME NEW e \in before, Parent[e] \in E
      PROVE  (e \in Dirs => e \in E) /\ (e \in Names /\ Wanted(e) => In(e, store))
  <2>1. CASE Parent[e] \in D
    BY <2>1 DEF NoneMissed
  <2>2. CASE Parent[e] = stack[1].dir
    <3>1. e \in Dirs => e \in D
      BY <1>1, <2>2, DownWaits DEF In
    <3>2. e \in Names /\ Wanted(e) => In(e, store)
      BY <1>1, <2>2, DownWaits, PatternFacts
    <3> QED
      BY <3>1, <3>2
  <2> QED
    BY <1>2, <2>1, <2>2
<1>3. ASSUME NEW k \in 1..Len(stack'), NEW d \in before \cap Dirs, Parent[d] = stack'[k].dir
      PROVE  DirWaits(E, stack', k, d)
  <2>1. /\ k \in 1..(Len(stack) - 1) /\ k + 1 \in 1..Len(stack) /\ stack'[k] = stack[k + 1]
        /\ (k + 1) - 1 = k /\ Len(stack) \in Nat
    BY ReturnsOpen
  <2>2. DirWaits(D, stack, k + 1, d)
    BY <1>3, <2>1 DEF NoneMissed
  <2>3. d = stack[k].dir => d \in E \/ (k > 1 /\ d = stack'[k - 1].dir)
    <3>1. CASE k = 1
      BY <3>1
    <3>2. CASE k # 1
      <4>1. k > 1 /\ k - 1 \in 1..(Len(stack) - 1) /\ (k - 1) + 1 = k /\ k - 1 \in 1..Len(stack')
        BY <2>1, <3>2, ReturnsOpen
      <4>2. stack'[k - 1] = stack[k]
        BY <4>1, ReturnsOpen
      <4> QED
        BY <4>1, <4>2
    <3> QED
      BY <3>1, <3>2
  <2>4. D \subseteq E
    OBVIOUS
  <2> HIDE DEF E
  <2> QED
    BY <2>1, <2>2, <2>3, <2>4 DEF DirWaits
<1>4. ASSUME NEW k \in 1..Len(stack'), NEW f \in before \cap Names, Parent[f] = stack'[k].dir,
             NEW i \in 1..Len(Patterns), Matches(f, Patterns[i])
      PROVE  FileWaits(stack', store, k, f, i)
  <2>1. k + 1 \in 1..Len(stack) /\ stack'[k] = stack[k + 1]
    BY ReturnsOpen
  <2>2. FileWaits(stack, store, k + 1, f, i)
    BY <1>4, <2>1 DEF NoneMissed
  <2> QED
    BY <2>1, <2>2 DEF FileWaits
<1> HIDE DEF E
<1>5. NoneMissed(E, stack', store, before)
  BY <1>2, <1>3, <1>4 DEF NoneMissed
<1> QED
  BY <1>5 DEF E

------------------------------------------------------------------------------
(* The whole invariant.                                                      *)

\* A step of the pass under way leaves the account that there is.
LEMMA VisitedTop ==
  ASSUME Types, FramesSound, Chain, NEW D \in SUBSET (Dirs \cup {Root}),
         Visited(D, stack, store, tree, before),
         FindFirst \/ PassEnds \/ \E e \in Entries : FindNext(e)
  PROVE  Visited(D, stack', store', tree', before')
<1>1. /\ Left(D, stack) /\ Stored(D, stack, store, tree) /\ NoneMissed(D, stack, store, before)
  BY DEF Visited
<1>2. TopStep
  BY FindFirstMoves, FindNextMoves, PassEndsMoves
<1>3. TopChanges /\ tree' = tree
  BY <1>2 DEF TopStep, TopChanges
<1>4. Left(D, stack')
  BY <1>1, <1>2, LeftTop
<1>5. Stored(D, stack', store', tree)
  <2>1. CASE store' = store /\ stack'[1].passes = stack[1].passes
    BY <1>1, <1>3, <2>1, StoredSame
  <2>2. CASE PassEnds /\ ~(store' = store /\ stack'[1].passes = stack[1].passes)
    BY <1>1, <1>2, <2>2, PassEndsMoves, StoredPass
  <2> QED
    BY <2>1, <2>2, FindFirstMoves, FindNextMoves
<1>6. NoneMissed(D, stack', store', before')
  BY <1>1, MissedFirst, MissedNext, MissedPass
<1> QED
  BY <1>3, <1>4, <1>5, <1>6 DEF Visited

\* A descent leaves it too.
LEMMA VisitedDescends ==
  ASSUME Types, FramesSound, Chain, NEW D \in SUBSET (Dirs \cup {Root}),
         Visited(D, stack, store, tree, before), Descend
  PROVE  Visited(D, stack', store', tree', before')
<1>1. /\ Left(D, stack) /\ Stored(D, stack, store, tree) /\ NoneMissed(D, stack, store, before)
  BY DEF Visited
<1>2. /\ tree' = tree /\ before' = before /\ store' = store
      /\ \E rest, d : PassesOver(rest, d) \/ Calls(rest, d)
  BY DescendMoves DEF PassesOver, Calls, Takes
<1>3. PICK rest, d : PassesOver(rest, d) \/ Calls(rest, d)
  BY <1>2
<1>4. CASE PassesOver(rest, d)
  <2>1. TopChanges /\ stack'[1].passes = stack[1].passes
    BY <1>4, StackLength DEF PassesOver, Takes, TopChanges
  <2>2. Left(D, stack') /\ NoneMissed(D, stack', store', before')
    BY <1>1, <1>2, <1>4, LeftPasses, MissedOver
  <2>3. Stored(D, stack', store, tree)
    BY <1>1, <2>1, StoredSame
  <2> QED
    BY <1>2, <2>2, <2>3 DEF Visited
<1>5. CASE Calls(rest, d)
  <2>1. /\ Left(D, stack') /\ NoneMissed(D, stack', store, before)
        /\ Stored(D, stack', store, tree)
    BY <1>1, <1>5, LeftCalls, MissedCalls, StoredCalls
  <2> QED
    BY <1>2, <2>1 DEF Visited
<1> QED
  BY <1>3, <1>4, <1>5

\* By a return the directory of the call is one that was left.
LEMMA VisitedReturns ==
  ASSUME Types, FramesSound, Chain, NEW D \in SUBSET (Dirs \cup {Root}),
         Visited(D, stack, store, tree, before), Return
  PROVE  /\ D \cup {stack[1].dir} \in SUBSET (Dirs \cup {Root})
         /\ Visited(D \cup {stack[1].dir}, stack', store', tree', before')
<1>1. /\ Left(D, stack) /\ Stored(D, stack, store, tree) /\ NoneMissed(D, stack, store, before)
  BY DEF Visited
<1>2. Returns /\ tree' = tree /\ before' = before /\ store' = store
  BY ReturnMoves DEF Returns
<1>3. stack[1].dir \in Dirs \cup {Root}
  BY <1>2, TopFrame, FrameParts DEF Returns
<1>4. /\ Left(D \cup {stack[1].dir}, stack')
      /\ NoneMissed(D \cup {stack[1].dir}, stack', store, before)
      /\ Stored(D \cup {stack[1].dir}, stack', store, tree)
  BY <1>1, <1>2, LeftReturns, MissedReturns, StoredReturns
<1> QED
  BY <1>2, <1>3, <1>4 DEF Visited

\* Uploads add to what is there, and the account is of what was there before.
LEMMA VisitedUpload ==
  ASSUME Types, NEW D, Visited(D, stack, store, tree, before),
         tree \subseteq tree', before' = before, stack' = stack, store' = store
  PROVE  Visited(D, stack', store', tree', before')
<1>1. Stored(D, stack, store, tree')
  BY DEF Visited, Stored
<1> QED
  BY <1>1 DEF Visited

\* Every step keeps the invariant.
LEMMA IInvStep == ASSUME IInv, [Next]_vars PROVE IInv'
<1>1. Types /\ FramesSound /\ Chain
  BY DEF IInv
<1>2. PICK D \in SUBSET (Dirs \cup {Root}) : Visited(D, stack, store, tree, before)
  BY DEF IInv
<1>3. Types' /\ FramesSound' /\ Chain'
  BY <1>1, TypesStep, SoundStep, ChainStep
<1>4. \E E \in SUBSET (Dirs \cup {Root}) : Visited(E, stack', store', tree', before')
  <2>1. CASE FindFirst \/ PassEnds \/ \E e \in Entries : FindNext(e)
    BY <1>1, <1>2, <2>1, VisitedTop
  <2>2. CASE Descend
    BY <1>1, <1>2, <2>2, VisitedDescends
  <2>3. CASE Return
    BY <1>1, <1>2, <2>3, VisitedReturns
  <2>4. CASE Upload
    BY <1>1, <1>2, <2>4, UploadMoves, VisitedUpload
  <2>5. CASE UNCHANGED <<tree, before, stack, store>>
    BY <1>2, <2>5
  <2> QED
    BY <2>1, <2>2, <2>3, <2>4, <2>5, Steps
<1> QED
  BY <1>3, <1>4 DEF IInv

\* It holds when the search begins: all passes of the root are to come.
LEMMA IInvInit == ASSUME Init PROVE IInv
<1>1. /\ tree = There /\ before = There /\ stack = <<Frame(Root)>> /\ store = <<>>
  BY DEF Init, SearchInit
<1>2. /\ Frame(Root) \in Frames /\ Frame(Root).dir = Root /\ Frame(Root).pc = "first"
      /\ Frame(Root).passes = AllPasses
  BY NewFrame
<1>3. /\ stack \in Seq(Frames) /\ Len(stack) = 1 /\ stack[1] = Frame(Root)
      /\ store \in Seq(Names) /\ Len(store) = 0 /\ stack # <<>>
  BY <1>1, <1>2
<1>4. /\ \A k \in 1..Len(stack) : k = 1
      /\ \A k \in 1..(Len(stack) - 1) : FALSE
      /\ \A i \in 1..Len(store) : FALSE
  BY <1>3
<1>5. Types
  BY <1>1, <1>3, ThereAssumption DEF Types
<1>6. FramesSound
  BY <1>3, <1>4, SoundNew DEF FramesSound
<1>7. Chain
  BY <1>2, <1>3, <1>4 DEF Chain
<1>8. Pass(Frame(Root)) = 1
  <2>1. \A n \in Nat : n + 2 - (n + 1) = 1
    OBVIOUS
  <2>2. Len(Patterns) + 2 - (Len(Patterns) + 1) = 1
    BY <2>1, PatternFacts, Zenon
  <2> QED
    BY <1>2, <2>2, PatternFacts DEF Pass
<1>9. Left({}, stack)
  BY <1>3 DEF Left
<1>10. Stored({}, stack, store, tree)
  BY <1>4 DEF Stored
<1>11. NoneMissed({}, stack, store, before)
  <2>1. \A k \in 1..Len(stack) : \A d \in before \cap Dirs : DirWaits({}, stack, k, d)
    BY <1>2, <1>3, <1>4 DEF DirWaits
  <2>2. \A k \in 1..Len(stack) : \A f \in before \cap Names :
          \A i \in 1..Len(Patterns) : FileWaits(stack, store, k, f, i)
    <3>1. \A n \in Nat : \A i \in 1..n : i > 1 \/ i = 1
      OBVIOUS
    <3>2. \A i \in 1..Len(Patterns) : i > 1 \/ i = 1
      BY <3>1, PatternFacts
    <3> QED
      BY <1>2, <1>3, <1>4, <1>8, <3>2 DEF FileWaits
  <2> QED
    BY <2>1, <2>2 DEF NoneMissed
<1> QED
  BY <1>5, <1>6, <1>7, <1>9, <1>10, <1>11 DEF IInv, Visited

\* What the search has stored, what its open calls have still to do and the directories
\* that it has left account for every file, at every moment.
THEOREM Inductive == Spec => []IInv
  BY IInvInit, IInvStep, PTL DEF Spec

\* No file is listed twice, for any tree, any patterns that exclude each other and any
\* uploads meanwhile.
THEOREM ListedOnceAlways == Spec => []ListedOnce
<1>1. IInv => ListedOnce
  BY DEF IInv, Visited, Stored, ListedOnce
<1> QED
  BY <1>1, Inductive, PTL

------------------------------------------------------------------------------
(* The search implements Listing.                                            *)

Asks == {f \in Names : Wanted(f)}
Answer == IF SearchDone THEN ToSet(store) ELSE NotYet
Completed == SearchDone => Asks \cap before \subseteq ToSet(store) /\ ToSet(store) \subseteq Asks \cap tree

\* When the search has ended, it has left every directory that was there, and the
\* store holds what was wanted then and nothing that is not there.
LEMMA Complete == ASSUME IInv PROVE Completed
<1> SUFFICES ASSUME stack = <<>>
             PROVE  Asks \cap before \subseteq ToSet(store) /\ ToSet(store) \subseteq Asks \cap tree
  BY DEF Completed, SearchDone
<1>1. PICK D \in SUBSET (Dirs \cup {Root}) : Visited(D, stack, store, tree, before)
  BY DEF IInv
<1>2. /\ Root \in D
      /\ \A e \in before : Parent[e] \in D =>
           (e \in Dirs => e \in D) /\ (e \in Names /\ Wanted(e) => In(e, store))
  BY <1>1 DEF Visited, Left, NoneMissed
<1>3. /\ before \subseteq Dirs \cup Names /\ store \in Seq(Names)
      /\ \A e \in before : Parent[e] \in before \cup {Root}
      /\ \A e \in before : Parent[e] \in Dirs \cup {Root}
  BY TreeAssumption DEF IInv, Types
<1>4. before \cap Dirs \subseteq D
  <2> DEFINE S == (before \cap Dirs) \ D
  <2>1. SUFFICES ASSUME S # {} PROVE FALSE
    OBVIOUS
  <2>2. PICK d \in S : Parent[d] \notin S
    BY <2>1, TreeAssumption
  <2>3. Parent[d] \in D
    BY <1>2, <1>3, <2>2
  <2> QED
    BY <1>2, <2>2, <2>3
<1>5. ASSUME NEW f \in Asks \cap before PROVE f \in ToSet(store)
  <2>1. Parent[f] \in D
    BY <1>2, <1>3, <1>4
  <2>2. In(f, store)
    BY <1>2, <2>1 DEF Asks
  <2>3. DOMAIN store = 1..Len(store)
    BY <1>3
  <2> QED
    BY <2>2, <2>3 DEF In, ToSet
<1>6. ASSUME NEW f \in ToSet(store) PROVE f \in Asks \cap tree
  <2>1. PICK i \in 1..Len(store) : store[i] = f
    BY <1>3, <1>6 DEF ToSet
  <2>2. f \in tree /\ Wanted(f)
    BY <1>1, <2>1 DEF Visited, Stored
  <2>3. f \in Names
    BY <1>3, <2>1
  <2> QED
    BY <2>2, <2>3 DEF Asks
<1> QED
  BY <1>5, <1>6

\* Every step of the whole is one of Listing or changes nothing of it.
LEMMA StepLists ==
  ASSUME IInv, Completed', [Next]_vars
  PROVE  [L!Next]_<<Asks \cap tree, Asks \cap before, Answer>>
<1>1. Types /\ FramesSound
  BY DEF IInv
<1>2. CASE Upload
  <2>1. PICK e \in (Dirs \cup Names) \ tree : Create(e)
    BY <1>2 DEF Upload
  <2>2. before' = before /\ stack' = stack /\ store' = store /\ tree' = tree \cup {e}
    BY <1>1, <1>2, <2>1, UploadMoves DEF Create
  <2>3. Answer' = Answer
    BY <2>2 DEF Answer, SearchDone
  <2>4. CASE e \in Asks
    <3>1. e \in Asks \ (Asks \cap tree) /\ (Asks \cap tree)' = (Asks \cap tree) \cup {e}
          /\ (Asks \cap before)' = Asks \cap before
      BY <2>1, <2>2, <2>4 DEF Asks
    <3>2. L!Add
      BY <2>3, <3>1 DEF L!Add, Asks, Answer
    <3> QED
      BY <3>2 DEF L!Next
  <2>5. CASE e \notin Asks
    <3>1. (Asks \cap tree)' = Asks \cap tree /\ (Asks \cap before)' = Asks \cap before
      BY <2>2, <2>5 DEF Asks
    <3> QED
      BY <2>3, <3>1
  <2> QED
    BY <2>4, <2>5
<1>3. CASE UNCHANGED <<tree, before, stack, store>>
  BY <1>3 DEF Answer, SearchDone, Asks
<1>4. CASE FindFirst \/ PassEnds \/ Descend \/ Return \/ \E e \in Entries : FindNext(e)
  <2>1. tree' = tree /\ before' = before /\ stack # <<>>
    BY <1>4 DEF FindFirst, PassEnds, Descend, Return, FindNext
  <2>2. Answer = NotYet
    BY <2>1 DEF Answer, SearchDone
  <2>3. (Asks \cap tree)' = Asks \cap tree /\ (Asks \cap before)' = Asks \cap before
    BY <2>1 DEF Asks
  <2>4. CASE stack' # <<>>
    <3>1. Answer' = NotYet
      BY <2>4 DEF Answer, SearchDone
    <3> QED
      BY <2>2, <2>3, <3>1
  <2>5. CASE stack' = <<>>
    <3>1. Answer' = ToSet(store')
      BY <2>5 DEF Answer, SearchDone
    <3>2. (Asks \cap before)' \subseteq ToSet(store') /\ ToSet(store') \subseteq (Asks \cap tree)'
      BY <2>5 DEF Completed, SearchDone
    <3>3. L!Answer
      BY <2>2, <2>3, <3>1, <3>2 DEF L!Answer, Asks, Answer
    <3> QED
      BY <3>3 DEF L!Next
  <2> QED
    BY <2>4, <2>5
<1> QED
  BY <1>2, <1>3, <1>4, Steps

\* The search does what module Listing promises, whatever is uploaded meanwhile: its
\* answer names every wanted file that was there when it began and none that is not
\* there.
THEOREM ListsFilesAlways == Spec => ListsFiles
<1>1. Init => L!Init
  <2>1. SUFFICES ASSUME Init PROVE L!Init
    OBVIOUS
  <2>2. before = tree /\ stack = <<Frame(Root)>> /\ stack # <<>>
    BY <2>1 DEF Init, SearchInit
  <2> QED
    BY <2>2 DEF L!Init, SearchDone
<1>2. IInv /\ Completed' /\ [Next]_vars => [L!Next]_<<Asks \cap tree, Asks \cap before, Answer>>
  BY StepLists
<1>3. IInv => Completed
  BY Complete
<1> QED
  BY <1>1, <1>2, <1>3, Inductive, PTL DEF Spec, ListsFiles, L!Spec, Asks, Answer

------------------------------------------------------------------------------
(* The lines of a text.                                                      *)

Texts == Seq(Chars)

\* What one more character makes of the lines a.
Longer(a, c) == IF c = Newline THEN Append(a, <<>>)
                ELSE Append(Front(a), Append(Last(a), c))

\* Induction over texts.
LEMMA AllTexts ==
  ASSUME NEW S \in SUBSET Texts, <<>> \in S, \A t \in S : \A c \in Chars : Append(t, c) \in S
  PROVE  S = Texts
<1> DEFINE N == {n \in Nat : \A t \in Texts : Len(t) = n => t \in S}
<1>1. 0 \in N
  <2>1. \A t \in Texts : Len(t) = 0 => t = <<>>
    BY DEF Texts
  <2> QED
    BY <2>1
<1>2. ASSUME NEW n \in N PROVE n + 1 \in N
  <2>1. SUFFICES ASSUME NEW t \in Texts, Len(t) = n + 1 PROVE t \in S
    BY <1>2
  <2>2. t \in Seq(Chars) /\ t # <<>> /\ n \in Nat
    BY <1>2, <2>1 DEF Texts
  <2>3. PICK s \in Seq(Chars), c \in Chars : t = Append(s, c)
    BY <2>2, SequenceEmptyOrAppend
  <2>4. Len(s) = n
    BY <2>1, <2>2, <2>3
  <2>5. s \in S
    BY <2>4, <1>2 DEF Texts
  <2> QED
    BY <2>3, <2>5
<1>3. N = Nat
  <2>1. N \in SUBSET Nat
    OBVIOUS
  <2> HIDE DEF N
  <2> QED
    BY <1>1, <1>2, <2>1, AllNumbers
<1>4. \A t \in Texts : Len(t) \in Nat
  BY DEF Texts
<1> QED
  BY <1>3, <1>4

\* A function that follows the definition of LinesOf exists, and LinesOf is its value.
LEMMA LinesRec ==
  ASSUME NEW t \in Texts
  PROVE  \E g : /\ g[0] = << <<>> >>
                /\ \A n \in 1..Len(t) : g[n] = Longer(g[n - 1], t[n])
                /\ LinesOf(t) = g[Len(t)]
<1> DEFINE G(g, m) == [n \in 0..m |-> IF n = 0 THEN << <<>> >> ELSE Longer(g[n - 1], t[n])]
           N == {m \in Nat : \E g : g = G(g, m)}
<1>1. 0 \in N
  <2> DEFINE g == [n \in 0..0 |-> << <<>> >>]
  <2>1. g = G(g, 0)
    OBVIOUS
  <2> HIDE DEF G
  <2> QED
    BY <2>1
<1>2. ASSUME NEW m \in N PROVE m + 1 \in N
  <2>1. m \in Nat /\ m + 1 \in Nat
    OBVIOUS
  <2>2. PICK g : g = G(g, m)
    OBVIOUS
  <2> DEFINE h == [n \in 0..(m + 1) |-> IF n = m + 1 THEN Longer(g[m], t[m + 1]) ELSE g[n]]
  <2>3. ASSUME NEW n \in 0..(m + 1)
        PROVE  h[n] = IF n = 0 THEN << <<>> >> ELSE Longer(h[n - 1], t[n])
    <3>1. CASE n = 0
      <4>1. 0 \in 0..m /\ n # m + 1
        BY <2>1, <3>1
      <4>2. g[0] = << <<>> >>
        BY <2>2, <4>1
      <4> QED
        BY <3>1, <4>1, <4>2
    <3>2. CASE n = m + 1
      <4>1. n - 1 = m /\ m \in 0..(m + 1) /\ m # m + 1 /\ n # 0
        BY <2>1, <3>2
      <4> QED
        BY <3>2, <4>1
    <3>3. CASE n # 0 /\ n # m + 1
      <4>1. n \in 0..m /\ n - 1 \in 0..(m + 1) /\ n - 1 # m + 1
        BY <2>1, <3>3
      <4>2. g[n] = Longer(g[n - 1], t[n])
        BY <2>2, <3>3, <4>1
      <4> QED
        BY <3>3, <4>1, <4>2
    <3> QED
      BY <3>1, <3>2, <3>3
  <2>4. h = G(h, m + 1)
    BY <2>3
  <2> HIDE DEF G
  <2> QED
    BY <2>1, <2>4
<1>3. N = Nat
  <2>1. N \in SUBSET Nat
    OBVIOUS
  <2> HIDE DEF N
  <2> QED
    BY <1>1, <1>2, <2>1, AllNumbers
<1>4. Len(t) \in Nat
  BY DEF Texts
<1> DEFINE f == CHOOSE g : g = G(g, Len(t))
<1>5. f = G(f, Len(t))
  <2>1. \E g : g = G(g, Len(t))
    BY <1>3, <1>4
  <2> HIDE DEF G
  <2> QED
    BY <2>1
<1>6. LinesOf(t) = f[Len(t)]
  BY DEF LinesOf, Longer
<1> HIDE DEF f
<1>7. 0 \in 0..Len(t) /\ \A n \in 1..Len(t) : n \in 0..Len(t) /\ n # 0
  BY <1>4
<1>8. f[0] = << <<>> >> /\ \A n \in 1..Len(t) : f[n] = Longer(f[n - 1], t[n])
  BY <1>5, <1>7
<1> QED
  BY <1>6, <1>8

\* The lines of the empty text, and of a text with one more character.
LEMMA LinesAre ==
  /\ LinesOf(<<>>) = << <<>> >>
  /\ \A t \in Texts : \A c \in Chars : LinesOf(Append(t, c)) = Longer(LinesOf(t), c)
<1>1. LinesOf(<<>>) = << <<>> >>
  <2>1. <<>> \in Texts /\ Len(<<>>) = 0
    BY DEF Texts
  <2> QED
    BY <2>1, LinesRec
<1>2. ASSUME NEW t \in Texts, NEW c \in Chars
      PROVE  LinesOf(Append(t, c)) = Longer(LinesOf(t), c)
  <2>1. /\ Append(t, c) \in Texts /\ Len(Append(t, c)) = Len(t) + 1 /\ Len(t) \in Nat
        /\ \A i \in 1..Len(t) : Append(t, c)[i] = t[i]
        /\ Append(t, c)[Len(t) + 1] = c
    BY AppendProperties DEF Texts
  <2>2. PICK g : /\ g[0] = << <<>> >>
                 /\ \A n \in 1..Len(t) : g[n] = Longer(g[n - 1], t[n])
                 /\ LinesOf(t) = g[Len(t)]
    BY LinesRec
  <2>3. PICK h : /\ h[0] = << <<>> >>
                 /\ \A n \in 1..(Len(t) + 1) : h[n] = Longer(h[n - 1], Append(t, c)[n])
                 /\ LinesOf(Append(t, c)) = h[Len(t) + 1]
    BY <2>1, LinesRec
  <2> DEFINE N == {n \in Nat : n <= Len(t) => h[n] = g[n]}
  <2>4. 0 \in N
    BY <2>2, <2>3
  <2>5. ASSUME NEW n \in N PROVE n + 1 \in N
    <3>1. SUFFICES ASSUME n + 1 <= Len(t) PROVE h[n + 1] = g[n + 1]
      OBVIOUS
    <3>2. /\ n + 1 \in 1..Len(t) /\ n + 1 \in 1..(Len(t) + 1) /\ (n + 1) - 1 = n /\ n <= Len(t)
          /\ n \in Nat
      BY <2>1, <3>1
    <3>3. h[n + 1] = Longer(h[n], t[n + 1])
      BY <2>1, <2>3, <3>2
    <3>4. g[n + 1] = Longer(g[n], t[n + 1])
      BY <2>2, <3>2
    <3> QED
      BY <3>2, <3>3, <3>4
  <2>6. N = Nat
    <3>1. N \in SUBSET Nat
      OBVIOUS
    <3> HIDE DEF N
    <3> QED
      BY <2>4, <2>5, <3>1, AllNumbers
  <2>7. h[Len(t)] = g[Len(t)]
    BY <2>1, <2>6
  <2>8. Len(t) + 1 \in 1..(Len(t) + 1) /\ (Len(t) + 1) - 1 = Len(t)
    BY <2>1
  <2> QED
    BY <2>1, <2>2, <2>3, <2>7, <2>8
<1> QED
  BY <1>1, <1>2

\* Lists of lines: one at least.
Lists1 == {a \in Seq(Texts) : Len(a) > 0}

\* b goes on where a ends: in a's last line.
Grown(a, b) == /\ Len(a) <= Len(b)
               /\ \A i \in 1..(Len(a) - 1) : b[i] = a[i]
               /\ IsPrefix(a[Len(a)], b[Len(a)])

\* A text is a prefix of itself and of itself with more behind it.
LEMMA PrefixIs ==
  ASSUME NEW s \in Texts, NEW t \in Texts
  PROVE  /\ IsPrefix(s, t) <=> Len(s) <= Len(t) /\ \A i \in 1..Len(s) : s[i] = t[i]
         /\ IsPrefix(s, s) /\ IsPrefix(s, s \o t)
<1>1. Len(s) \in Nat /\ Len(t) \in Nat /\ s \in Seq(Chars) /\ t \in Seq(Chars)
  BY DEF Texts
<1>2. ASSUME NEW u \in Texts, NEW v \in Texts
      PROVE  IsPrefix(u, v) <=> Len(u) <= Len(v) /\ \A i \in 1..Len(u) : u[i] = v[i]
  <2>1. Len(u) \in Nat /\ Len(v) \in Nat /\ u \in Seq(Chars) /\ v \in Seq(Chars)
    BY DEF Texts
  <2>2. ASSUME Len(u) <= Len(v)
        PROVE  SubSeq(u, 1, Len(u)) = SubSeq(v, 1, Len(u)) <=> \A i \in 1..Len(u) : u[i] = v[i]
    <3>1. SubSeq(u, 1, Len(u)) = u
      BY <2>1, SubSeqFull
    <3>2. /\ SubSeq(v, 1, Len(u)) \in Seq(Chars) /\ Len(SubSeq(v, 1, Len(u))) = Len(u)
          /\ \A i \in 1..Len(u) : SubSeq(v, 1, Len(u))[i] = v[i]
      BY <2>1, <2>2
    <3> QED
      BY <2>1, <3>1, <3>2, SeqEqual
  <2> QED
    BY <2>2 DEF IsPrefix
<1>3. /\ s \o t \in Texts /\ Len(s) <= Len(s \o t) /\ \A i \in 1..Len(s) : (s \o t)[i] = s[i]
  BY <1>1, ConcatProperties DEF Texts
<1>4. Len(s) <= Len(s)
  BY <1>1
<1> QED
  BY <1>2, <1>3, <1>4, Zenon

\* A character behind the second of two texts is one behind both.
LEMMA AppendBehind ==
  ASSUME NEW s \in Texts, NEW t \in Texts, NEW c \in Chars
  PROVE  s \o t \in Texts /\ Append(t, c) \in Texts /\ s \o Append(t, c) = Append(s \o t, c)
<1>1. s \in Seq(Chars) /\ t \in Seq(Chars) /\ <<c>> \in Seq(Chars) /\ s \o t \in Seq(Chars)
  BY ConcatProperties DEF Texts
<1>2. Append(t, c) = t \o <<c>> /\ Append(s \o t, c) = (s \o t) \o <<c>>
  BY <1>1, AppendIsConcat
<1>3. (s \o t) \o <<c>> = s \o (t \o <<c>>)
  BY <1>1, ConcatAssociative
<1> QED
  BY <1>1, <1>2, <1>3, AppendProperties DEF Texts

\* The parts of a list of lines.
LEMMA LastLine ==
  ASSUME NEW a \in Lists1
  PROVE  /\ Len(a) \in Nat /\ Len(a) >= 1 /\ a \in Seq(Texts) /\ Len(a) \in 1..Len(a)
         /\ Last(a) = a[Len(a)] /\ a[Len(a)] \in Texts
         /\ Front(a) \in Seq(Texts) /\ Len(Front(a)) = Len(a) - 1
         /\ \A i \in 1..(Len(a) - 1) : Front(a)[i] = a[i]
         /\ \A i \in 1..Len(a) : a[i] \in Texts
<1>1. a \in Seq(Texts) /\ Len(a) \in Nat /\ Len(a) >= 1 /\ Len(a) \in 1..Len(a)
  BY DEF Lists1
<1>2. \A i \in 1..Len(a) : a[i] \in Texts
  BY <1>1, ElementOfSeq
<1>3. /\ SubSeq(a, 1, Len(a) - 1) \in Seq(Texts) /\ Len(SubSeq(a, 1, Len(a) - 1)) = Len(a) - 1
      /\ \A i \in 1..(Len(a) - 1) : SubSeq(a, 1, Len(a) - 1)[i] = a[i]
  <2> DEFINE n == Len(a) - 1
  <2>1. n \in Int /\ n >= 0 /\ 1 \in Int /\ (IF 1 <= n THEN n - 1 + 1 ELSE 0) = n /\ n - 1 + 1 = n
    <3>1. \A k \in Nat : k >= 1 => /\ k - 1 \in Int /\ 1 \in Int /\ k - 1 >= 0
                                  /\ (IF 1 <= k - 1 THEN (k - 1) - 1 + 1 ELSE 0) = k - 1
                                  /\ (k - 1) - 1 + 1 = k - 1
      OBVIOUS
    <3> QED
      BY <1>1, <3>1, Zenon
  <2>2. \A i \in 1..n : a[i] \in Texts /\ 1 + i - 1 = i
    BY <1>1, <1>2
  <2> HIDE DEF n
  <2>3. /\ SubSeq(a, 1, n) \in Seq(Texts)
        /\ Len(SubSeq(a, 1, n)) = IF 1 <= n THEN n - 1 + 1 ELSE 0
        /\ \A i \in 1..(n - 1 + 1) : SubSeq(a, 1, n)[i] = a[1 + i - 1]
    BY <2>1, <2>2, SubSeqProperties
  <2>4. /\ SubSeq(a, 1, n) \in Seq(Texts) /\ Len(SubSeq(a, 1, n)) = n
        /\ \A i \in 1..n : SubSeq(a, 1, n)[i] = a[i]
    BY <2>1, <2>2, <2>3
  <2> QED
    BY <2>4 DEF n
<1> QED
  BY <1>1, <1>2, <1>3 DEF Last, Front

\* With another last line.
LEMMA NewLast ==
  ASSUME NEW a \in Lists1, NEW l \in Texts
  PROVE  /\ Append(Front(a), l) \in Lists1 /\ Len(Append(Front(a), l)) = Len(a)
         /\ Append(Front(a), l)[Len(a)] = l
         /\ \A i \in 1..(Len(a) - 1) : Append(Front(a), l)[i] = a[i]
         /\ Front(Append(Front(a), l)) = Front(a) /\ Last(Append(Front(a), l)) = l
         /\ Append(Front(a), Last(a)) = a
<1>1. /\ Len(a) \in Nat /\ Len(a) >= 1 /\ Last(a) = a[Len(a)] /\ a[Len(a)] \in Texts
      /\ a \in Seq(Texts)
      /\ Front(a) \in Seq(Texts) /\ Len(Front(a)) = Len(a) - 1
      /\ \A i \in 1..(Len(a) - 1) : Front(a)[i] = a[i]
  BY LastLine
<1>2. ASSUME NEW m \in Texts
      PROVE  /\ Append(Front(a), m) \in Lists1 /\ Append(Front(a), m) \in Seq(Texts)
             /\ Len(Append(Front(a), m)) = Len(a)
             /\ Append(Front(a), m)[Len(a)] = m
             /\ \A i \in 1..(Len(a) - 1) : Append(Front(a), m)[i] = a[i]
  <2>1. /\ Append(Front(a), m) \in Seq(Texts)
        /\ Len(Append(Front(a), m)) = Len(Front(a)) + 1
        /\ \A i \in 1..Len(Front(a)) : Append(Front(a), m)[i] = Front(a)[i]
        /\ Append(Front(a), m)[Len(Front(a)) + 1] = m
    BY <1>1, AppendProperties
  <2> QED
    BY <1>1, <2>1 DEF Lists1
<1>3. Last(Append(Front(a), l)) = l
  BY <1>2 DEF Last
<1>4. Front(Append(Front(a), l)) = Front(a)
  <2>1. /\ Front(Append(Front(a), l)) \in Seq(Texts)
        /\ Len(Front(Append(Front(a), l))) = Len(a) - 1
        /\ \A i \in 1..(Len(a) - 1) : Front(Append(Front(a), l))[i] = a[i]
    <3> DEFINE b == Append(Front(a), l)
    <3>1. b \in Lists1 /\ Len(b) = Len(a) /\ \A i \in 1..(Len(a) - 1) : b[i] = a[i]
      BY <1>2
    <3> HIDE DEF b
    <3>2. /\ Front(b) \in Seq(Texts) /\ Len(Front(b)) = Len(b) - 1
          /\ \A i \in 1..(Len(b) - 1) : Front(b)[i] = b[i]
      BY <3>1, LastLine
    <3>3. /\ Front(b) \in Seq(Texts) /\ Len(Front(b)) = Len(a) - 1
          /\ \A i \in 1..(Len(a) - 1) : Front(b)[i] = a[i]
      BY <3>1, <3>2
    <3> QED
      BY <3>3 DEF b
  <2> QED
    BY <1>1, <2>1, SeqEqual
<1>5. Append(Front(a), Last(a)) = a
  <2>1. \A i \in 1..Len(a) : i \in 1..(Len(a) - 1) \/ i = Len(a)
    BY <1>1
  <2>2. \A i \in 1..Len(a) : Append(Front(a), Last(a))[i] = a[i]
    BY <1>1, <1>2, <2>1
  <2> QED
    BY <1>1, <1>2, <2>2, SeqEqual
<1> QED
  BY <1>2, <1>3, <1>4, <1>5

\* One character more.
LEMMA LongerIs ==
  ASSUME NEW a \in Lists1, NEW c \in Chars
  PROVE  Longer(a, c) \in Lists1 /\ Grown(a, Longer(a, c))
<1>1. /\ Len(a) \in Nat /\ Len(a) >= 1 /\ Last(a) = a[Len(a)] /\ a[Len(a)] \in Texts
      /\ a \in Seq(Texts)
  BY LastLine
<1>2. CASE c = Newline
  <2>1. <<>> \in Texts
    BY DEF Texts
  <2>2. /\ Append(a, <<>>) \in Seq(Texts) /\ Len(Append(a, <<>>)) = Len(a) + 1
        /\ \A i \in 1..Len(a) : Append(a, <<>>)[i] = a[i]
    BY <1>1, <2>1, AppendProperties
  <2>3. Longer(a, c) = Append(a, <<>>)
    BY <1>2 DEF Longer
  <2>4. /\ Len(a) <= Len(a) + 1 /\ Len(a) + 1 > 0 /\ Len(a) \in 1..Len(a)
        /\ \A i \in 1..(Len(a) - 1) : i \in 1..Len(a)
    BY <1>1
  <2>5. IsPrefix(a[Len(a)], a[Len(a)])
    BY <1>1, PrefixIs
  <2> QED
    BY <2>2, <2>3, <2>4, <2>5 DEF Lists1, Grown
<1>3. CASE c # Newline
  <2>1. Longer(a, c) = Append(Front(a), Append(Last(a), c))
    BY <1>3 DEF Longer
  <2>2. Append(Last(a), c) \in Texts /\ <<c>> \in Texts /\ Append(Last(a), c) = Last(a) \o <<c>>
    BY <1>1, AppendProperties, AppendIsConcat DEF Texts
  <2>3. IsPrefix(Last(a), Append(Last(a), c))
    BY <1>1, <2>2, PrefixIs
  <2> QED
    BY <1>1, <2>1, <2>2, <2>3, NewLast DEF Grown
<1> QED
  BY <1>2, <1>3

\* To go on is transitive.
LEMMA GrownOn ==
  ASSUME NEW a \in Lists1, NEW b \in Lists1, NEW c \in Lists1, Grown(a, b), Grown(b, c)
  PROVE  Grown(a, c)
<1>1. /\ Len(a) \in Nat /\ Len(a) >= 1 /\ Len(b) \in Nat /\ Len(b) >= 1 /\ Len(c) \in Nat
      /\ Len(a) <= Len(b) /\ Len(b) <= Len(c)
  BY LastLine DEF Grown
<1>2. /\ Len(a) <= Len(c) /\ Len(a) \in 1..Len(a) /\ Len(a) \in 1..Len(b) /\ Len(a) \in 1..Len(c)
      /\ \A i \in 1..(Len(a) - 1) : i \in 1..(Len(b) - 1)
      /\ Len(a) = Len(b) \/ Len(a) \in 1..(Len(b) - 1)
  BY <1>1
<1>3. \A i \in 1..(Len(a) - 1) : c[i] = a[i]
  BY <1>2 DEF Grown
<1>4. IsPrefix(a[Len(a)], c[Len(a)])
  <2>1. a[Len(a)] \in Texts /\ b[Len(a)] \in Texts /\ c[Len(a)] \in Texts
    BY <1>2, LastLine
  <2>2. IsPrefix(a[Len(a)], b[Len(a)])
    BY DEF Grown
  <2>3. CASE Len(a) = Len(b)
    <3>1. IsPrefix(b[Len(a)], c[Len(a)])
      BY <2>3 DEF Grown
    <3> DEFINE x == a[Len(a)]
               y == b[Len(a)]
               z == c[Len(a)]
    <3>2. /\ Len(x) <= Len(y) /\ \A i \in 1..Len(x) : x[i] = y[i]
          /\ Len(y) <= Len(z) /\ \A i \in 1..Len(y) : y[i] = z[i]
      BY <2>1, <2>2, <3>1, PrefixIs
    <3>3. x \in Texts /\ z \in Texts /\ Len(x) \in Nat /\ Len(y) \in Nat /\ Len(z) \in Nat
      BY <2>1 DEF Texts
    <3> HIDE DEF x, y, z
    <3>4. Len(x) <= Len(z) /\ \A i \in 1..Len(x) : x[i] = z[i]
      BY <3>2, <3>3
    <3>5. IsPrefix(x, z)
      BY <3>3, <3>4, PrefixIs
    <3> QED
      BY <3>5 DEF x, z
  <2>4. CASE Len(a) \in 1..(Len(b) - 1)
    BY <2>2, <2>4 DEF Grown
  <2> QED
    BY <1>2, <2>3, <2>4
<1> QED
  BY <1>2, <1>3, <1>4 DEF Grown

\* The lines of a text are texts, and one at least.
LEMMA LinesType == \A t \in Texts : LinesOf(t) \in Lists1
<1> DEFINE S == {t \in Texts : LinesOf(t) \in Lists1}
<1>1. <<>> \in S
  <2>1. << <<>> >> \in Lists1
    BY DEF Lists1, Texts
  <2> QED
    BY <2>1, LinesAre DEF Texts
<1>2. ASSUME NEW t \in S, NEW c \in Chars PROVE Append(t, c) \in S
  BY LinesAre, LongerIs, AppendProperties DEF Texts
<1>3. S = Texts
  <2>1. S \in SUBSET Texts
    OBVIOUS
  <2> HIDE DEF S
  <2> QED
    BY <1>1, <1>2, <2>1, AllTexts
<1> QED
  BY <1>3

\* What is put behind a text makes its last line longer and adds lines.
LEMMA LinesGrow ==
  ASSUME NEW u \in Texts, NEW v \in Texts PROVE Grown(LinesOf(u), LinesOf(u \o v))
<1> DEFINE S == {t \in Texts : Grown(LinesOf(u), LinesOf(u \o t))}
<1>1. <<>> \in S
  <2>1. u \o <<>> = u /\ <<>> \in Texts
    BY ConcatEmptySeq DEF Texts
  <2>2. LinesOf(u) \in Lists1
    BY LinesType
  <2>3. Len(LinesOf(u)) <= Len(LinesOf(u))
    BY <2>2, LastLine
  <2>4. IsPrefix(LinesOf(u)[Len(LinesOf(u))], LinesOf(u)[Len(LinesOf(u))])
    BY <2>2, LastLine, PrefixIs
  <2> QED
    BY <2>1, <2>3, <2>4 DEF Grown
<1>2. ASSUME NEW t \in S, NEW c \in Chars PROVE Append(t, c) \in S
  <2>1. u \o t \in Texts /\ Append(t, c) \in Texts /\ u \o Append(t, c) = Append(u \o t, c)
    BY AppendBehind
  <2>2. LinesOf(u \o Append(t, c)) = Longer(LinesOf(u \o t), c)
    BY <2>1, LinesAre
  <2>3. LinesOf(u) \in Lists1 /\ LinesOf(u \o t) \in Lists1
    BY <2>1, LinesType
  <2> QED
    BY <1>2, <2>1, <2>2, <2>3, LongerIs, GrownOn
<1>3. S = Texts
  <2>1. S \in SUBSET Texts
    OBVIOUS
  <2> HIDE DEF S
  <2> QED
    BY <1>1, <1>2, <2>1, AllTexts
<1> QED
  BY <1>3

\* What has no newline only makes the last line longer.
LEMMA LinesPlain ==
  ASSUME NEW u \in Texts, NEW v \in Texts, \A i \in 1..Len(v) : v[i] # Newline
  PROVE  LinesOf(u \o v) = Append(Front(LinesOf(u)), Last(LinesOf(u)) \o v)
<1> DEFINE a == LinesOf(u)
           S == {t \in Texts : (\A i \in 1..Len(t) : t[i] # Newline) =>
                                 LinesOf(u \o t) = Append(Front(a), Last(a) \o t)}
<1>0. a \in Lists1
  BY LinesType
<1>t. Last(a) \in Texts
  BY <1>0, LastLine
<1>1. <<>> \in S
  <2>1. u \o <<>> = u /\ Last(a) \o <<>> = Last(a) /\ <<>> \in Texts
    BY <1>t, ConcatEmptySeq DEF Texts
  <2>2. Append(Front(a), Last(a)) = a
    BY <1>0, NewLast
  <2> QED
    BY <2>1, <2>2
<1>2. ASSUME NEW t \in S, NEW c \in Chars PROVE Append(t, c) \in S
  <2>1. /\ u \o t \in Texts /\ Append(t, c) \in Texts /\ u \o Append(t, c) = Append(u \o t, c)
        /\ Last(a) \o t \in Texts /\ Append(Last(a) \o t, c) = Last(a) \o Append(t, c)
    BY <1>t, AppendBehind
  <2>2. SUFFICES ASSUME \A i \in 1..Len(Append(t, c)) : Append(t, c)[i] # Newline
                 PROVE  LinesOf(u \o Append(t, c)) = Append(Front(a), Last(a) \o Append(t, c))
    BY <2>1
  <2>3. /\ \A i \in 1..Len(t) : t[i] # Newline
        /\ c # Newline
    <3>1. /\ Len(Append(t, c)) = Len(t) + 1 /\ Len(t) \in Nat
          /\ \A i \in 1..Len(t) : Append(t, c)[i] = t[i]
          /\ Append(t, c)[Len(t) + 1] = c
      BY AppendProperties DEF Texts
    <3>2. Len(t) + 1 \in 1..(Len(t) + 1) /\ \A i \in 1..Len(t) : i \in 1..(Len(t) + 1)
      BY <3>1
    <3> QED
      BY <2>2, <3>1, <3>2
  <2>4. LinesOf(u \o t) = Append(Front(a), Last(a) \o t)
    BY <2>3
  <2>5. LinesOf(u \o Append(t, c)) = Longer(LinesOf(u \o t), c)
    BY <2>1, LinesAre
  <2>6. /\ Front(LinesOf(u \o t)) = Front(a) /\ Last(LinesOf(u \o t)) = Last(a) \o t
    <3>1. a \in Lists1 /\ Last(a) \o t \in Texts
      BY <1>0, <2>1
    <3> HIDE DEF a
    <3>2. /\ Front(Append(Front(a), Last(a) \o t)) = Front(a)
          /\ Last(Append(Front(a), Last(a) \o t)) = Last(a) \o t
      BY <3>1, NewLast
    <3> QED
      BY <2>4, <3>2
  <2> QED
    BY <2>1, <2>3, <2>5, <2>6 DEF Longer
<1>3. S = Texts
  <2>1. S \in SUBSET Texts
    OBVIOUS
  <2> HIDE DEF S
  <2> QED
    BY <1>1, <1>2, <2>1, AllTexts
<1> QED
  BY <1>3

------------------------------------------------------------------------------
(* The invariant of the copy and of the lines that are read.                 *)

Streams == [made : BOOLEAN, open : BOOLEAN, eof : BOOLEAN, fail : BOOLEAN, pos : Nat, held : Texts]
Files == [name : Names \cup {Copy}, dirn : {"in", "out"}, typ : {"text", "binary"},
          good : BOOLEAN, in : Streams, out : Streams]

FileTypes == /\ disk \in [Names \cup {Copy} -> Texts]
             /\ log \in Files /\ me \in Files /\ you \in Files /\ file \in Files
             /\ me.name \in Names
             /\ lines \in Seq(Texts) /\ cleared \in BOOLEAN
             /\ pc \in {"search", "copy", "pick", "read", "end"}

\* What was read of a text.
Passed(text, pos) == SubSeq(text, 1, pos)

\* What is in the copy and what its stream holds back are what was read, and only
\* the end of the file stops the reading of one that nobody adds to.
Copying ==
  /\ pc = "search" => disk[Copy] = <<>> /\ you.out.held = <<>>
  /\ pc = "copy" => /\ me.good /\ me.in.made /\ me.in.open /\ you.out.open
                    /\ me.in.pos <= Len(disk[me.name])
                    /\ disk[Copy] \o you.out.held = Passed(disk[me.name], me.in.pos)
                    /\ (me.in.eof \/ me.in.fail) /\ me.name # Log =>
                         me.in.pos = Len(disk[me.name])

\* The stream of the copy holds nothing back when the loop is over.
Copied == pc \in {"pick", "read", "end"} => you.out.held = <<>> /\ CopyIsWhole

\* While the stream is good the lines that were read are whole: behind the last of
\* them a newline was taken.  The last call may have left it in another state.
Reading ==
  /\ pc \in {"search", "copy", "pick"} => lines = <<>> /\ ~cleared
  /\ pc \in {"read", "end"} => file.in.pos <= Len(disk[file.name])
  /\ pc \in {"read", "end"} /\ ~cleared =>
       /\ LinesOf(Passed(disk[file.name], file.in.pos)) \in {lines, Append(lines, <<>>)}
       /\ Good(file.in) => LinesOf(Passed(disk[file.name], file.in.pos)) = Append(lines, <<>>)
  /\ pc = "read" => file.in.made /\ (Good(file.in) => file.in.open)

FInv == FileTypes /\ Copying /\ Copied /\ Reading

------------------------------------------------------------------------------
(* What the operations of a File do.                                         *)

\* The parts of a text.
LEMMA Parts ==
  ASSUME NEW t \in Texts, NEW p \in Nat, NEW n \in Nat, p + n <= Len(t)
  PROVE  /\ Passed(t, p) \in Texts /\ SubSeq(t, p + 1, Len(t)) \in Texts
         /\ Len(SubSeq(t, p + 1, Len(t))) = Len(t) - p
         /\ SubSeq(SubSeq(t, p + 1, Len(t)), 1, n) \in Texts
         /\ Len(SubSeq(SubSeq(t, p + 1, Len(t)), 1, n)) = n
         /\ \A i \in 1..n : SubSeq(SubSeq(t, p + 1, Len(t)), 1, n)[i] = SubSeq(t, p + 1, Len(t))[i]
         /\ Passed(t, p) \o SubSeq(SubSeq(t, p + 1, Len(t)), 1, n) = Passed(t, p + n)
         /\ Passed(t, p) \o SubSeq(t, p + 1, Len(t)) = t
         /\ Passed(t, Len(t)) = t /\ Passed(t, 0) = <<>>
<1> DEFINE r == SubSeq(t, p + 1, Len(t))
<1>1. t \in Seq(Chars) /\ Len(t) \in Nat /\ p <= Len(t)
  BY DEF Texts
<1>2. Passed(t, p) \in Seq(Chars)
  <2>1. \A i \in 1..p : t[i] \in Chars
    BY <1>1, ElementOfSeq
  <2> QED
    BY <2>1, SubSeqProperties DEF Passed
<1>3. r \in Seq(Chars) /\ Len(r) = Len(t) - p
  <2>1. \A i \in (p + 1)..Len(t) : t[i] \in Chars
    BY <1>1, ElementOfSeq
  <2>2. r \in Seq(Chars) /\ Len(r) = IF p + 1 <= Len(t) THEN Len(t) - (p + 1) + 1 ELSE 0
    <3>1. p + 1 \in Int /\ Len(t) \in Int
      BY <1>1
    <3> QED
      BY <2>1, <3>1, SubSeqProperties
  <2> QED
    BY <1>1, <2>2
<1>4. Passed(t, p) \o r = t
  <2>1. 1 \in 1..(Len(t) + 1) /\ p \in (1 - 1)..Len(t) /\ Len(t) \in p..Len(t)
    BY <1>1
  <2>2. SubSeq(t, 1, p) \o SubSeq(t, p + 1, Len(t)) = SubSeq(t, 1, Len(t))
    BY <1>1, <2>1, ConcatAdjacentSubSeq
  <2> QED
    BY <1>1, <2>2, SubSeqFull DEF Passed
<1>5. /\ SubSeq(r, 1, n) \in Seq(Chars) /\ Len(SubSeq(r, 1, n)) = n
      /\ \A i \in 1..n : SubSeq(r, 1, n)[i] = r[i]
  <2> HIDE DEF r
  <2>1. \A i \in 1..n : r[i] \in Chars
    BY <1>1, <1>3, ElementOfSeq
  <2>2. /\ SubSeq(r, 1, n) \in Seq(Chars)
        /\ Len(SubSeq(r, 1, n)) = IF 1 <= n THEN n - 1 + 1 ELSE 0
        /\ \A i \in 1..(n - 1 + 1) : SubSeq(r, 1, n)[i] = r[1 + i - 1]
    BY <2>1, SubSeqProperties
  <2>3. (IF 1 <= n THEN n - 1 + 1 ELSE 0) = n /\ n - 1 + 1 = n /\ \A i \in 1..n : 1 + i - 1 = i
    OBVIOUS
  <2> QED
    BY <2>2, <2>3
<1>6. Passed(t, p) \o SubSeq(r, 1, n) = Passed(t, p + n)
  <2>1. CASE n = 0
    <3>1. SubSeq(r, 1, 0) = <<>>
      BY SubSeqEmpty
    <3> QED
      BY <1>2, <2>1, <3>1, ConcatEmptySeq
  <2>2. CASE n # 0
    <3>1. SubSeq(r, 1, n) = SubSeq(t, p + 1, p + n)
      <4>1. /\ p + 1 \in 1..Len(t) /\ Len(t) \in 1..Len(t)
            /\ 1 \in 1..(Len(t) - (p + 1) + 1) /\ n \in 1..(Len(t) - (p + 1) + 1)
            /\ (p + 1) + 1 - 1 = p + 1 /\ (p + 1) + n - 1 = p + n
        BY <1>1, <2>2
      <4>2. SubSeq(r, 1, n) = SubSeq(t, (p + 1) + 1 - 1, (p + 1) + n - 1)
        BY <1>1, <4>1, SubSeqOfSubSeq
      <4> QED
        BY <4>1, <4>2
    <3>2. SubSeq(t, 1, p) \o SubSeq(t, p + 1, p + n) = SubSeq(t, 1, p + n)
      BY <1>1, ConcatAdjacentSubSeq
    <3> QED
      BY <3>1, <3>2 DEF Passed
  <2> QED
    BY <2>1, <2>2
<1>7. Passed(t, Len(t)) = t /\ Passed(t, 0) = <<>>
  <2>1. SubSeq(t, 1, 0) = <<>>
    BY SubSeqEmpty
  <2> QED
    BY <1>1, <2>1, SubSeqFull DEF Passed
<1> QED
  BY <1>2, <1>3, <1>4, <1>5, <1>6, <1>7 DEF Texts

\* What is put behind a text does not change what was read of it.
LEMMA PassedKept ==
  ASSUME NEW t \in Texts, NEW v \in Texts, NEW p \in Nat, p <= Len(t)
  PROVE  /\ t \o v \in Texts /\ Len(t) <= Len(t \o v) /\ Passed(t \o v, p) = Passed(t, p)
<1>1. t \in Seq(Chars) /\ v \in Seq(Chars) /\ Len(t) \in Nat /\ Len(v) \in Nat
  BY DEF Texts
<1>2. t \o v \in Seq(Chars) /\ Len(t \o v) = Len(t) + Len(v)
  BY <1>1, ConcatProperties
<1>3. Passed(t \o v, p) = Passed(t, p)
  <2>1. CASE p = 0
    <3>1. SubSeq(t \o v, 1, 0) = <<>> /\ SubSeq(t, 1, 0) = <<>>
      BY SubSeqEmpty
    <3> QED
      BY <2>1, <3>1 DEF Passed
  <2>2. CASE p # 0
    <3>1. p \in 1..Len(t) /\ 1 \in 1..Len(t)
      BY <1>1, <2>2
    <3>2. SubSeq(t \o v, 1, p) = SubSeq(t, 1, p)
      BY <1>1, <3>1, SubSeqOfConcat1
    <3> QED
      BY <3>2 DEF Passed
  <2> QED
    BY <2>1, <2>2
<1> QED
  BY <1>1, <1>2, <1>3 DEF Texts

\* The smallest of a set of numbers.
LEMMA MinIs ==
  ASSUME NEW S \in SUBSET Nat, S # {}
  PROVE  Min(S) \in S /\ \A y \in S : Min(S) <= y
<1>1. IsWellFoundedOn(Less, Nat)
  BY NatLessThanWellFounded DEF OpToRel, Less
<1>2. PICK x \in S : \A y \in S : ~ (<<y, x>> \in Less)
  BY <1>1, WFMin
<1>3. \A y \in S : x <= y
  <2>1. SUFFICES ASSUME NEW y \in S PROVE x <= y
    OBVIOUS
  <2>2. x \in Nat /\ y \in Nat
    OBVIOUS
  <2>3. ~ (y < x)
    BY <1>2, <2>2 DEF Less
  <2> QED
    BY <2>2, <2>3
<1> QED
  BY <1>3 DEF Min

\* A line goes to the first newline, or to the end.
LEMMA LineLengthIs ==
  ASSUME NEW rest \in Texts
  PROVE  /\ LineLength(rest) \in Nat /\ LineLength(rest) <= Len(rest)
         /\ \A i \in 1..LineLength(rest) : rest[i] # Newline
         /\ LineLength(rest) < Len(rest) => rest[LineLength(rest) + 1] = Newline
<1> DEFINE S == {Len(rest)} \cup {i - 1 : i \in {j \in 1..Len(rest) : rest[j] = Newline}}
           k == LineLength(rest)
<1>1. Len(rest) \in Nat
  BY DEF Texts
<1>2. S \in SUBSET Nat /\ S # {}
  BY <1>1
<1>3. k \in S /\ \A y \in S : k <= y
  <2> HIDE DEF S
  <2>1. Min(S) \in S /\ \A y \in S : Min(S) <= y
    BY <1>2, MinIs
  <2> QED
    BY <2>1 DEF LineLength, S
<1>4. k \in Nat /\ k <= Len(rest)
  BY <1>1, <1>2, <1>3
<1> HIDE DEF k
<1>5. ASSUME NEW i \in 1..k, rest[i] = Newline PROVE FALSE
  <2>1. i \in 1..Len(rest) /\ i - 1 < k
    BY <1>1, <1>4
  <2>2. i - 1 \in S
    BY <1>5, <2>1
  <2> QED
    BY <1>3, <1>4, <2>1, <2>2
<1>6. ASSUME k < Len(rest) PROVE rest[k + 1] = Newline
  <2>1. PICK i \in 1..Len(rest) : rest[i] = Newline /\ k = i - 1
    BY <1>1, <1>3, <1>6
  <2>2. i = k + 1
    BY <1>1, <2>1
  <2> QED
    BY <2>1, <2>2
<1> QED
  BY <1>4, <1>5, <1>6 DEF k

\* getLine's buffer takes the line or as much of it as it is long.
LEMMA LineTakenIs ==
  ASSUME NEW rest \in Texts
  PROVE  \E n \in Nat : /\ n <= LineLength(rest) /\ LineTaken(rest) = SubSeq(rest, 1, n)
<1> DEFINE k == LineLength(rest)
           n == Min({k, BufLimit})
<1>1. k \in Nat /\ BufLimit \in Nat
  BY LineLengthIs, LimitsAssumption
<1> HIDE DEF k
<1>2. n \in {k, BufLimit} /\ n <= k
  <2>1. {k, BufLimit} \in SUBSET Nat /\ {k, BufLimit} # {} /\ k \in {k, BufLimit}
    BY <1>1
  <2> DEFINE S == {k, BufLimit}
  <2> HIDE DEF S
  <2>2. Min(S) \in S /\ \A y \in S : Min(S) <= y
    BY <2>1, MinIs DEF S
  <2> QED
    BY <2>1, <2>2 DEF S
<1>3. n \in Nat
  BY <1>1, <1>2
<1>4. LineTaken(rest) = SubSeq(rest, 1, n)
  BY DEF LineTaken, k
<1> HIDE DEF n
<1>5. n \in Nat /\ n <= LineLength(rest) /\ LineTaken(rest) = SubSeq(rest, 1, n)
  BY <1>2, <1>3, <1>4 DEF k
<1> QED
  BY <1>5

\* What there was before getLine's first character, the line and, if the stream
\* stays good, the newline behind it are what was read after it.
LEMMA GetLineIs ==
  ASSUME NEW ob \in Files, NEW text \in Texts, ob.in.open, ob.in.pos <= Len(text),
         NEW got, got = GetLine(ob, text)
  PROVE  /\ got.line \in Texts /\ \A i \in 1..Len(got.line) : got.line[i] # Newline
         /\ got.object.in.pos \in Nat /\ got.object.in.pos <= Len(text)
         /\ \/ /\ Passed(text, got.object.in.pos) = Passed(text, ob.in.pos) \o got.line
               /\ ~Good(got.object.in)
            \/ Passed(text, got.object.in.pos) =
                 Append(Passed(text, ob.in.pos) \o got.line, Newline)
<1> DEFINE p == ob.in.pos
           rest == SubSeq(text, p + 1, Len(text))
           line == LineTaken(rest)
           k == LineLength(rest)
           n == Len(line)
           next == [ob EXCEPT !.in.pos = @ + n + (IF n < Len(rest) /\ ~ (n < k) THEN 1 ELSE 0),
                              !.in.eof = n = Len(rest),
                              !.in.fail = (n < k) \/ rest = <<>>]
           q == next.in.pos
<1>1. p \in Nat /\ p <= Len(text) /\ Len(text) \in Nat
  BY DEF Files, Streams, Texts
<1>2. rest \in Texts /\ Len(rest) = Len(text) - p /\ Passed(text, p) \in Texts
  <2>1. 0 \in Nat /\ p + 0 <= Len(text)
    BY <1>1
  <2> QED
    BY <1>1, <2>1, Parts
<1>3. got = [line |-> line, object |-> next]
  BY DEF GetLine, Rest
<1>g. got.line = line /\ got.object = next
  <2> HIDE DEF line, next
  <2> QED
    BY <1>3
<1>4. /\ q = p + n + (IF n < Len(rest) /\ ~ (n < k) THEN 1 ELSE 0)
      /\ next.in.eof = (n = Len(rest)) /\ next.in.fail = (n < k \/ rest = <<>>)
  BY DEF Files, Streams
<1>5. /\ k \in Nat /\ k <= Len(rest) /\ \A i \in 1..k : rest[i] # Newline
      /\ k < Len(rest) => rest[k + 1] = Newline
  BY <1>2, LineLengthIs
<1>6. PICK m \in Nat : m <= k /\ line = SubSeq(rest, 1, m)
  BY <1>2, LineTakenIs
<1>7. /\ line \in Texts /\ n = m /\ \A i \in 1..n : line[i] = rest[i]
      /\ Passed(text, p) \o line = Passed(text, p + n)
  <2>1. p + m <= Len(text)
    BY <1>1, <1>2, <1>5, <1>6
  <2> QED
    <3> HIDE DEF line, p
    <3>1. /\ SubSeq(rest, 1, m) \in Texts /\ Len(SubSeq(rest, 1, m)) = m
          /\ \A i \in 1..m : SubSeq(rest, 1, m)[i] = rest[i]
          /\ Passed(text, p) \o SubSeq(rest, 1, m) = Passed(text, p + m)
      <4>1. p \in Nat /\ m \in Nat /\ p + m <= Len(text)
        BY <1>1, <1>6, <2>1
      <4> QED
        BY <4>1, Parts, ZenonT(60)
    <3> QED
      BY <1>6, <3>1
<1> HIDE DEF rest, line, next, k, n, q, p
<1>8. n \in Nat /\ n <= k /\ n <= Len(rest) /\ Len(rest) \in Nat
  BY <1>1, <1>2, <1>5, <1>6, <1>7
<1>9. \A i \in 1..n : line[i] # Newline
  BY <1>5, <1>7, <1>8
<1>10. CASE n < Len(rest) /\ ~ (n < k)
  <2>1. q = p + n + 1 /\ n = k /\ q \in Nat /\ q <= Len(text) /\ p + n + 1 <= Len(text)
    BY <1>1, <1>2, <1>4, <1>5, <1>8, <1>10
  <2>2. rest[n + 1] = Newline
    BY <1>5, <1>10, <2>1
  <2>3. Passed(text, q) = Append(Passed(text, p) \o line, Newline)
    <3>1. text[p + n + 1] = Newline
      <4>1. \A i \in (p + 1)..Len(text) : text[i] \in Chars
        <5>1. \A i \in (p + 1)..Len(text) : i \in 1..Len(text)
          BY <1>1
        <5> QED
          BY <5>1, ElementOfSeq DEF Texts
      <4>2. \A i \in 1..(Len(text) - (p + 1) + 1) : rest[i] = text[(p + 1) + i - 1]
        <5>1. p + 1 \in Int /\ Len(text) \in Int
          BY <1>1
        <5> QED
          BY <4>1, <5>1, SubSeqProperties DEF rest
      <4>3. n + 1 \in 1..(Len(text) - (p + 1) + 1) /\ (p + 1) + (n + 1) - 1 = p + n + 1
        BY <1>1, <1>8, <2>1
      <4> QED
        BY <2>2, <4>2, <4>3
    <3>2. text \in Seq(Chars) /\ 1 \in 1..Len(text) /\ p + n + 1 \in 1..Len(text)
          /\ p + n + 1 \in 1..Len(text) /\ (p + n + 1) - 1 = p + n
      BY <1>1, <1>8, <2>1 DEF Texts
    <3>3. SubSeq(text, 1, p + n + 1) = SubSeq(text, 1, p + n) \o <<text[p + n + 1]>>
      BY <3>2, SubSeqRecursiveSecond
    <3>4. Passed(text, p + n) \in Seq(Chars) /\ Newline \in Chars
      BY <1>2, <1>7, ConcatProperties, TextAssumption DEF Texts
    <3>5. Append(Passed(text, p + n), Newline) = Passed(text, p + n) \o <<Newline>>
      BY <3>4, AppendIsConcat
    <3> QED
      BY <1>7, <2>1, <3>1, <3>3, <3>5 DEF Passed
  <2>4. /\ got.object.in.pos = q /\ got.object.in = next.in
        /\ ob.in.pos = p
    BY <1>g DEF q, p
  <2> QED
    BY <1>g, <1>7, <1>9, <2>1, <2>3, <2>4 DEF n
<1>11. CASE ~ (n < Len(rest) /\ ~ (n < k))
  <2>1. q = p + n /\ q \in Nat /\ q <= Len(text)
    BY <1>1, <1>2, <1>4, <1>8, <1>11
  <2>2. next.in.eof \/ next.in.fail
    <3>1. n = Len(rest) \/ n < k
      BY <1>8, <1>11
    <3> QED
      BY <1>4, <3>1, Zenon
  <2>3. ~Good(next.in)
    BY <2>2 DEF Good
  <2>4. /\ got.object.in.pos = q /\ got.object.in = next.in
        /\ ob.in.pos = p
    BY <1>g DEF q, p
  <2> QED
    BY <1>g, <1>7, <1>9, <2>1, <2>3, <2>4 DEF n
<1> QED
  BY <1>10, <1>11

\* A block and what was read before it are what was read after it; the last block is
\* the one behind which the file ends.
LEMMA GetBlockIs ==
  ASSUME NEW ob \in Files, NEW text \in Texts, ob.in.open, ob.in.pos <= Len(text),
         NEW got, got = GetBlock(ob, text)
  PROVE  /\ got.block \in Texts
         /\ got.object.in.pos \in Nat /\ got.object.in.pos <= Len(text)
         /\ Passed(text, got.object.in.pos) = Passed(text, ob.in.pos) \o got.block
         /\ got.object.in.eof \/ got.object.in.fail => got.object.in.pos = Len(text)
<1> DEFINE p == ob.in.pos
           rest == SubSeq(text, p + 1, Len(text))
           n == Min({Len(rest), BlockSize})
           next == [ob EXCEPT !.in.pos = @ + n, !.in.eof = n < BlockSize, !.in.fail = n < BlockSize]
<1>1. p \in Nat /\ p <= Len(text) /\ Len(text) \in Nat /\ BlockSize \in Nat
  BY LimitsAssumption DEF Files, Streams, Texts
<1>2. Len(rest) = Len(text) - p
  <2>1. 0 \in Nat /\ p + 0 <= Len(text)
    BY <1>1
  <2> QED
    BY <1>1, <2>1, Parts
<1>3. got.block = SubSeq(rest, 1, n) /\ got.object = next
  BY DEF GetBlock, Rest
<1>4. next.in.pos = p + n /\ next.in.eof = (n < BlockSize) /\ next.in.fail = (n < BlockSize)
  BY DEF Files, Streams
<1>5. n \in {Len(rest), BlockSize} /\ n <= Len(rest)
  <2> DEFINE S == {Len(rest), BlockSize}
  <2>1. S \in SUBSET Nat /\ S # {} /\ Len(rest) \in S
    BY <1>1, <1>2
  <2> HIDE DEF S
  <2>2. Min(S) \in S /\ \A y \in S : Min(S) <= y
    BY <2>1, MinIs
  <2> QED
    BY <2>1, <2>2 DEF S
<1> HIDE DEF n, next
<1>6. n \in Nat /\ p + n <= Len(text) /\ (n < BlockSize => p + n = Len(text))
  <2> HIDE DEF rest, p
  <2> QED
    BY <1>1, <1>2, <1>5
<1>7. /\ SubSeq(rest, 1, n) \in Texts
      /\ Passed(text, p) \o SubSeq(rest, 1, n) = Passed(text, p + n)
  <2> HIDE DEF p
  <2>1. p \in Nat /\ n \in Nat /\ p + n <= Len(text)
    BY <1>1, <1>6
  <2> QED
    BY <2>1, Parts, ZenonT(60)
<1>8. next.in.eof \/ next.in.fail => n < BlockSize
  BY <1>4
<1> HIDE DEF p, rest
<1>9. ob.in.pos = p /\ got.object.in.pos = p + n /\ p + n \in Nat
  BY <1>1, <1>3, <1>4, <1>6 DEF p
<1> QED
  BY <1>3, <1>6, <1>7, <1>8, <1>9

\* A File before it is opened.
LEMMA NewFileIs ==
  ASSUME NEW f \in Names \cup {Copy}
  PROVE  /\ NoStream \in Streams /\ NoStream.held = <<>> /\ NoStream.pos = 0
         /\ NoStream.made = FALSE
         /\ NewFile(f) \in Files /\ NewFile(f).name = f /\ NewFile(f).good
         /\ NewFile(f).out = NoStream /\ NewFile(f).in = NoStream
         /\ NewFile(f).out.held = <<>>
<1>1. <<>> \in Texts
  BY DEF Texts
<1>2. /\ NoStream \in Streams /\ NoStream.held = <<>> /\ NoStream.pos = 0
      /\ NoStream.made = FALSE
  BY <1>1 DEF NoStream, Streams
<1>3. /\ NewFile(f) \in Files /\ NewFile(f).name = f /\ NewFile(f).good
      /\ NewFile(f).out = NoStream /\ NewFile(f).in = NoStream
  BY <1>2 DEF NewFile, Files
<1> QED
  BY <1>2, <1>3

\* A File that was opened.
LEMMA OpenedIs ==
  ASSUME NEW f \in Names \cup {Copy}, NEW d \in {"in", "out"}, NEW t \in {"text", "binary"},
         NEW ok \in BOOLEAN, NEW ob, ob = Opened(NewFile(f), d, t, ok)
  PROVE  /\ ob \in Files /\ ob.name = f /\ ob.out.held = <<>> /\ ob.in.pos = 0
         /\ ok => /\ ob.good
                  /\ d = "in" => ob.in.open /\ ~ob.in.eof /\ ~ob.in.fail
                  /\ d = "out" => ob.out.open
         /\ ~ok => ~ob.good /\ (d = "in" => ob.in.fail)
         /\ d = "in" => ob.in.made
<1>1. <<>> \in Texts
  BY DEF Texts
<1>2. /\ Stream(ok) \in Streams /\ Stream(ok).held = <<>> /\ Stream(ok).pos = 0
      /\ Stream(ok).made /\ Stream(ok).open = ok /\ Stream(ok).fail = ~ok /\ Stream(ok).eof = FALSE
  BY <1>1 DEF NoStream, Stream, Streams
<1>3. /\ ob \in Files /\ ob.name = f /\ ob.good = ok
      /\ d = "in" => ob.in = Stream(ok) /\ ob.out = NoStream
      /\ d = "out" => ob.out = Stream(ok) /\ ob.in = NoStream
  <2> DEFINE nf == NewFile(f)
             s == Stream(ok)
             in == IF d = "in" THEN s ELSE nf.in
             out == IF d = "out" THEN s ELSE nf.out
             good == nf.good /\ ok
  <2>1. /\ nf \in Files /\ nf.name = f /\ nf.good /\ nf.in = NoStream /\ nf.out = NoStream
        /\ NoStream \in Streams /\ s \in Streams
    BY <1>2, NewFileIs
  <2>2. ob = [nf EXCEPT !.dirn = d, !.typ = t, !.good = good, !.in = in, !.out = out]
    BY DEF Opened
  <2>3. good = ok /\ good \in BOOLEAN
    BY <2>1
  <2>4. /\ in \in Streams /\ out \in Streams
        /\ d = "in" => in = s /\ out = NoStream
        /\ d = "out" => out = s /\ in = NoStream
    <3> HIDE DEF nf, s
    <3> QED
      BY <2>1
  <2> HIDE DEF nf, s, in, out, good
  <2>5. ob \in Files /\ ob.name = f /\ ob.good = good /\ ob.in = in /\ ob.out = out
    BY <2>1, <2>2, <2>3, <2>4 DEF Files
  <2> QED
    BY <2>3, <2>4, <2>5 DEF s
<1> QED
  BY <1>2, <1>3, NewFileIs

\* isGood is remembered; nothing else changes.
LEMMA TestedIs ==
  ASSUME NEW ob \in Files
  PROVE  /\ Tested(ob) \in Files /\ Tested(ob).name = ob.name /\ Tested(ob).in = ob.in
         /\ Tested(ob).out = ob.out /\ Tested(ob).good = IsGood(ob) /\ IsGood(ob) \in BOOLEAN
<1>1. IsGood(ob) \in BOOLEAN
  BY DEF IsGood, Good, Files, Streams
<1> QED
  BY <1>1 DEF Tested, Files

\* What is put into an open stream is behind what it holds.
LEMMA PutIs ==
  ASSUME NEW ob \in Files, NEW t \in Texts, NEW put, put = Put(ob, t)
  PROVE  /\ put \in Files /\ put.name = ob.name /\ put.out.open = ob.out.open
         /\ ob.out.open => put.out.held = ob.out.held \o t
<1>1. ob.out \in Streams /\ ob.out.held \in Texts /\ ob.out.held \o t \in Texts
  BY ConcatProperties DEF Files, Streams, Texts
<1>2. CASE ob.out.open
  <2>1. put = [ob EXCEPT !.out = [ob.out EXCEPT !.held = @ \o t]]
    BY <1>2 DEF Put, Files
  <2> DEFINE o == [ob.out EXCEPT !.held = @ \o t]
  <2>2. o \in Streams /\ o.held = ob.out.held \o t /\ o.open = ob.out.open
    BY <1>1 DEF Streams
  <2>3. put.out = o /\ put \in Files /\ put.name = ob.name
    <3> HIDE DEF o
    <3> QED
      BY <2>1, <2>2 DEF Files, o
  <2> QED
    BY <2>2, <2>3
<1>3. CASE ~ob.out.open
  <2>1. put = [ob EXCEPT !.out = [ob.out EXCEPT !.fail = (t # <<>>)]]
    BY <1>3 DEF Put, Files
  <2> DEFINE o == [ob.out EXCEPT !.fail = (t # <<>>)]
  <2>2. o \in Streams /\ o.open = ob.out.open
    BY <1>1 DEF Streams
  <2>3. put.out = o /\ put \in Files /\ put.name = ob.name
    <3> HIDE DEF o
    <3> QED
      BY <2>1, <2>2 DEF Files, o
  <2> QED
    BY <1>3, <2>2, <2>3
<1> QED
  BY <1>2, <1>3

\* flush writes what the stream holds, behind what the file holds.
LEMMA FlushedIs ==
  ASSUME NEW ob \in Files, NEW t \in Texts
  PROVE  /\ FlushedText(ob, t) \in Texts /\ FlushedText(ob, t) = t \o ob.out.held
         /\ ob.out.held \in Texts
         /\ Flushed(ob) \in Files /\ Flushed(ob).name = ob.name /\ Flushed(ob).in = ob.in
         /\ Flushed(ob).good = ob.good
         /\ Flushed(ob).out.held = <<>> /\ Flushed(ob).out.open = ob.out.open
<1>1. <<>> \in Texts /\ ob.out.held \in Texts /\ t \o ob.out.held \in Texts
  BY ConcatProperties DEF Files, Streams, Texts
<1>2. /\ Flushed(ob) \in Files /\ Flushed(ob).name = ob.name /\ Flushed(ob).in = ob.in
      /\ Flushed(ob).good = ob.good
      /\ Flushed(ob).out.held = <<>> /\ Flushed(ob).out.open = ob.out.open
  BY <1>1 DEF Flushed, Files, Streams
<1> QED
  BY <1>1, <1>2 DEF FlushedText

\* close flushes, does not move the place of reading and does not mend a stream.
LEMMA ClosedIs ==
  ASSUME NEW ob \in Files
  PROVE  /\ Closed(ob) \in Files /\ Closed(ob).name = ob.name /\ Closed(ob).good = ob.good
         /\ Closed(ob).in.pos = ob.in.pos /\ Closed(ob).out.held = <<>>
         /\ Good(Closed(ob).in) => Good(ob.in)
<1> DEFINE Shut(s) == [s EXCEPT !.open = FALSE, !.fail = @ \/ (s.made /\ ~s.open)]
           fl == Flushed(ob)
<1>1. Closed(ob) = [fl EXCEPT !.in = Shut(@), !.out = Shut(@)]
  BY DEF Closed
<1>2. /\ fl \in Files /\ fl.name = ob.name /\ fl.in = ob.in /\ fl.good = ob.good
      /\ fl.out.held = <<>>
  <2>1. <<>> \in Texts
    BY DEF Texts
  <2> QED
    BY <2>1, FlushedIs
<1> HIDE DEF fl
<1>3. ASSUME NEW s \in Streams
      PROVE  /\ Shut(s) \in Streams /\ Shut(s).pos = s.pos /\ Shut(s).held = s.held
             /\ Good(Shut(s)) => Good(s)
  BY DEF Streams, Good
<1>4. fl.in \in Streams /\ fl.out \in Streams
  BY <1>2 DEF Files
<1> HIDE DEF Shut
<1>5. /\ Closed(ob) \in Files /\ Closed(ob).in = Shut(fl.in) /\ Closed(ob).out = Shut(fl.out)
      /\ Closed(ob).name = fl.name /\ Closed(ob).good = fl.good
  BY <1>1, <1>2, <1>3, <1>4 DEF Files
<1> QED
  BY <1>2, <1>3, <1>4, <1>5

\* Reading and clear() leave the stream open.
LEMMA ReadingIs ==
  ASSUME NEW ob \in Files, NEW text \in Texts, ob.in.open, ob.in.pos <= Len(text)
  PROVE  /\ \A got : got = GetLine(ob, text) \/ got = GetBlock(ob, text) =>
              /\ got.object \in Files /\ got.object.name = ob.name /\ got.object.good = ob.good
              /\ got.object.in.open /\ got.object.in.made = ob.in.made
         /\ Cleared(ob) \in Files /\ Cleared(ob).name = ob.name
         /\ Cleared(ob).in.pos = ob.in.pos
         /\ Cleared(ob).in.open /\ Cleared(ob).in.made = ob.in.made
<1>1. ob.in \in Streams /\ ob.out \in Streams
  BY DEF Files
<1> DEFINE Read(p, e, f) == [ob EXCEPT !.in.pos = p, !.in.eof = e, !.in.fail = f]
<1>2. ASSUME NEW p \in Nat, NEW e \in BOOLEAN, NEW f \in BOOLEAN
      PROVE  /\ Read(p, e, f) \in Files /\ Read(p, e, f).name = ob.name
             /\ Read(p, e, f).good = ob.good
             /\ Read(p, e, f).in.open /\ Read(p, e, f).in.made = ob.in.made
  BY <1>1, <1>2 DEF Files, Streams
<1>p. ASSUME NEW p, NEW e, NEW f PROVE Read(p, e, f).in.pos = p
  BY <1>1 DEF Files, Streams
<1> HIDE DEF Read
<1>3. ASSUME NEW got, got = GetLine(ob, text)
      PROVE  /\ got.object \in Files /\ got.object.name = ob.name /\ got.object.good = ob.good
             /\ got.object.in.open /\ got.object.in.made = ob.in.made
  <2> DEFINE rest == Rest(ob, text)
             n == Len(LineTaken(rest))
             cut == n < LineLength(rest)
             p == ob.in.pos + n + (IF n < Len(rest) /\ ~cut THEN 1 ELSE 0)
  <2>1. got.object.in.pos \in Nat
    BY <1>3, GetLineIs
  <2>2. got.object = [ob EXCEPT !.in.pos = p, !.in.eof = n = Len(rest),
                                !.in.fail = cut \/ rest = <<>>]
    BY <1>3 DEF GetLine
  <2> DEFINE e == n = Len(rest)
             f == cut \/ rest = <<>>
  <2>3. e \in BOOLEAN /\ f \in BOOLEAN
    OBVIOUS
  <2> HIDE DEF p, e, f
  <2>4. got.object = Read(p, e, f)
    BY <2>2 DEF e, f, Read
  <2>5. got.object.in.pos = p
    BY <1>p, <2>4
  <2> QED
    BY <1>2, <2>1, <2>3, <2>4, <2>5
<1>4. ASSUME NEW got, got = GetBlock(ob, text)
      PROVE  /\ got.object \in Files /\ got.object.name = ob.name /\ got.object.good = ob.good
             /\ got.object.in.open /\ got.object.in.made = ob.in.made
  <2> DEFINE n == Min({Len(Rest(ob, text)), BlockSize})
             p == ob.in.pos + n
  <2>1. got.object.in.pos \in Nat
    BY <1>4, GetBlockIs
  <2>2. got.object = [ob EXCEPT !.in.pos = p, !.in.eof = n < BlockSize, !.in.fail = n < BlockSize]
    BY <1>4 DEF GetBlock
  <2> DEFINE e == n < BlockSize
  <2>3. e \in BOOLEAN
    OBVIOUS
  <2> HIDE DEF p, e
  <2>4. got.object = Read(p, e, e)
    BY <2>2 DEF e, Read
  <2>5. got.object.in.pos = p
    BY <1>p, <2>4
  <2> QED
    BY <1>2, <2>1, <2>3, <2>4, <2>5
<1>5. /\ Cleared(ob) \in Files /\ Cleared(ob).name = ob.name
      /\ Cleared(ob).in.pos = ob.in.pos
      /\ Cleared(ob).in.open /\ Cleared(ob).in.made = ob.in.made
  BY <1>1 DEF Cleared, Files, Streams
<1> QED
  BY <1>3, <1>4, <1>5

------------------------------------------------------------------------------
(* The steps keep the invariant.                                             *)

\* A file holds a text.
LEMMA DiskIs ==
  ASSUME FileTypes
  PROVE  /\ \A f \in Names \cup {Copy} : disk[f] \in Texts
         /\ Log \in Names \cup {Copy} /\ Log # Copy /\ Copy \in Names \cup {Copy} /\ me.name # Copy
         /\ me.name \in Names \cup {Copy} /\ file.name \in Names \cup {Copy}
BY CopyAssumption DEF FileTypes, Files

\* Nothing was read, and the copy is empty.
LEMMA FInit == Init => FInv
<1> SUFFICES ASSUME Init PROVE FInv
  OBVIOUS
<1>1. /\ disk = Content /\ pc = "search" /\ lines = <<>> /\ cleared = FALSE
      /\ log = Opened(NewFile(Log), "out", "text", TRUE)
      /\ me = NewFile(Log) /\ you = NewFile(Copy) /\ file = NewFile(Log)
  BY DEF Init
<1>2. Log \in Names \cup {Copy} /\ Copy \in Names \cup {Copy}
  BY CopyAssumption
<1>3. log \in Files /\ me \in Files /\ me.name = Log /\ file \in Files
  <2>1. log \in Files
    <3> DEFINE ok == TRUE
    <3>1. /\ "out" \in {"in", "out"} /\ "text" \in {"text", "binary"} /\ ok \in BOOLEAN
          /\ log = Opened(NewFile(Log), "out", "text", ok)
      BY <1>1
    <3> HIDE DEF ok
    <3> QED
      BY <1>2, <3>1, OpenedIs
  <2> QED
    BY <1>1, <1>2, <2>1, NewFileIs
<1>4. you \in Files /\ you.out.held = <<>>
  BY <1>1, <1>2, NewFileIs
<1>5. disk \in [Names \cup {Copy} -> Texts] /\ lines \in Seq(Texts) /\ disk[Copy] = <<>>
  BY <1>1, TextAssumption, CopyAssumption DEF Texts
<1> QED
  BY <1>1, <1>3, <1>4, <1>5, CopyAssumption DEF FInv, FileTypes, Copying, Copied, Reading

\* The search and the uploads touch no file that is there.
LEMMA FElse ==
  ASSUME FInv, before' = before, UNCHANGED <<disk, log, progVars>>
  PROVE  FInv'
BY DEF FInv, FileTypes, Copying, Copied, CopyIsWhole, Reading, progVars

\* A file that grows.
LEMMA TextGrows ==
  ASSUME NEW t \in Texts, NEW v \in Texts
  PROVE  /\ t \o v \in Texts /\ Len(t) <= Len(t \o v)
         /\ \A p \in Nat : p <= Len(t) => p <= Len(t \o v) /\ Passed(t \o v, p) = Passed(t, p)
         /\ \A s \in Texts : IsPrefix(s, t) => IsPrefix(s, t \o v)
<1>1. t \o v \in Texts /\ Len(t) \in Nat /\ Len(t \o v) \in Nat /\ Len(t) <= Len(t \o v)
  <2>1. 0 \in Nat /\ 0 <= Len(t)
    BY DEF Texts
  <2> QED
    BY <2>1, PassedKept DEF Texts
<1>2. ASSUME NEW p \in Nat, p <= Len(t)
      PROVE  p <= Len(t \o v) /\ Passed(t \o v, p) = Passed(t, p)
  <2>1. Passed(t \o v, p) = Passed(t, p)
    BY <1>2, PassedKept
  <2> QED
    BY <1>1, <1>2, <2>1
<1>3. ASSUME NEW s \in Texts, IsPrefix(s, t) PROVE IsPrefix(s, t \o v)
  <2>1. Len(s) \in Nat /\ Len(s) <= Len(t) /\ \A i \in 1..Len(s) : s[i] = t[i]
    BY <1>3, PrefixIs DEF Texts
  <2>2. Len(t) <= Len(t \o v) /\ \A i \in 1..Len(t) : t[i] = (t \o v)[i]
    BY <1>1, PrefixIs
  <2>3. Len(s) <= Len(t \o v) /\ \A i \in 1..Len(s) : i \in 1..Len(t)
    BY <1>1, <2>1
  <2>4. \A i \in 1..Len(s) : s[i] = (t \o v)[i]
    BY <2>1, <2>2, <2>3
  <2> QED
    BY <1>1, <2>3, <2>4, PrefixIs
<1> QED
  BY <1>1, <1>2, <1>3

\* What another program adds to Log changes nothing that was read of it.
LEMMA FAddLine ==
  ASSUME FInv, before' = before, NEW s \in Lines, NEW r \in BOOLEAN, AddLine(s, r)
  PROVE  FInv'
<1> DEFINE line == IF r THEN Append(s, Newline) ELSE s
           put == PutLine(log, s, r)
           v == put.out.held
<1>1. /\ disk' = [disk EXCEPT ![Log] = FlushedText(put, @)] /\ log' = Flushed(put)
      /\ UNCHANGED progVars
  BY DEF AddLine
<1>2. FileTypes /\ log \in Files
  BY DEF FInv, FileTypes
<1>3. line \in Texts
  BY TextAssumption, AppendProperties DEF Texts
<1>4. put \in Files
  <2> HIDE DEF line
  <2>1. put = Put(log, line)
    BY DEF PutLine, line
  <2> QED
    BY <1>2, <1>3, <2>1, PutIs
<1> HIDE DEF put
<1>5. v \in Texts /\ log' \in Files /\ \A t \in Texts : FlushedText(put, t) = t \o v
  <2>1. <<>> \in Texts
    BY DEF Texts
  <2> QED
    BY <1>1, <1>4, <2>1, FlushedIs
<1> HIDE DEF v
<1>6. disk[Log] \in Texts /\ Log # Copy /\ Log \in Names \cup {Copy}
  BY <1>2, DiskIs
<1>7. disk' = [disk EXCEPT ![Log] = disk[Log] \o v]
  BY <1>1, <1>5, <1>6
<1>8. /\ disk[Log] \o v \in Texts /\ Len(disk[Log]) <= Len(disk[Log] \o v)
      /\ \A p \in Nat : p <= Len(disk[Log]) =>
           p <= Len(disk[Log] \o v) /\ Passed(disk[Log] \o v, p) = Passed(disk[Log], p)
      /\ \A x \in Texts : IsPrefix(x, disk[Log]) => IsPrefix(x, disk[Log] \o v)
  BY <1>5, <1>6, TextGrows
<1>9. /\ disk' \in [Names \cup {Copy} -> Texts] /\ disk'[Copy] = disk[Copy]
      /\ \A f \in Names \cup {Copy} : f # Log => disk'[f] = disk[f]
      /\ disk'[Log] = disk[Log] \o v
  BY <1>2, <1>6, <1>7, <1>8 DEF FileTypes
<1>10. ASSUME NEW f \in Names \cup {Copy}
       PROVE  /\ \A p \in Nat : p <= Len(disk[f]) =>
                   p <= Len(disk'[f]) /\ Passed(disk'[f], p) = Passed(disk[f], p)
              /\ \A x \in Texts : IsPrefix(x, disk[f]) => IsPrefix(x, disk'[f])
  <2>1. CASE f = Log
    BY <1>8, <1>9, <2>1
  <2>2. CASE f # Log
    BY <1>9, <2>2
  <2> QED
    BY <2>1, <2>2
<1>11. /\ pc' = pc /\ me' = me /\ you' = you /\ file' = file /\ lines' = lines /\ cleared' = cleared
  BY <1>1 DEF progVars
<1>12. FileTypes'
  BY <1>2, <1>5, <1>9, <1>11 DEF FileTypes
<1>13. /\ me.name \in Names \cup {Copy} /\ file.name \in Names \cup {Copy} /\ me.name # Copy
       /\ me.in.pos \in Nat /\ file.in.pos \in Nat /\ disk[Copy] \in Texts
  BY <1>2, DiskIs DEF FileTypes, Files, Streams
<1>14. Copying'
  <2>1. Copying
    BY DEF FInv
  <2>2. CASE pc = "search"
    BY <1>9, <1>11, <2>1, <2>2 DEF Copying
  <2>3. CASE pc = "copy"
    <3>1. /\ me.good /\ me.in.made /\ me.in.open /\ you.out.open
          /\ me.in.pos <= Len(disk[me.name])
          /\ disk[Copy] \o you.out.held = Passed(disk[me.name], me.in.pos)
          /\ (me.in.eof \/ me.in.fail) /\ me.name # Log => me.in.pos = Len(disk[me.name])
      BY <2>1, <2>3 DEF Copying
    <3>2. /\ me.in.pos <= Len(disk'[me.name])
          /\ disk'[Copy] \o you.out.held = Passed(disk'[me.name], me.in.pos)
      BY <1>9, <1>10, <1>13, <3>1
    <3>3. me.name # Log => disk'[me.name] = disk[me.name]
      BY <1>9, <1>13
    <3> QED
      BY <1>11, <2>3, <3>1, <3>2, <3>3 DEF Copying
  <2>4. CASE pc # "search" /\ pc # "copy"
    BY <1>11, <2>4 DEF Copying
  <2> QED
    BY <2>2, <2>3, <2>4
<1>15. Copied'
  <2>1. Copied
    BY DEF FInv
  <2> QED
    BY <1>9, <1>10, <1>11, <1>13, <2>1 DEF Copied, CopyIsWhole
<1>16. Reading'
  <2>1. Reading
    BY DEF FInv
  <2>2. CASE pc \in {"read", "end"}
    <3>1. file.in.pos <= Len(disk[file.name])
      BY <2>1, <2>2 DEF Reading
    <3>2. /\ file.in.pos <= Len(disk'[file.name])
          /\ Passed(disk'[file.name], file.in.pos) = Passed(disk[file.name], file.in.pos)
      BY <1>10, <1>13, <3>1
    <3> QED
      BY <1>11, <2>1, <2>2, <3>2 DEF Reading
  <2>3. CASE pc \notin {"read", "end"}
    BY <1>11, <2>1, <2>3 DEF Reading
  <2> QED
    BY <2>2, <2>3
<1> QED
  BY <1>12, <1>14, <1>15, <1>16 DEF FInv

\* The program opens the file and the copy; or the file is not there, and then it was
\* not there when the search began; or the copy cannot be opened and stays empty.
LEMMA FOpenBoth ==
  ASSUME FInv, Types, before' = before, NEW f \in Names, OpenBoth(f)
  PROVE  FInv'
<1> DEFINE ok == f \in tree
           ob == Opened(NewFile(f), "in", "binary", ok)
           Co(can) == Opened(NewFile(Copy), "out", "binary", can)
           Copies(can) == /\ you' = Tested(Co(can))
                          /\ IF you'.good
                             THEN pc' = "copy" /\ disk' = [disk EXCEPT ![Copy] = <<>>]
                             ELSE pc' = "pick" /\ disk' = disk
<1>1. /\ pc = "search" /\ me' = Tested(ob)
      /\ log' = log /\ file' = file /\ lines' = lines /\ cleared' = cleared
      /\ IF ok THEN \E can \in BOOLEAN : Copies(can)
         ELSE pc' = "pick" /\ you' = you /\ disk' = disk
  BY DEF OpenBoth
<1>2. /\ FileTypes /\ disk[Copy] = <<>> /\ you.out.held = <<>> /\ lines = <<>> /\ ~cleared
  BY <1>1 DEF FInv, Copying, Reading
<1>3. /\ ob \in Files /\ ob.name = f /\ ob.in.pos = 0
      /\ ob.in.made
      /\ ok => ob.good /\ ob.in.open /\ ~ob.in.eof /\ ~ob.in.fail
  <2>1. /\ f \in Names \cup {Copy} /\ "in" \in {"in", "out"} /\ "binary" \in {"text", "binary"}
        /\ ok \in BOOLEAN /\ ob = Opened(NewFile(f), "in", "binary", ok)
    OBVIOUS
  <2> HIDE DEF ok, ob
  <2> QED
    BY <2>1, OpenedIs
<1>4. ASSUME NEW can \in BOOLEAN
      PROVE  /\ Co(can) \in Files /\ Co(can).out.held = <<>>
             /\ Co(can).good => Co(can).out.open
  <2> DEFINE co == Co(can)
  <2>1. /\ Copy \in Names \cup {Copy} /\ "out" \in {"in", "out"} /\ "binary" \in {"text", "binary"}
        /\ co = Opened(NewFile(Copy), "out", "binary", can)
    OBVIOUS
  <2> HIDE DEF co
  <2>2. /\ co \in Files /\ co.out.held = <<>>
        /\ can => co.out.open
        /\ ~can => ~co.good
    BY <2>1, OpenedIs
  <2> QED
    BY <2>2 DEF co
<1> HIDE DEF ob, Co
<1>5. /\ me' \in Files /\ me'.name = f /\ me'.in = ob.in /\ me'.good = IsGood(ob)
  BY <1>1, <1>3, TestedIs
<1>t. ASSUME NEW can \in BOOLEAN
      PROVE  /\ Tested(Co(can)) \in Files /\ Tested(Co(can)).out.held = <<>>
             /\ Tested(Co(can)).good => Tested(Co(can)).out.open
  BY <1>4, TestedIs DEF IsGood
<1>6. f \in Names \cup {Copy} /\ disk[f] \in Texts /\ f # Copy /\ <<>> \in Texts
  BY <1>2, DiskIs, CopyAssumption DEF Texts
<1>7. Passed(disk[f], 0) = <<>> /\ IsPrefix(<<>>, disk[f]) /\ <<>> \o <<>> = <<>> /\ 0 <= Len(disk[f])
  <2>1. 0 \in Nat /\ 0 + 0 <= Len(disk[f]) /\ Len(<<>>) = 0 /\ Len(disk[f]) \in Nat
    BY <1>6 DEF Texts
  <2>2. Passed(disk[f], 0) = <<>>
    BY <1>6, <2>1, Parts
  <2>3. IsPrefix(<<>>, disk[f])
    BY <1>6, <2>1, PrefixIs
  <2>4. <<>> \o <<>> = <<>>
    BY <1>6, ConcatEmptySeq DEF Texts
  <2> QED
    BY <2>1, <2>2, <2>3, <2>4
<1>8. CASE ok
  <2>1. PICK can \in BOOLEAN : Copies(can)
    BY <1>1, <1>8
  <2>2. /\ disk' \in [Names \cup {Copy} -> Texts] /\ disk'[Copy] = <<>> /\ disk'[f] = disk[f]
    BY <1>2, <1>6, <2>1 DEF FileTypes
  <2>3. you' \in Files /\ (you'.good => you'.out.open) /\ you'.out.held = <<>>
    BY <1>t, <2>1
  <2>p. pc' = IF you'.good THEN "copy" ELSE "pick"
    BY <2>1
  <2> HIDE DEF Copies
  <2>4. FileTypes'
    BY <1>1, <1>2, <1>5, <2>p, <2>2, <2>3 DEF FileTypes
  <2>5. me'.good /\ me'.in.made /\ me'.in.open /\ ~me'.in.eof /\ ~me'.in.fail /\ me'.in.pos = 0
    <3>1. IsGood(ob)
      BY <1>3, <1>8 DEF IsGood, Good
    <3> QED
      BY <1>3, <1>5, <1>8, <3>1
  <2>6. Copying'
    BY <1>5, <1>7, <2>p, <2>2, <2>3, <2>5 DEF Copying
  <2>7. Copied' /\ Reading'
    BY <1>1, <1>2, <1>5, <1>7, <2>p, <2>2, <2>3 DEF Copied, CopyIsWhole, Reading
  <2> QED
    BY <2>4, <2>6, <2>7 DEF FInv
<1>9. CASE ~ok
  <2>1. pc' = "pick" /\ you' = you /\ disk' = disk
    BY <1>1, <1>9
  <2>2. FileTypes' /\ Copying' /\ Reading'
    BY <1>1, <1>2, <1>5, <2>1 DEF FileTypes, Copying, Reading
  <2>3. f \notin before
    BY <1>9 DEF Types
  <2>4. Copied'
    BY <1>2, <1>5, <1>7, <2>1, <2>3 DEF Copied, CopyIsWhole
  <2> QED
    BY <2>2, <2>4 DEF FInv
<1> QED
  BY <1>8, <1>9

\* A block goes from the file into the stream of the copy.
LEMMA FCopyBlock == ASSUME FInv, before' = before, CopyBlock PROVE FInv'
<1> DEFINE from == Tested(me)
           text == disk[me.name]
           got == GetBlock(from, text)
<1>1. /\ pc = "copy" /\ IsGood(me) /\ me' = got.object /\ you' = Put(you, got.block)
      /\ disk' = disk /\ log' = log /\ pc' = pc /\ file' = file /\ lines' = lines
      /\ cleared' = cleared
  BY DEF CopyBlock
<1>2. FileTypes /\ me \in Files /\ you \in Files /\ text \in Texts /\ disk[Copy] \in Texts
  BY DiskIs DEF FInv, FileTypes
<1>3. /\ me.in.made /\ me.in.open /\ you.out.open /\ me.in.pos <= Len(text)
      /\ disk[Copy] \o you.out.held = Passed(text, me.in.pos)
  BY <1>1 DEF FInv, Copying
<1>4. from \in Files /\ from.in = me.in /\ from.name = me.name /\ from.good
  BY <1>1, <1>2, TestedIs
<1> HIDE DEF from, text, got
<1>5. /\ got.block \in Texts /\ got.object.in.pos \in Nat /\ got.object.in.pos <= Len(text)
      /\ Passed(text, got.object.in.pos) = Passed(text, me.in.pos) \o got.block
      /\ got.object.in.eof \/ got.object.in.fail => got.object.in.pos = Len(text)
  <2>1. /\ from.in.open /\ from.in.pos <= Len(text) /\ got = GetBlock(from, text)
    BY <1>3, <1>4 DEF got
  <2>2. /\ got.block \in Texts /\ got.object.in.pos \in Nat /\ got.object.in.pos <= Len(text)
        /\ Passed(text, got.object.in.pos) = Passed(text, from.in.pos) \o got.block
        /\ got.object.in.eof \/ got.object.in.fail => got.object.in.pos = Len(text)
    <3>1. from \in Files /\ text \in Texts
      BY <1>2, <1>4
    <3> HIDE DEF got
    <3> QED
      BY <2>1, <3>1, GetBlockIs, Zenon
  <2> QED
    BY <1>4, <2>2
<1>6. /\ me' \in Files /\ me'.name = me.name /\ me'.good /\ me'.in.open /\ me'.in.made
  <2>1. /\ from.in.open /\ from.in.pos <= Len(text) /\ got = GetBlock(from, text)
    BY <1>3, <1>4 DEF got
  <2> QED
    BY <1>1, <1>2, <1>3, <1>4, <2>1, ReadingIs
<1>7. you' \in Files /\ you'.out.open /\ you'.out.held = you.out.held \o got.block
  BY <1>1, <1>2, <1>3, <1>5, PutIs
<1>8. disk[Copy] \o (you.out.held \o got.block) = Passed(text, got.object.in.pos)
  <2>1. you.out.held \in Texts
    BY <1>2 DEF Files, Streams
  <2>2. disk[Copy] \o (you.out.held \o got.block) = (disk[Copy] \o you.out.held) \o got.block
    <3>1. \A s, t, u \in Seq(Chars) : (s \o t) \o u = s \o (t \o u)
      BY ConcatAssociative
    <3>2. disk[Copy] \in Seq(Chars) /\ you.out.held \in Seq(Chars) /\ got.block \in Seq(Chars)
      BY <1>2, <1>5, <2>1 DEF Texts
    <3> QED
      BY <3>1, <3>2, Zenon
  <2> QED
    BY <1>3, <1>5, <2>2
<1>9. FileTypes'
  BY <1>1, <1>2, <1>6, <1>7 DEF FileTypes
<1>10. Copying'
  <2>1. text = disk'[me'.name]
    BY <1>1, <1>6 DEF text
  <2> QED
    BY <1>1, <1>5, <1>6, <1>7, <1>8, <2>1 DEF Copying
<1>11. Copied' /\ Reading'
  BY <1>1 DEF FInv, Copied, Reading
<1> QED
  BY <1>9, <1>10, <1>11 DEF FInv

\* What the stream of the copy holds is written; the copy and the stream together
\* are the same.
LEMMA FSpill == ASSUME FInv, before' = before, Spill PROVE FInv'
<1>1. /\ you.out.held # <<>> /\ disk' = [disk EXCEPT ![Copy] = FlushedText(you, @)]
      /\ you' = Flushed(you)
      /\ log' = log /\ pc' = pc /\ me' = me /\ file' = file /\ lines' = lines
      /\ cleared' = cleared
  BY DEF Spill
<1>2. FileTypes /\ you \in Files /\ disk[Copy] \in Texts /\ me.name # Copy /\ me.name \in Names
  BY DiskIs DEF FInv, FileTypes
<1>3. /\ FlushedText(you, disk[Copy]) \in Texts
      /\ FlushedText(you, disk[Copy]) = disk[Copy] \o you.out.held
      /\ you' \in Files /\ you'.out.held = <<>> /\ you'.out.open = you.out.open
  BY <1>1, <1>2, FlushedIs
<1>4. /\ disk' \in [Names \cup {Copy} -> Texts] /\ disk'[Copy] = disk[Copy] \o you.out.held
      /\ disk'[me.name] = disk[me.name]
  BY <1>1, <1>2, <1>3 DEF FileTypes
<1>5. pc = "copy"
  BY <1>1, <1>2 DEF FInv, FileTypes, Copying, Copied
<1>6. FileTypes'
  BY <1>1, <1>2, <1>3, <1>4 DEF FileTypes
<1>7. disk'[Copy] \o <<>> = disk'[Copy]
  BY <1>3, <1>4, ConcatEmptySeq DEF Texts
<1>8. Copying'
  BY <1>1, <1>3, <1>4, <1>5, <1>7 DEF FInv, Copying
<1>9. Copied' /\ Reading'
  BY <1>1, <1>5 DEF FInv, Copied, Reading
<1> QED
  BY <1>6, <1>8, <1>9 DEF FInv

\* The loop over the blocks ends behind the end of the file, and the copy is closed.
LEMMA FCopyEnds == ASSUME FInv, before' = before, CopyEnds PROVE FInv'
<1> DEFINE text == disk[me.name]
<1>1. /\ pc = "copy" /\ ~IsGood(me) /\ disk' = [disk EXCEPT ![Copy] = FlushedText(you, @)]
      /\ me' = Tested(me) /\ you' = Closed(you) /\ pc' = "pick"
      /\ log' = log /\ file' = file /\ lines' = lines /\ cleared' = cleared
  BY DEF CopyEnds
<1>2. /\ FileTypes /\ me \in Files /\ you \in Files /\ disk[Copy] \in Texts /\ text \in Texts
      /\ me.name # Copy /\ me.name \in Names
  BY DiskIs DEF FInv, FileTypes
<1>3. /\ me.good /\ me.in.made /\ me.in.pos <= Len(text)
      /\ disk[Copy] \o you.out.held = Passed(text, me.in.pos)
      /\ (me.in.eof \/ me.in.fail) /\ me.name # Log => me.in.pos = Len(text)
  BY <1>1 DEF FInv, Copying
<1>4. Tested(me) \in Files /\ Tested(me).name = me.name
  BY <1>2, TestedIs
<1>5. /\ me' \in Files /\ me'.name = me.name /\ you' \in Files /\ you'.out.held = <<>>
  BY <1>1, <1>2, <1>4, ClosedIs
<1>6. /\ FlushedText(you, disk[Copy]) \in Texts
      /\ FlushedText(you, disk[Copy]) = disk[Copy] \o you.out.held
  BY <1>2, FlushedIs
<1>7. /\ disk' \in [Names \cup {Copy} -> Texts] /\ disk'[Copy] = Passed(text, me.in.pos)
      /\ disk'[me.name] = text
  BY <1>1, <1>2, <1>3, <1>6 DEF FileTypes
<1>8. me.in.eof \/ me.in.fail
  BY <1>1, <1>3 DEF IsGood, Good
<1> HIDE DEF text
<1>9. IsPrefix(Passed(text, me.in.pos), text) /\ Passed(text, Len(text)) = text
  <2> DEFINE p == me.in.pos
             r == SubSeq(text, p + 1, Len(text))
  <2>1. p \in Nat /\ p + 0 <= Len(text) /\ 0 \in Nat
    BY <1>2, <1>3 DEF Files, Streams
  <2>2. Passed(text, p) \in Texts /\ r \in Texts /\ Passed(text, p) \o r = text
        /\ Passed(text, Len(text)) = text
    BY <1>2, <2>1, Parts
  <2>3. IsPrefix(Passed(text, p), Passed(text, p) \o r)
    BY <2>2, PrefixIs
  <2> QED
    BY <2>2, <2>3
<1>10. FileTypes'
  BY <1>1, <1>2, <1>5, <1>7 DEF FileTypes
<1>11. Copying'
  BY <1>1 DEF Copying
<1>12. Copied'
  BY <1>3, <1>5, <1>7, <1>8, <1>9 DEF Copied, CopyIsWhole
<1>13. Reading'
  BY <1>1 DEF FInv, Reading
<1> QED
  BY <1>10, <1>11, <1>12, <1>13 DEF FInv

\* A list with another line behind it.
LEMMA AppendLine ==
  ASSUME NEW a \in Seq(Texts), NEW l \in Texts
  PROVE  /\ Append(a, l) \in Lists1 /\ Append(a, l) \in Seq(Texts)
         /\ Len(a) \in Nat /\ Len(Append(a, l)) = Len(a) + 1
         /\ \A i \in 1..Len(a) : Append(a, l)[i] = a[i]
         /\ Front(Append(a, l)) = a /\ Last(Append(a, l)) = l
<1> DEFINE b == Append(a, l)
<1>1. /\ b \in Seq(Texts) /\ Len(a) \in Nat /\ Len(b) = Len(a) + 1
      /\ \A i \in 1..Len(a) : b[i] = a[i]
      /\ b[Len(a) + 1] = l
  BY AppendProperties
<1> HIDE DEF b
<1>2. b \in Lists1
  BY <1>1 DEF Lists1
<1>3. /\ Last(b) = b[Len(b)] /\ Front(b) \in Seq(Texts) /\ Len(Front(b)) = Len(b) - 1
      /\ \A i \in 1..(Len(b) - 1) : Front(b)[i] = b[i]
  BY <1>2, LastLine
<1>4. Len(Front(b)) = Len(a) /\ \A i \in 1..Len(a) : Front(b)[i] = a[i]
  BY <1>1, <1>3
<1>5. Front(b) = a
  BY <1>3, <1>4, SeqEqual
<1> QED
  BY <1>1, <1>2, <1>3, <1>5 DEF b

\* A line is read, and the newline behind it unless the stream is no longer good.
LEMMA NextLine ==
  ASSUME NEW u \in Texts, NEW v \in Texts, NEW a \in Seq(Texts),
         LinesOf(u) = Append(a, <<>>), \A i \in 1..Len(v) : v[i] # Newline
  PROVE  /\ LinesOf(u \o v) = Append(a, v)
         /\ LinesOf(Append(u \o v, Newline)) = Append(Append(a, v), <<>>)
<1>1. <<>> \in Texts /\ Newline \in Chars /\ <<>> \o v = v
  BY TextAssumption, ConcatEmptySeq DEF Texts
<1>2. Front(Append(a, <<>>)) = a /\ Last(Append(a, <<>>)) = <<>>
  BY <1>1, AppendLine
<1>3. LinesOf(u \o v) = Append(a, v)
  <2>1. LinesOf(u \o v) = Append(Front(LinesOf(u)), Last(LinesOf(u)) \o v)
    BY LinesPlain
  <2> QED
    BY <1>1, <1>2, <2>1
<1>4. u \o v \in Texts
  BY ConcatProperties DEF Texts
<1>5. LinesOf(Append(u \o v, Newline)) = Longer(LinesOf(u \o v), Newline)
  BY <1>1, <1>4, LinesAre
<1> QED
  BY <1>3, <1>5 DEF Longer

\* A text is opened to be read from its beginning, if it is there.
LEMMA FOpenText ==
  ASSUME FInv, before' = before, NEW f \in Names \cup {Copy}, OpenText(f)
  PROVE  FInv'
<1> DEFINE ok == f \in tree \/ (f = Copy /\ CopyThere)
<1>1. /\ pc = "pick" /\ file' = Opened(NewFile(f), "in", "text", ok) /\ pc' = "read"
      /\ disk' = disk /\ log' = log /\ me' = me /\ you' = you /\ lines' = lines
      /\ cleared' = cleared
  BY DEF OpenText
<1>2. FileTypes /\ lines = <<>> /\ ~cleared /\ disk[f] \in Texts
  BY <1>1, DiskIs DEF FInv, Reading
<1>3. /\ file' \in Files /\ file'.name = f /\ file'.in.pos = 0
      /\ ok => file'.in.open
      /\ ~ok => file'.in.fail
      /\ file'.in.made
  <2>1. "in" \in {"in", "out"} /\ "text" \in {"text", "binary"} /\ ok \in BOOLEAN
    OBVIOUS
  <2> HIDE DEF ok
  <2> QED
    BY <1>1, <2>1, OpenedIs
<1> HIDE DEF ok
<1>4. Good(file'.in) => file'.in.open
  BY <1>3 DEF Good
<1>5. 0 <= Len(disk[f]) /\ LinesOf(Passed(disk[f], 0)) = Append(<<>>, <<>>)
  <2>1. 0 \in Nat /\ 0 + 0 <= Len(disk[f]) /\ 0 <= Len(disk[f])
    BY <1>2 DEF Texts
  <2>2. Passed(disk[f], 0) = <<>>
    BY <1>2, <2>1, Parts
  <2>3. LinesOf(<<>>) = << <<>> >>
    BY LinesAre
  <2>4. Append(<<>>, <<>>) = << <<>> >>
    OBVIOUS
  <2> QED
    BY <2>1, <2>2, <2>3, <2>4
<1>6. FileTypes'
  BY <1>1, <1>2, <1>3 DEF FileTypes
<1>7. Copying' /\ Copied'
  BY <1>1 DEF FInv, Copying, Copied, CopyIsWhole
<1>8. Reading'
  BY <1>1, <1>2, <1>3, <1>4, <1>5 DEF Reading
<1> QED
  BY <1>6, <1>7, <1>8 DEF FInv

\* A line is read.
LEMMA FReadLine == ASSUME FInv, before' = before, ReadLine PROVE FInv'
<1> DEFINE from == Tested(file)
           text == disk[file.name]
           got == GetLine(from, text)
           pos == file.in.pos
           end == got.object.in.pos
<1>1. /\ pc = "read" /\ Good(file.in) /\ file' = got.object /\ lines' = Append(lines, got.line)
      /\ disk' = disk /\ log' = log /\ pc' = pc /\ me' = me /\ you' = you
      /\ cleared' = cleared
  BY DEF ReadLine, CanGetLine
<1>2. FileTypes /\ file \in Files /\ text \in Texts /\ lines \in Seq(Texts) /\ pos \in Nat
  BY DiskIs DEF FInv, FileTypes, Files, Streams
<1>3. /\ file.in.made /\ file.in.open /\ pos <= Len(text)
      /\ ~cleared => LinesOf(Passed(text, pos)) = Append(lines, <<>>)
  BY <1>1 DEF FInv, Reading
<1>4. from \in Files /\ from.in = file.in /\ from.name = file.name
  BY <1>2, TestedIs
<1>5. from.in.open /\ from.in.pos <= Len(text) /\ got = GetLine(from, text) /\ from.in.pos = pos
  BY <1>3, <1>4
<1> HIDE DEF from, text, got
<1>6. /\ got.line \in Texts /\ \A i \in 1..Len(got.line) : got.line[i] # Newline
      /\ end \in Nat /\ end <= Len(text)
      /\ \/ Passed(text, end) = Passed(text, from.in.pos) \o got.line /\ ~Good(got.object.in)
         \/ Passed(text, end) = Append(Passed(text, from.in.pos) \o got.line, Newline)
  BY <1>2, <1>4, <1>5, GetLineIs
<1>7. /\ file' \in Files /\ file'.name = file.name /\ file'.in.open /\ file'.in.made
  BY <1>1, <1>2, <1>3, <1>4, <1>5, ReadingIs
<1>8. lines' \in Seq(Texts)
  BY <1>1, <1>2, <1>6, AppendProperties
<1>9. ~cleared => \/ LinesOf(Passed(text, end)) = lines' /\ ~Good(file'.in)
                  \/ LinesOf(Passed(text, end)) = Append(lines', <<>>)
  <2> SUFFICES ASSUME ~cleared
               PROVE  \/ LinesOf(Passed(text, end)) = lines' /\ ~Good(file'.in)
                      \/ LinesOf(Passed(text, end)) = Append(lines', <<>>)
    OBVIOUS
  <2>1. Passed(text, pos) \in Texts
    <3>1. 0 \in Nat /\ pos + 0 <= Len(text)
      BY <1>2, <1>3
    <3> QED
      BY <1>2, <3>1, Parts
  <2>2. /\ LinesOf(Passed(text, pos) \o got.line) = Append(lines, got.line)
        /\ LinesOf(Append(Passed(text, pos) \o got.line, Newline)) =
             Append(Append(lines, got.line), <<>>)
    BY <1>2, <1>3, <1>6, <2>1, NextLine
  <2> QED
    BY <1>1, <1>5, <1>6, <2>2
<1>10. text = disk'[file'.name] /\ file'.in.pos = end
  BY <1>1, <1>7 DEF text
<1>11. FileTypes'
  BY <1>1, <1>2, <1>7, <1>8 DEF FileTypes
<1>12. Copying' /\ Copied'
  BY <1>1 DEF FInv, Copying, Copied, CopyIsWhole
<1> HIDE DEF end
<1>13. Reading'
  BY <1>1, <1>6, <1>7, <1>9, <1>10 DEF Reading
<1> QED
  BY <1>11, <1>12, <1>13 DEF FInv

\* The loop over the lines ends.
LEMMA FReadEnds == ASSUME FInv, before' = before, ReadEnds PROVE FInv'
<1>1. /\ pc = "read" /\ pc' = "end"
      /\ file' = Closed(Tested(file)) \/ file' = Closed(file)
      /\ disk' = disk /\ log' = log /\ me' = me /\ you' = you /\ lines' = lines
      /\ cleared' = cleared
  BY DEF ReadEnds
<1>2. FileTypes /\ file \in Files
  BY DEF FInv, FileTypes
<1>3. PICK ob \in {file, Tested(file)} : file' = Closed(ob)
  BY <1>1
<1>4. ob \in Files /\ ob.name = file.name /\ ob.in = file.in
  BY <1>2, <1>3, TestedIs
<1>5. /\ file' \in Files /\ file'.name = file.name /\ file'.in.pos = file.in.pos
      /\ Good(file'.in) => Good(file.in)
  BY <1>3, <1>4, ClosedIs
<1>6. FileTypes'
  BY <1>1, <1>2, <1>5 DEF FileTypes
<1>7. Copying' /\ Copied'
  BY <1>1 DEF FInv, Copying, Copied, CopyIsWhole
<1>8. Reading'
  <2>1. Reading
    BY DEF FInv
  <2> QED
    BY <1>1, <1>5, <2>1 DEF Reading
<1> QED
  BY <1>6, <1>7, <1>8 DEF FInv

\* After clear() nothing is said of the lines any more.
LEMMA FClear == ASSUME FInv, before' = before, ClearAndGoOn PROVE FInv'
<1>1. /\ pc = "read" /\ file.in.open /\ file' = Cleared(file) /\ cleared' = TRUE
      /\ disk' = disk /\ log' = log /\ pc' = pc /\ me' = me /\ you' = you /\ lines' = lines
  BY DEF ClearAndGoOn
<1>2. FileTypes /\ file \in Files /\ disk[file.name] \in Texts
  BY DiskIs DEF FInv, FileTypes
<1>3. file.in.pos <= Len(disk[file.name]) /\ file.in.made
  BY <1>1 DEF FInv, Reading
<1>4. /\ file' \in Files /\ file'.name = file.name /\ file'.in.pos = file.in.pos
      /\ file'.in.open /\ file'.in.made
  BY <1>1, <1>2, <1>3, ReadingIs
<1>5. FileTypes'
  BY <1>1, <1>2, <1>4 DEF FileTypes
<1>6. Copying' /\ Copied'
  BY <1>1 DEF FInv, Copying, Copied, CopyIsWhole
<1>7. Reading'
  BY <1>1, <1>3, <1>4 DEF Reading
<1> QED
  BY <1>5, <1>6, <1>7 DEF FInv

\* Every step keeps the invariant.
LEMMA FStep == IInv /\ FInv /\ [Next]_vars => FInv'
<1> SUFFICES ASSUME IInv, FInv, [Next]_vars PROVE FInv'
  OBVIOUS
<1>1. Types
  BY DEF IInv
<1>2. CASE Search
  <2>1. before' = before
    BY <1>2 DEF Search, SearchStep, FindFirst, PassEnds, Descend, Return, FindNext
  <2> QED
    BY <1>2, <2>1, FElse DEF Search
<1>3. CASE Upload
  BY <1>3, FElse DEF Upload, searchVars
<1>4. CASE UNCHANGED vars
  BY <1>4, FElse DEF vars, searchVars
<1>5. ASSUME NEW s \in Lines, NEW r \in BOOLEAN, AddLine(s, r) PROVE FInv'
  <2>1. before' = before
    BY <1>5 DEF AddLine, searchVars
  <2> QED
    BY <1>5, <2>1, FAddLine
<1>6. ASSUME NEW f \in Names, OpenBoth(f) PROVE FInv'
  <2>1. before' = before
    BY <1>6 DEF OpenBoth, searchVars
  <2> QED
    BY <1>1, <1>6, <2>1, FOpenBoth
<1>7. ASSUME NEW f \in Names \cup {Copy}, OpenText(f) PROVE FInv'
  <2>1. before' = before
    BY <1>7 DEF OpenText, searchVars
  <2> QED
    BY <1>7, <2>1, FOpenText
<1>8. CASE CopyBlock
  BY <1>8, FCopyBlock DEF CopyBlock, searchVars
<1>9. CASE Spill
  BY <1>9, FSpill DEF Spill, searchVars
<1>10. CASE CopyEnds
  BY <1>10, FCopyEnds DEF CopyEnds, searchVars
<1>11. CASE ReadLine
  BY <1>11, FReadLine DEF ReadLine, searchVars
<1>12. CASE ReadEnds
  BY <1>12, FReadEnds DEF ReadEnds, searchVars
<1>13. CASE ClearAndGoOn
  BY <1>13, FClear DEF ClearAndGoOn, searchVars
<1> QED
  BY <1>2, <1>3, <1>4, <1>5, <1>6, <1>7, <1>8, <1>9, <1>10, <1>11, <1>12, <1>13
     DEF Next, Program


\* The first lines of a list.
LEMMA FirstLines ==
  ASSUME NEW a \in Lists1, NEW b \in Lists1, Len(a) <= Len(b),
         \A i \in 1..(Len(a) - 1) : b[i] = a[i]
  PROVE  Front(a) = SubSeq(b, 1, Len(a) - 1)
<1> DEFINE n == Len(a) - 1
<1>1. /\ Len(a) \in Nat /\ Len(a) >= 1 /\ Front(a) \in Seq(Texts) /\ Len(Front(a)) = n
      /\ \A i \in 1..n : Front(a)[i] = a[i]
  BY LastLine
<1>2. Len(b) \in Nat /\ \A i \in 1..Len(b) : b[i] \in Texts
  BY LastLine
<1>3. n \in Nat /\ n <= Len(b) /\ \A i \in 1..n : i \in 1..Len(b)
  BY <1>1, <1>2
<1>4. \A i \in 1..n : b[i] = a[i]
  OBVIOUS
<1> HIDE DEF n
<1>5. /\ SubSeq(b, 1, n) \in Seq(Texts) /\ Len(SubSeq(b, 1, n)) = n
      /\ \A i \in 1..n : SubSeq(b, 1, n)[i] = b[i]
  <2>1. \A i \in 1..n : b[i] \in Texts
    BY <1>2, <1>3
  <2>2. /\ SubSeq(b, 1, n) \in Seq(Texts)
        /\ Len(SubSeq(b, 1, n)) = IF 1 <= n THEN n - 1 + 1 ELSE 0
        /\ \A i \in 1..(n - 1 + 1) : SubSeq(b, 1, n)[i] = b[1 + i - 1]
    BY <1>3, <2>1, SubSeqProperties
  <2>3. (IF 1 <= n THEN n - 1 + 1 ELSE 0) = n /\ n - 1 + 1 = n /\ \A i \in 1..n : 1 + i - 1 = i
    BY <1>3
  <2> QED
    BY <2>2, <2>3
<1>6. Front(a) = SubSeq(b, 1, n)
  BY <1>1, <1>4, <1>5, SeqEqual
<1> QED
  BY <1>6 DEF n

\* What was read, and what the file holds.
LEMMA FReads == FInv => ReadsHold
<1> SUFFICES ASSUME FInv PROVE ReadsHold
  OBVIOUS
<1>1. CopyIsWhole
  BY DEF FInv, Copied, CopyIsWhole
<1>2. OnlyTheLastLineIsCut
  <2> DEFINE text == disk[file.name]
             all == LinesOf(text)
             upto == LinesOf(Passed(text, file.in.pos))
  <2>1. SUFFICES ASSUME ~cleared, lines # <<>>
                 PROVE  /\ Len(lines) <= Len(all)
                        /\ Front(lines) = SubSeq(all, 1, Len(lines) - 1)
                        /\ IsPrefix(Last(lines), all[Len(lines)])
                        /\ Last(lines) # all[Len(lines)] => ~Good(file.in)
    BY DEF OnlyTheLastLineIsCut
  <2>2. FileTypes /\ text \in Texts /\ file.in.pos \in Nat /\ lines \in Seq(Texts)
    BY DiskIs DEF FInv, FileTypes, Files, Streams
  <2>3. pc \in {"read", "end"}
    BY <2>1, <2>2 DEF FInv, FileTypes, Reading
  <2>4. /\ file.in.pos <= Len(text) /\ upto \in {lines, Append(lines, <<>>)}
        /\ Good(file.in) => upto = Append(lines, <<>>)
    BY <2>1, <2>3 DEF FInv, Reading
  <2> HIDE DEF text
  <2>5. Grown(upto, all)
    <3> DEFINE p == file.in.pos
               r == SubSeq(text, p + 1, Len(text))
    <3>1. 0 \in Nat /\ p + 0 <= Len(text)
      BY <2>2, <2>4
    <3>2. Passed(text, p) \in Texts /\ r \in Texts /\ Passed(text, p) \o r = text
      BY <2>2, <3>1, Parts
    <3> HIDE DEF r, p
    <3>3. Grown(LinesOf(Passed(text, p)), LinesOf(Passed(text, p) \o r))
      BY <3>2, LinesGrow
    <3> QED
      BY <3>2, <3>3 DEF p
  <2>6. all \in Lists1
    BY <2>2, LinesType
  <2> HIDE DEF all, upto
  <2>7. lines \in Lists1
    BY <2>1, <2>2 DEF Lists1
  <2>8. /\ Len(lines) \in Nat /\ Len(lines) >= 1 /\ Last(lines) = lines[Len(lines)]
        /\ lines[Len(lines)] \in Texts
    BY <2>7, LastLine
  <2>9. CASE upto = Append(lines, <<>>)
    <3>1. <<>> \in Texts
      BY DEF Texts
    <3>2. /\ Len(Append(lines, <<>>)) = Len(lines) + 1
          /\ \A i \in 1..Len(lines) : Append(lines, <<>>)[i] = lines[i]
      BY <2>2, <3>1, AppendLine
    <3>3. /\ Len(lines) + 1 <= Len(all) /\ \A i \in 1..((Len(lines) + 1) - 1) : all[i] = upto[i]
      BY <2>5, <2>9, <3>2 DEF Grown
    <3>4. \A i \in 1..Len(lines) : all[i] = lines[i]
      <4>1. (Len(lines) + 1) - 1 = Len(lines)
        BY <2>8
      <4> QED
        BY <2>9, <3>2, <3>3, <4>1
    <3>5. /\ Len(lines) <= Len(all) /\ \A i \in 1..(Len(lines) - 1) : all[i] = lines[i]
          /\ all[Len(lines)] = lines[Len(lines)]
      <4>1. Len(all) \in Nat
        BY <2>6, LastLine
      <4>2. Len(lines) \in 1..Len(lines) /\ \A i \in 1..(Len(lines) - 1) : i \in 1..Len(lines)
        BY <2>8
      <4> QED
        BY <2>8, <3>3, <3>4, <4>1, <4>2
    <3>6. Front(lines) = SubSeq(all, 1, Len(lines) - 1)
      BY <2>6, <2>7, <3>5, FirstLines
    <3>7. IsPrefix(lines[Len(lines)], lines[Len(lines)])
      BY <2>8, PrefixIs
    <3> QED
      BY <2>8, <3>5, <3>6, <3>7
  <2>10. CASE upto = lines /\ upto # Append(lines, <<>>)
    <3>1. /\ Len(lines) <= Len(all) /\ \A i \in 1..(Len(lines) - 1) : all[i] = lines[i]
          /\ IsPrefix(lines[Len(lines)], all[Len(lines)])
      BY <2>5, <2>10 DEF Grown
    <3>2. Front(lines) = SubSeq(all, 1, Len(lines) - 1)
      BY <2>6, <2>7, <3>1, FirstLines
    <3> QED
      BY <2>4, <2>8, <2>10, <3>1, <3>2
  <2> QED
    BY <2>4, <2>9, <2>10
<1> QED
  BY <1>1, <1>2 DEF ReadsHold

\* What is in the copy and in the lines is what was in the files.
THEOREM FInductive == Spec => []FInv
<1>1. Init => FInv
  BY FInit
<1>2. IInv /\ FInv /\ [Next]_vars => FInv'
  BY FStep
<1> QED
  BY <1>1, <1>2, Inductive, PTL DEF Spec

\* A copy that was opened is the file, or as much of it as there was when its end was
\* met, and of the lines only the last one may not be whole.
THEOREM ReadsHoldAlways == Spec => []ReadsHold
BY FInductive, FReads, PTL
=============================================================================
